-------------------------- MODULE SessionTreeProofs --------------------------
(***************************************************************************)
(* Theorems about SessionTree, for every set of sessions and of posters,   *)
(* every nesting of handlers and stops and every number of requests: no    *)
(* event outlives its session, stops and deletions happen once and in      *)
(* order, the tree stays a tree, and the kernel keeps the promises of      *)
(* Lifecycle.                                                              *)
(***************************************************************************)
EXTENDS SessionTree, FilterProofs

(***************************************************************************)
(* The inductive invariant.                                                *)
(***************************************************************************)
Shared == pqueue \o pending    \* the events behind one another in the end

IsStop(i) == stack[i].type # "handler"

OnStack(r) == \E i \in DOMAIN stack : IsStop(i) /\ stack[i].session = r

(* The tree: a session hangs from the kernel's own exactly while it is      *)
(* attached, and the lists of children agree with the parents.              *)
TreeInv ==
    /\ life[Kernel] = "attached" /\ parent[Kernel] = None
    /\ \A c, p \in Nodes : c \in Kids(p) <=> parent[c] = p
    /\ \A s \in Sessions : IF s \in Attached THEN parent[s] \in Attached ELSE parent[s] = None
    /\ Attached \subseteq Descendants(Kernel)

(* The stoppers: a session that is stopped has the stopper of its parent,   *)
(* up to the one that was stopped itself; what is below it is stopped too.  *)
StopperInv ==
    /\ stopper[Kernel] = None
    /\ \A s \in Nodes : life[s] = "new" => stopper[s] = None /\ stops[s] = 0
    /\ \A s \in Attached : stopper[s] # None =>
          /\ stopper[s] \in Attached /\ stopper[stopper[s]] = stopper[s]
          /\ s = stopper[s] \/ stopper[parent[s]] = stopper[s]
    /\ \A s \in Attached \ {Kernel} : stopper[parent[s]] # None => stopper[s] # None

(* The queues: a tree that is stopped has one delete event, or is about to  *)
(* get it, and nothing for the tree comes after it in the shared queues.    *)
Marked(r) == stack # <<>> /\ Top.type = "marked" /\ Top.session = r

QueueInv ==
    /\ \A e \in ToSet(lqueue) : e.type = "msg" /\ e.session \in Attached
    /\ \A e \in ToSet(Shared) : e.session \in Attached
    /\ \A d, e \in ToSet(Shared) : d.type = "delete" /\ Before(Shared, d, e) =>
          e.session \notin Descendants(d.session)
    /\ \A s \in Attached : stopper[s] = s <=> Event("delete", s) \in ToSet(Shared) \/ Marked(s)
    /\ \A s \in Attached : Marked(s) =>
          \A d \in ToSet(Shared) : d.type = "delete" => s \notin Descendants(d.session)
    /\ \A p \in Posters : posting[p] # None =>
          posting[p] \in Attached /\ stopper[posting[p]] = None
    /\ \A s \in Nodes : alarm[s] # "none" => s \in Attached

(* The stack: what is stopped is a tree of its own; of the sessions it has  *)
(* called, and the one it calls now, all below have been called.            *)
StopFrame(i) ==
    LET f == stack[i]
        r == f.session
    IN  /\ stopper[r] = r
        /\ f.done \subseteq {s \in Attached : stopper[s] = r}
        /\ \A d \in f.done : \A c \in Kids(d) : stopper[c] = r => c \in f.done
        /\ f.type = "marked" => f.done = {} /\ i = Len(stack)
        /\ i < Len(stack) =>
              LET n == stack[i + 1].session
              IN  /\ stack[i + 1].type = "handler"
                  /\ stopper[n] = r /\ n \notin f.done
                  /\ \A c \in Kids(n) : stopper[c] = r => c \in f.done

StackInv ==
    /\ \A i \in DOMAIN stack : stack[i].session \in Attached
    /\ \A i \in DOMAIN stack : IsStop(i) => StopFrame(i)
    /\ \A i, j \in DOMAIN stack :
          IsStop(i) /\ IsStop(j) /\ stack[i].session = stack[j].session => i = j

(* The calls: a stop handler has begun, for the sessions of a stop on the   *)
(* stack, if it is done or runs just above; for the others stopped, always. *)
Begun(s, i) == s \in stack[i].done \/ (i < Len(stack) /\ stack[i + 1].session = s)

CallInv ==
    /\ \A s \in Nodes : stops[s] \in {0, 1}
    /\ \A s \in Attached :
          /\ s \in sid_map <=> stopper[s] = None \/ OnStack(stopper[s])
          /\ stopper[s] = None => stops[s] = 0
          /\ stopper[s] # None /\ ~ OnStack(stopper[s]) => stops[s] = 1
          /\ \A i \in DOMAIN stack : IsStop(i) /\ stack[i].session = stopper[s] =>
                (stops[s] = 1 <=> Begun(s, i))

IndInv == TypeOK /\ TreeInv /\ StopperInv /\ QueueInv /\ StackInv /\ CallInv
-----------------------------------------------------------------------------
(***************************************************************************)
(* Walks.                                                                  *)
(***************************************************************************)
Closed(X, D) == \A m \in X : Kids(m) \cap D \subseteq X

LEMMA ReachedClosed ==
    ASSUME NEW s \in Nodes, NEW D \in SUBSET Nodes
    PROVE  s \in Reached(s, D) /\ Reached(s, D) \subseteq Nodes /\ Closed(Reached(s, D), D)
BY DEF Reached, Closed

LEMMA ReachedLeast ==
    ASSUME NEW s \in Nodes, NEW D, NEW X \in SUBSET Nodes, s \in X, Closed(X, D)
    PROVE  Reached(s, D) \subseteq X
BY DEF Reached, Closed

(* Whoever is met is the first one or a child of one that is met.           *)
LEMMA ReachedVia ==
    ASSUME NEW s \in Nodes, NEW D \in SUBSET Nodes, NEW n \in Reached(s, D), n # s
    PROVE  n \in D /\ \E m \in Reached(s, D) : n \in Kids(m)
<1> DEFINE R == Reached(s, D)
           X == {k \in R : k = s \/ (k \in D /\ \E m \in R : k \in Kids(m))}
<1>1. s \in R /\ R \subseteq Nodes /\ Closed(R, D)
  BY ReachedClosed
<1>2. Closed(X, D)
  BY <1>1 DEF Closed
<1>3. R \subseteq X
  <2> HIDE DEF X
  <2> QED
    BY <1>1, <1>2, ReachedLeast DEF X
<1> QED
  BY <1>3

LEMMA DescendantsClosed ==
    ASSUME TypeOK, NEW s \in Nodes
    PROVE  /\ s \in Descendants(s) /\ Descendants(s) \subseteq Nodes
           /\ \A m \in Descendants(s) : Kids(m) \subseteq Descendants(s)
<1>1. \A m \in Nodes : Kids(m) \subseteq Nodes
  BY DEF TypeOK, Kids, ToSet, Nodes
<1> QED
  BY <1>1, ReachedClosed DEF Descendants, Closed

LEMMA DescendantsLeast ==
    ASSUME NEW s \in Nodes, NEW X \in SUBSET Nodes, s \in X, \A m \in X : Kids(m) \subseteq X
    PROVE  Descendants(s) \subseteq X
BY ReachedLeast DEF Descendants, Closed

LEMMA DescendantsOfDescendant ==
    ASSUME TypeOK, NEW s \in Nodes, NEW n \in Descendants(s)
    PROVE  Descendants(n) \subseteq Descendants(s)
BY DescendantsClosed, DescendantsLeast

LEMMA ReachedBelow ==
    ASSUME TypeOK, NEW s \in Nodes, NEW D \in SUBSET Nodes
    PROVE  Reached(s, D) \subseteq Descendants(s)
BY DescendantsClosed, ReachedLeast DEF Closed

LEMMA DescendantsVia ==
    ASSUME NEW s \in Nodes, NEW n \in Descendants(s), n # s
    PROVE  \E m \in Descendants(s) : n \in Kids(m)
BY ReachedVia DEF Descendants

(* As long as no list of children changes, neither do the descendants.      *)
LEMMA SameDescendants ==
    ASSUME UNCHANGED children
    PROVE  /\ \A n \in Nodes : Kids(n)' = Kids(n)
           /\ \A s \in Nodes : Descendants(s)' = Descendants(s)
BY DEF Descendants, Reached, Kids
-----------------------------------------------------------------------------
(***************************************************************************)
(* The tree.                                                               *)
(***************************************************************************)
LEMMA ChildAttached ==
    ASSUME SessionTreeAssumption, TypeOK, TreeInv,
           NEW m \in Nodes, NEW c \in Kids(m)
    PROVE  c \in Sessions /\ c \in Attached /\ m \in Attached /\ parent[c] = m
<1>1. c \in Sessions /\ c \in Nodes
  BY DEF TypeOK, Kids, ToSet, Nodes
<1>2. parent[c] = m /\ m # None
  BY <1>1 DEF TreeInv, SessionTreeAssumption, Nodes
<1> QED
  BY <1>1, <1>2 DEF TreeInv

LEMMA DescendantsAttached ==
    ASSUME SessionTreeAssumption, TypeOK, TreeInv, NEW s \in Attached
    PROVE  Descendants(s) \subseteq Attached
<1>1. Attached \in SUBSET Nodes /\ s \in Nodes
  BY DEF Attached
<1>2. \A m \in Attached : Kids(m) \subseteq Attached
  BY <1>1, ChildAttached
<1> QED
  BY <1>1, <1>2, DescendantsLeast

(* Below a session other than the kernel's there are only such sessions.    *)
LEMMA KernelAboveAll ==
    ASSUME SessionTreeAssumption, TypeOK, TreeInv, NEW s \in Sessions
    PROVE  Descendants(s) \subseteq Sessions
<1>1. Sessions \in SUBSET Nodes /\ s \in Nodes
  BY DEF Nodes
<1>2. \A m \in Sessions : Kids(m) \subseteq Sessions
  BY <1>1, ChildAttached
<1> QED
  BY <1>1, <1>2, DescendantsLeast

(* Whoever goes up from an attached session comes to the kernel's: no set   *)
(* of others contains the parents of all its members.                       *)
LEMMA Upwards ==
    ASSUME SessionTreeAssumption, TypeOK, TreeInv,
           NEW B \in SUBSET Attached, \A s \in B : s # Kernel /\ parent[s] \in B
    PROVE  B = {}
<1> DEFINE X == Nodes \ B
<1>1. Kernel \in Nodes /\ X \in SUBSET Nodes /\ Kernel \in X
  BY DEF Nodes
<1>2. \A m \in X : Kids(m) \subseteq X
  <2> SUFFICES ASSUME NEW m \in X, NEW c \in Kids(m) PROVE c \in X
    OBVIOUS
  <2>1. c \in Nodes /\ parent[c] = m
    BY ChildAttached DEF Nodes
  <2> QED
    BY <2>1
<1>3. Descendants(Kernel) \subseteq X
  <2> HIDE DEF X
  <2> QED
    BY <1>1, <1>2, DescendantsLeast
<1> QED
  BY <1>3 DEF TreeInv

(* Two sessions that are below one another are the same.                    *)
LEMMA NoRings ==
    ASSUME SessionTreeAssumption, TypeOK, TreeInv,
           NEW s \in Attached, NEW r \in Descendants(s), s \in Descendants(r)
    PROVE  r = s
<1> SUFFICES ASSUME r # s PROVE FALSE
  OBVIOUS
<1> DEFINE C == {n \in Descendants(s) : s \in Descendants(n)}
<1>1. s \in Nodes /\ r \in Nodes /\ Descendants(s) \subseteq Attached /\ s \in C
  BY DescendantsClosed, DescendantsAttached DEF Attached
<1>2. ASSUME NEW n \in C PROVE n # Kernel /\ parent[n] \in C
  <2>1. \E z \in Descendants(s) : z # n /\ n \in Descendants(z) /\ z \in Nodes
    BY <1>1, <1>2, DescendantsClosed
  <2>2. PICK z \in Descendants(s) : z # n /\ n \in Descendants(z) /\ z \in Nodes
    BY <2>1
  <2>3. PICK m \in Descendants(z) : n \in Kids(m)
    BY <2>2, DescendantsVia
  <2>4. m \in Nodes /\ m \in Descendants(s)
    BY <2>2, <2>3, <1>1, DescendantsClosed, DescendantsOfDescendant
  <2>5. parent[n] = m /\ n \in Sessions
    BY <2>3, <2>4, ChildAttached
  <2>6. n \in Descendants(m)
    BY <2>3, <2>4, DescendantsClosed
  <2>7. Descendants(n) \subseteq Descendants(m)
    BY <2>4, <2>6, DescendantsOfDescendant
  <2> QED
    BY <1>2, <2>4, <2>5, <2>7 DEF SessionTreeAssumption
<1>3. C = {}
  <2> HIDE DEF C
  <2>1. C \subseteq Attached
    BY <1>1 DEF C
  <2> QED
    BY <1>2, <2>1, Upwards
<1> QED
  BY <1>1, <1>3
-----------------------------------------------------------------------------
(***************************************************************************)
(* The stoppers.                                                           *)
(***************************************************************************)

(* Below a session that is stopped all are.                                 *)
LEMMA DescendantsStopped ==
    ASSUME SessionTreeAssumption, TypeOK, TreeInv, StopperInv,
           NEW s \in Attached, stopper[s] # None, NEW n \in Descendants(s)
    PROVE  n \in Attached /\ stopper[n] # None
<1> DEFINE X == {k \in Attached : stopper[k] # None}
<1>1. s \in Nodes /\ X \in SUBSET Nodes /\ s \in X
  BY DEF Attached
<1>2. \A m \in X : Kids(m) \subseteq X
  <2> SUFFICES ASSUME NEW m \in X, NEW c \in Kids(m) PROVE c \in X
    OBVIOUS
  <2>1. c \in Sessions /\ c \in Attached /\ parent[c] = m
    BY <1>1, ChildAttached
  <2> QED
    BY <2>1 DEF StopperInv, SessionTreeAssumption
<1>3. Descendants(s) \subseteq X
  <2> HIDE DEF X
  <2> QED
    BY <1>1, <1>2, DescendantsLeast
<1> QED
  BY <1>3

(* A session that is stopped is below its stopper, and all between them     *)
(* have the same stopper.                                                   *)
LEMMA StoppedByIs ==
    ASSUME SessionTreeAssumption, TypeOK, TreeInv, StopperInv,
           NEW r \in Attached, stopper[r] = r
    PROVE  StoppedBy(r) = {s \in Attached : stopper[s] = r}
<1> DEFINE D == {n \in Nodes : stopper[n] = r}
           S == {s \in Attached : stopper[s] = r}
           B == S \ StoppedBy(r)
<1>1. r \in Nodes /\ D \in SUBSET Nodes /\ S \in SUBSET Nodes /\ r \in S /\ r # None /\ r # Kernel
  BY DEF Attached, StopperInv, SessionTreeAssumption, Nodes
<1>2. r \in StoppedBy(r) /\ StoppedBy(r) \subseteq Nodes /\ Closed(StoppedBy(r), D)
  BY <1>1, ReachedClosed DEF StoppedBy
<1>3. StoppedBy(r) \subseteq S
  <2>1. Closed(S, D)
    BY <1>1, ChildAttached DEF Closed
  <2> HIDE DEF D, S
  <2> QED
    BY <1>1, <2>1, ReachedLeast DEF StoppedBy, D
<1>4. ASSUME NEW s \in B PROVE s # Kernel /\ parent[s] \in B
  <2>1. s \in Attached /\ stopper[s] = r /\ s # r /\ s # Kernel
    BY <1>1, <1>2 DEF StopperInv
  <2>2. stopper[parent[s]] = r
    BY <1>1, <2>1 DEF StopperInv
  <2>3. s \in Sessions /\ s \in Nodes /\ parent[s] \in Attached /\ parent[s] \in Nodes
    BY <2>1 DEF TreeInv, Attached, Nodes
  <2>4. s \in Kids(parent[s])
    BY <2>3 DEF TreeInv
  <2>5. parent[s] \notin StoppedBy(r)
    BY <1>2, <2>1, <2>3, <2>4 DEF Closed
  <2> QED
    BY <2>1, <2>2, <2>3, <2>5
<1>5. B = {}
  <2> HIDE DEF B
  <2>1. B \in SUBSET Attached
    BY DEF B
  <2> QED
    BY <1>4, <2>1, Upwards
<1> QED
  BY <1>3, <1>5

LEMMA StopperAbove ==
    ASSUME SessionTreeAssumption, TypeOK, TreeInv, StopperInv,
           NEW s \in Attached, stopper[s] # None
    PROVE  s \in Descendants(stopper[s])
<1> DEFINE r == stopper[s]
<1>1. r \in Attached /\ stopper[r] = r /\ r \in Nodes
  BY DEF StopperInv, Attached
<1> HIDE DEF r
<1>2. s \in StoppedBy(r)
  BY <1>1, StoppedByIs DEF r
<1>3. StoppedBy(r) \subseteq Descendants(r)
  BY <1>1, ReachedBelow DEF StoppedBy
<1> QED
  BY <1>2, <1>3 DEF r

(* The mark of a stop is put on a part of the tree that hangs together and  *)
(* was alive; no child that was alive is left out.                          *)
LEMMA MarksAre ==
    ASSUME SessionTreeAssumption, TypeOK, TreeInv,
           NEW r \in Sessions, r \in Attached, stopper[r] = None
    PROVE  \E M \in SUBSET (Attached \cap Sessions) :
              /\ r \in M
              /\ M \subseteq Descendants(r)
              /\ \A n \in M : stopper[n] = None /\ (n = r \/ parent[n] \in M)
              /\ \A n \in M : \A c \in Kids(n) : stopper[c] = None => c \in M
              /\ Marks(r) = [n \in Nodes |-> IF n \in M THEN r ELSE stopper[n]]
<1> DEFINE D == {n \in Nodes : stopper[n] = None}
           M == Reached(r, D)
<1>1. r \in Nodes /\ D \in SUBSET Nodes
  BY DEF Nodes
<1>2. r \in M /\ M \subseteq Nodes /\ Closed(M, D)
  BY <1>1, ReachedClosed
<1>3. M \subseteq Descendants(r)
  BY <1>1, ReachedBelow
<1>4. M \subseteq Attached \cap Sessions
  BY <1>3, DescendantsAttached, KernelAboveAll
<1>5. ASSUME NEW n \in M, n # r PROVE stopper[n] = None /\ parent[n] \in M
  <2>1. n \in D /\ \E m \in M : n \in Kids(m)
    <3> HIDE DEF D
    <3> QED
      BY <1>1, <1>5, ReachedVia
  <2>2. PICK m \in M : n \in Kids(m)
    BY <2>1
  <2>3. parent[n] = m
    BY <1>2, <2>2, ChildAttached
  <2> QED
    BY <2>1, <2>2, <2>3
<1>6. \A n \in M : \A c \in Kids(n) : stopper[c] = None => c \in M
  <2> SUFFICES ASSUME NEW n \in M, NEW c \in Kids(n), stopper[c] = None PROVE c \in M
    OBVIOUS
  <2>1. c \in D
    BY <1>2, ChildAttached DEF Attached
  <2> QED
    BY <1>2, <2>1 DEF Closed
<1>7. Marks(r) = [n \in Nodes |-> IF n \in M THEN r ELSE stopper[n]]
  BY DEF Marks
<1> HIDE DEF M
<1> QED
  BY <1>2, <1>3, <1>4, <1>5, <1>6, <1>7
-----------------------------------------------------------------------------
(***************************************************************************)
(* The queues and the stack, as sequences.                                 *)
(***************************************************************************)
Events == [type : {"msg", "alarm", "delete"}, session : Nodes]
Frames == [type : {"handler", "marked", "calling"}, session : Nodes, done : SUBSET Sessions]

(* TypeOK, with a name for the kind of what is in the queues and the stack. *)
Types ==
    /\ life \in [Nodes -> {"new", "attached", "deleted"}]
    /\ parent \in [Nodes -> Nodes \cup {None}]
    /\ children \in [Nodes -> Seq(Sessions)]
    /\ stopper \in [Nodes -> Sessions \cup {None}]
    /\ sid_map \subseteq Attached
    /\ handlers \subseteq Nodes
    /\ alarm \in [Nodes -> {"none", "waiting", "queued", "dispatched"}]
    /\ lqueue \in Seq(Events) /\ pqueue \in Seq(Events) /\ pending \in Seq(Events)
    /\ stack \in Seq(Frames)
    /\ posting \in [Posters -> Nodes \cup {None}]
    /\ requests \in 0..MaxRequests
    /\ stops \in [Nodes -> Nat]

LEMMA TypesAre == (TypeOK <=> Types) /\ (TypeOK' <=> Types')
<1>1. TypeOK <=> Types
  BY DEF TypeOK, Types, Events, Frames
<1>2. TypeOK' <=> Types'
  BY DEF TypeOK, Types, Events, Frames
<1> QED
  BY <1>1, <1>2

LEMMA RequestType ==
    ASSUME SessionTreeAssumption, TypeOK, Request
    PROVE  requests' \in 0 .. MaxRequests
BY DEF TypeOK, Request, SessionTreeAssumption

LEMMA QueueTypes ==
    ASSUME TypeOK
    PROVE  /\ lqueue \in Seq(Events) /\ pqueue \in Seq(Events) /\ pending \in Seq(Events)
           /\ Shared \in Seq(Events) /\ stack \in Seq(Frames)
BY DEF TypeOK, Events, Frames, Shared

LEMMA EventIs ==
    ASSUME NEW e \in Events
    PROVE  /\ e = Event(e.type, e.session)
           /\ e.type \in {"msg", "alarm", "delete"} /\ e.session \in Nodes
BY DEF Events, Event

LEMMA EventType ==
    ASSUME NEW t \in {"msg", "alarm", "delete"}, NEW s \in Nodes
    PROVE  Event(t, s) \in Events /\ Event(t, s).type = t /\ Event(t, s).session = s
BY DEF Events, Event

LEMMA FrameType ==
    ASSUME NEW s \in Nodes, NEW D \in SUBSET Sessions
    PROVE  /\ Handler(s) \in Frames /\ Handler(s).type = "handler" /\ Handler(s).session = s
           /\ \A at \in {"marked", "calling"} :
                 /\ Stop(s, at, D) \in Frames /\ Stop(s, at, D).type = at
                 /\ Stop(s, at, D).session = s /\ Stop(s, at, D).done = D
BY DEF Frames, Handler, Stop

LEMMA StackEmpty == ASSUME stack = <<>> PROVE DOMAIN stack = {} /\ Len(stack) = 0
OBVIOUS

LEMMA StackTop ==
    ASSUME TypeOK, stack # <<>>
    PROVE  /\ Len(stack) \in Nat /\ Len(stack) > 0 /\ DOMAIN stack = 1 .. Len(stack)
           /\ Len(stack) \in DOMAIN stack
           /\ Top = stack[Len(stack)] /\ Top \in Frames
           /\ Below \in Seq(Frames) /\ Len(Below) = Len(stack) - 1
           /\ DOMAIN Below = 1 .. Len(stack) - 1
           /\ \A i \in DOMAIN Below : Below[i] = stack[i]
<1>1. stack \in Seq(Frames)
  BY QueueTypes
<1>2. /\ Len(stack) \in Nat /\ Len(stack) > 0 /\ DOMAIN stack = 1 .. Len(stack)
      /\ Len(stack) \in DOMAIN stack /\ \A i \in 1 .. Len(stack) - 1 : stack[i] \in Frames
      /\ stack[Len(stack)] \in Frames
  BY <1>1
<1>3. /\ Below \in Seq(Frames) /\ Len(Below) = Len(stack) - 1
      /\ \A i \in 1 .. Len(stack) - 1 : Below[i] = stack[i]
  BY <1>2, SubSeqProperties DEF Below, Front
<1>4. DOMAIN Below = 1 .. Len(stack) - 1
  BY <1>3
<1> QED
  BY <1>2, <1>3, <1>4 DEF Top, Last

LEMMA StackPush ==
    ASSUME TypeOK, NEW f \in Frames, stack' = Pushed(f)
    PROVE  /\ stack' \in Seq(Frames) /\ stack' # <<>>
           /\ Len(stack) \in Nat /\ DOMAIN stack = 1 .. Len(stack)
           /\ Len(stack') = Len(stack) + 1 /\ DOMAIN stack' = 1 .. Len(stack) + 1
           /\ \A i \in DOMAIN stack : stack'[i] = stack[i]
           /\ stack'[Len(stack) + 1] = f /\ Top' = f
<1>1. stack \in Seq(Frames) /\ stack' = Append(stack, f)
  BY QueueTypes DEF Pushed
<1>2. /\ stack' \in Seq(Frames) /\ stack' # <<>>
      /\ Len(stack) \in Nat /\ DOMAIN stack = 1 .. Len(stack)
      /\ Len(stack') = Len(stack) + 1 /\ DOMAIN stack' = 1 .. Len(stack) + 1
      /\ \A i \in DOMAIN stack : stack'[i] = stack[i]
      /\ stack'[Len(stack) + 1] = f
  BY <1>1
<1>3. Top' = f
  BY <1>2 DEF Top, Last
<1> QED
  BY <1>2, <1>3

(* The stack, with another frame at its top.                                *)
LEMMA StackReplace ==
    ASSUME TypeOK, stack # <<>>, NEW f \in Frames, stack' = Append(Below, f)
    PROVE  /\ stack' \in Seq(Frames) /\ stack' # <<>>
           /\ Len(stack') = Len(stack) /\ DOMAIN stack' = DOMAIN stack
           /\ \A i \in DOMAIN stack : i # Len(stack) => stack'[i] = stack[i]
           /\ stack'[Len(stack)] = f /\ Top' = f
<1>1. /\ Below \in Seq(Frames) /\ Len(Below) = Len(stack) - 1 /\ Len(stack) \in Nat
      /\ Len(stack) > 0
      /\ DOMAIN Below = 1 .. Len(stack) - 1 /\ DOMAIN stack = 1 .. Len(stack)
      /\ \A i \in DOMAIN Below : Below[i] = stack[i]
  BY StackTop
<1>2. /\ stack' \in Seq(Frames) /\ stack' # <<>>
      /\ Len(stack') = Len(stack) /\ DOMAIN stack' = 1 .. Len(stack)
      /\ \A i \in 1 .. Len(stack) - 1 : stack'[i] = Below[i]
      /\ stack'[Len(stack)] = f
  BY <1>1, AppendProperties
<1>3. Top' = f
  BY <1>2 DEF Top, Last
<1>4. \A i \in DOMAIN stack : i # Len(stack) => i \in DOMAIN Below
  BY <1>1
<1> QED
  BY <1>1, <1>2, <1>3, <1>4
-----------------------------------------------------------------------------
(***************************************************************************)
(* What a step that leaves a part of the state alone does not disturb.     *)
(***************************************************************************)
LEMMA KeptTree ==
    ASSUME TreeInv, UNCHANGED tree
    PROVE  TreeInv'
<1>1. /\ UNCHANGED <<life, parent>> /\ UNCHANGED children /\ Attached' = Attached
  BY DEF tree, Attached
<1>2. /\ \A n \in Nodes : Kids(n)' = Kids(n)
      /\ \A s \in Nodes : Descendants(s)' = Descendants(s)
  BY <1>1, SameDescendants
<1>3. Kernel \in Nodes
  BY DEF Nodes
<1>4. \A c, p \in Nodes : c \in Kids(p)' <=> parent'[c] = p
  BY <1>1, <1>2 DEF TreeInv
<1> QED
  BY <1>1, <1>2, <1>3, <1>4 DEF TreeInv

LEMMA KeptStopper ==
    ASSUME StopperInv, UNCHANGED <<life, parent, stopper, stops>>
    PROVE  StopperInv'
BY DEF StopperInv, Attached

(* Nothing is put into the queues or taken from them.                       *)
LEMMA KeptQueue ==
    ASSUME QueueInv, UNCHANGED <<tree, stopper, alarm, queues, posting>>,
           \A s \in Nodes : Marked(s)' = Marked(s)
    PROVE  QueueInv'
<1>1. /\ UNCHANGED <<life, parent, stopper, alarm, lqueue, pqueue, pending, posting>>
      /\ UNCHANGED children /\ Attached' = Attached /\ Shared' = Shared
      /\ Attached \subseteq Nodes
  BY DEF tree, queues, Attached, Shared
<1>2. \A s \in Nodes : Descendants(s)' = Descendants(s)
  BY <1>1, SameDescendants
<1> QED
  BY <1>1, <1>2 DEF QueueInv

LEMMA KeptStack ==
    ASSUME StackInv, UNCHANGED <<tree, stopper, stack>>
    PROVE  StackInv'
<1>1. UNCHANGED <<life, parent, stopper, stack>> /\ UNCHANGED children /\ Attached' = Attached
  BY DEF tree, Attached
<1> QED
  BY <1>1 DEF StackInv, StopFrame, IsStop, Kids

LEMMA KeptCall ==
    ASSUME CallInv, UNCHANGED <<life, local, stack, stops>>
    PROVE  CallInv'
BY DEF CallInv, OnStack, IsStop, Begun, Attached, local
-----------------------------------------------------------------------------
(***************************************************************************)
(* Events.                                                                 *)
(***************************************************************************)

(* A delete event is for a session that was stopped itself ...              *)
LEMMA DeleteStopped ==
    ASSUME TypeOK, QueueInv, NEW d \in ToSet(Shared), d.type = "delete"
    PROVE  /\ d.session \in Attached /\ stopper[d.session] = d.session
           /\ d = Event("delete", d.session)
<1>1. d \in Events
  BY QueueTypes, SetIsOf
<1>2. d = Event("delete", d.session)
  BY <1>1, EventIs
<1>3. d.session \in Attached
  BY DEF QueueInv
<1> QED
  BY <1>2, <1>3 DEF QueueInv

(* ... so that a session which is not stopped is not deleted by it.         *)
LEMMA NotDeleted ==
    ASSUME SessionTreeAssumption, TypeOK, TreeInv, StopperInv, QueueInv,
           NEW s \in Attached, stopper[s] = None,
           NEW d \in ToSet(Shared), d.type = "delete"
    PROVE  s \notin Descendants(d.session)
<1>1. d.session \in Attached /\ stopper[d.session] = d.session /\ d.session # None
  BY DeleteStopped DEF SessionTreeAssumption, Attached, Nodes
<1> QED
  BY <1>1, DescendantsStopped

LEMMA SharedAppend ==
    ASSUME TypeOK, NEW e \in Events, pending' = Append(pending, e), pqueue' = pqueue
    PROVE  /\ ToSet(Shared') = ToSet(Shared) \cup {e}
           /\ \A a, b : Before(Shared', a, b) <=>
                 Before(Shared, a, b) \/ (a \in ToSet(Shared) /\ b = e)
<1>1. pqueue \in Seq(Events) /\ pending \in Seq(Events) /\ Shared \in Seq(Events)
  BY QueueTypes
<1>2. pqueue \o Append(pending, e) = Append(pqueue \o pending, e)
  BY <1>1, ConcatAppend
<1>3. Shared' = Append(Shared, e)
  <2>1. Shared' = pqueue' \o pending'
    BY DEF Shared
  <2> QED
    BY <1>2, <2>1, Zenon DEF Shared
<1>4. /\ ToSet(Append(Shared, e)) = ToSet(Shared) \cup {e}
      /\ \A a, b : Before(Append(Shared, e), a, b) <=>
            Before(Shared, a, b) \/ (a \in ToSet(Shared) /\ b = e)
  BY <1>1, SetAppend
<1> QED
  BY <1>3, <1>4

(* A message for a session that is not stopped may join any queue.          *)
LEMMA QueueMessage ==
    ASSUME SessionTreeAssumption, TypeOK, TreeInv, StopperInv, QueueInv,
           NEW to \in Attached, stopper[to] = None,
           pending' = Append(pending, Event("msg", to)),
           UNCHANGED <<tree, stopper, alarm, lqueue, pqueue>>,
           \A s \in Nodes : Marked(s)' = Marked(s),
           \A p \in Posters : posting'[p] \in {posting[p], None}
    PROVE  QueueInv'
<1> DEFINE m == Event("msg", to)
<1>1. /\ UNCHANGED <<life, parent, stopper, alarm, lqueue, pqueue>>
      /\ UNCHANGED children /\ Attached' = Attached /\ Attached \subseteq Nodes
  BY DEF tree, Attached
<1>2. m \in Events /\ m.type = "msg" /\ m.session = to
  BY <1>1, EventType
<1>3. \A s : m # Event("delete", s)
  BY DEF Event
<1> HIDE DEF m
<1>4. /\ ToSet(Shared') = ToSet(Shared) \cup {m}
      /\ \A a, b : Before(Shared', a, b) <=> Before(Shared, a, b) \/ (a \in ToSet(Shared) /\ b = m)
  BY <1>1, <1>2, SharedAppend DEF m
<1>5. \A s \in Nodes : Descendants(s)' = Descendants(s)
  BY <1>1, SameDescendants
<1>6. \A e \in ToSet(Shared') : e.session \in Attached'
  BY <1>1, <1>2, <1>4 DEF QueueInv
<1>7. ASSUME NEW d \in ToSet(Shared'), NEW e \in ToSet(Shared'),
             d.type = "delete", Before(Shared', d, e)
      PROVE  e.session \notin Descendants(d.session)'
  <2>1. d \in ToSet(Shared) /\ d.session \in Nodes
    BY <1>1, <1>2, <1>4, <1>7 DEF QueueInv
  <2>2. CASE Before(Shared, d, e) /\ e \in ToSet(Shared)
    BY <1>5, <1>7, <2>1, <2>2 DEF QueueInv
  <2>3. CASE e = m
    BY <1>2, <1>5, <1>7, <2>1, <2>3, NotDeleted
  <2>4. CASE Before(Shared, d, e) /\ e \notin ToSet(Shared)
    BY <1>4, <2>3, <2>4
  <2> QED
    BY <1>4, <1>7, <2>2, <2>3, <2>4
<1>8. \A s \in Attached' : stopper'[s] = s <=> Event("delete", s) \in ToSet(Shared') \/ Marked(s)'
  BY <1>1, <1>3, <1>4 DEF QueueInv
<1>9. ASSUME NEW s \in Attached', Marked(s)', NEW d \in ToSet(Shared'), d.type = "delete"
      PROVE  s \notin Descendants(d.session)'
  <2>1. d \in ToSet(Shared) /\ d.session \in Nodes
    BY <1>1, <1>2, <1>4, <1>9 DEF QueueInv
  <2>2. Marked(s) /\ s \in Attached
    BY <1>1, <1>9
  <2> QED
    BY <1>5, <1>9, <2>1, <2>2 DEF QueueInv
<1>10. \A p \in Posters : posting'[p] # None =>
          posting'[p] \in Attached' /\ stopper'[posting'[p]] = None
  BY <1>1 DEF QueueInv
<1>11. \A s \in Nodes : alarm'[s] # "none" => s \in Attached'
  BY <1>1 DEF QueueInv
<1>12. \A e \in ToSet(lqueue') : e.type = "msg" /\ e.session \in Attached'
  BY <1>1 DEF QueueInv
<1> QED
  BY <1>6, <1>7, <1>8, <1>9, <1>10, <1>11, <1>12 DEF QueueInv

(* The same for the local queue, which no tree is deleted through.          *)
LEMMA LocalMessage ==
    ASSUME TypeOK, QueueInv, NEW to \in Attached,
           lqueue' = Append(lqueue, Event("msg", to)),
           UNCHANGED <<tree, stopper, alarm, pqueue, pending, posting, stack>>
    PROVE  QueueInv'
<1> DEFINE m == Event("msg", to)
<1>1. /\ UNCHANGED <<life, parent, stopper, alarm, posting>>
      /\ UNCHANGED children /\ Attached' = Attached /\ Attached \subseteq Nodes
      /\ Shared' = Shared /\ \A s \in Nodes : Marked(s)' = Marked(s)
  BY DEF tree, Attached, Shared, Marked, Top, Last
<1>2. m \in Events /\ m.type = "msg" /\ m.session = to /\ lqueue \in Seq(Events)
  BY <1>1, EventType, QueueTypes
<1> HIDE DEF m
<1>3. ToSet(lqueue') = ToSet(lqueue) \cup {m}
  BY <1>2, SetAppend DEF m
<1>4. \A e \in ToSet(lqueue') : e.type = "msg" /\ e.session \in Attached'
  BY <1>1, <1>2, <1>3 DEF QueueInv
<1>5. \A s \in Nodes : Descendants(s)' = Descendants(s)
  BY <1>1, SameDescendants
<1>6. \A d, e \in ToSet(Shared') : d.type = "delete" /\ Before(Shared', d, e) =>
          e.session \notin Descendants(d.session)'
  BY <1>1, <1>5 DEF QueueInv
<1>7. \A s \in Attached' : Marked(s)' =>
          \A d \in ToSet(Shared') : d.type = "delete" => s \notin Descendants(d.session)'
  BY <1>1, <1>5 DEF QueueInv
<1>8. \A s \in Attached' : stopper'[s] = s <=> Event("delete", s) \in ToSet(Shared') \/ Marked(s)'
  BY <1>1 DEF QueueInv
<1>9. \A e \in ToSet(Shared') : e.session \in Attached'
  BY <1>1 DEF QueueInv
<1>10. /\ \A p \in Posters : posting'[p] # None =>
             posting'[p] \in Attached' /\ stopper'[posting'[p]] = None
       /\ \A s \in Nodes : alarm'[s] # "none" => s \in Attached'
  BY <1>1 DEF QueueInv
<1> QED
  BY <1>4, <1>6, <1>7, <1>8, <1>9, <1>10 DEF QueueInv
-----------------------------------------------------------------------------
(***************************************************************************)
(* Handlers begin.                                                         *)
(***************************************************************************)

(* On top of another handler, or of nothing, a handler disturbs no stop.    *)
LEMMA HandlerPush ==
    ASSUME SessionTreeAssumption, TypeOK, StackInv, CallInv,
           NEW s \in Nodes, stack' = Pushed(Handler(s)), stack = <<>> \/ Running,
           s \in Attached', Attached \subseteq Attached',
           UNCHANGED <<stopper, stops>>,
           \A m \in Attached : stopper[m] # None => Kids(m)' = Kids(m),
           \A n \in Attached' : \/ n \in Attached /\ (n \in sid_map' <=> n \in sid_map)
                                \/ n \in sid_map' /\ stopper[n] = None /\ stops[n] = 0
    PROVE  StackInv' /\ CallInv'
<1> DEFINE L == Len(stack)
<1>1. Handler(s) \in Frames /\ Handler(s).type = "handler" /\ Handler(s).session = s
  BY FrameType
<1>2. /\ L \in Nat /\ DOMAIN stack = 1 .. L
      /\ Len(stack') = L + 1 /\ DOMAIN stack' = 1 .. L + 1
      /\ \A i \in DOMAIN stack : stack'[i] = stack[i]
      /\ stack'[L + 1].type = "handler" /\ stack'[L + 1].session = s
  BY <1>1, StackPush
<1>3. \A i \in DOMAIN stack : IsStop(i) => i < L /\ i + 1 \in DOMAIN stack
  <2> SUFFICES ASSUME NEW i \in DOMAIN stack, IsStop(i) PROVE i < L /\ i + 1 \in DOMAIN stack
    OBVIOUS
  <2>1. i # L
    <3>1. stack # <<>>
      BY StackEmpty
    <3>2. Top = stack[L]
      BY <3>1, StackTop
    <3> QED
      BY <3>1, <3>2 DEF Running, IsStop
  <2> QED
    BY <1>2, <2>1
<1>4. \A i \in DOMAIN stack' : IsStop(i)' => i \in DOMAIN stack /\ IsStop(i)
  BY <1>2 DEF IsStop
<1>5. \A i \in DOMAIN stack : IsStop(i)' = IsStop(i)
  BY <1>2 DEF IsStop
<1> HIDE DEF L
<1>6. ASSUME NEW i \in DOMAIN stack', IsStop(i)' PROVE StopFrame(i)'
  <2> DEFINE r == stack[i].session
  <2>1. i \in DOMAIN stack /\ IsStop(i) /\ i < L /\ i + 1 \in DOMAIN stack
    BY <1>3, <1>4, <1>6
  <2>2. /\ stack'[i] = stack[i] /\ stack'[i + 1] = stack[i + 1] /\ i < Len(stack')
    BY <1>2, <2>1
  <2>3. StopFrame(i) /\ r \in Attached
    BY <2>1 DEF StackInv
  <2>4. /\ r \in Nodes /\ r # None
        /\ \A n \in Nodes : stopper[n] = r => stopper[n] # None
    BY <2>3 DEF Attached, SessionTreeAssumption, Nodes
  <2>5. stopper[r] = r /\ stack[i].type # "marked"
    BY <2>1, <2>3 DEF StopFrame, L
  <2>6. stack[i].done \subseteq {n \in Attached : stopper[n] = r}
    BY <2>3 DEF StopFrame
  <2>7. \A d \in stack[i].done : \A c \in Kids(d)' : stopper[c] = r => c \in stack[i].done
    BY <2>3, <2>4, <2>6 DEF StopFrame
  <2>8. PICK n : n = stack[i + 1].session
    OBVIOUS
  <2>9. /\ stack[i + 1].type = "handler"
        /\ stopper[n] = r /\ n \notin stack[i].done
        /\ \A c \in Kids(n) : stopper[c] = r => c \in stack[i].done
    BY <2>1, <2>3, <2>8 DEF StopFrame, L
  <2>10. Kids(n)' = Kids(n)
    BY <2>1, <2>4, <2>8, <2>9 DEF StackInv, Attached
  <2>11. stack'[i].done \subseteq {m \in Attached' : stopper'[m] = stack'[i].session}
    BY <2>2, <2>6
  <2>12. /\ stopper'[stack'[i].session] = stack'[i].session /\ stack'[i].type # "marked"
         /\ \A d \in stack'[i].done : \A c \in Kids(d)' :
               stopper'[c] = stack'[i].session => c \in stack'[i].done
    BY <2>2, <2>5, <2>7
  <2>13. /\ stack'[i + 1].type = "handler" /\ stack'[i + 1].session = n
         /\ stopper'[n] = stack'[i].session /\ n \notin stack'[i].done
         /\ \A c \in Kids(n)' : stopper'[c] = stack'[i].session => c \in stack'[i].done
    BY <2>2, <2>8, <2>9, <2>10
  <2> QED
    BY <2>11, <2>12, <2>13 DEF StopFrame, Kids
<1>7. \A i \in DOMAIN stack' : stack'[i].session \in Attached'
  BY <1>2 DEF StackInv
<1>8. \A i, j \in DOMAIN stack' :
          IsStop(i)' /\ IsStop(j)' /\ stack'[i].session = stack'[j].session => i = j
  BY <1>2, <1>4 DEF StackInv
<1>9. StackInv'
  BY <1>6, <1>7, <1>8 DEF StackInv
<1>10. \A q : OnStack(q)' = OnStack(q)
  BY <1>2, <1>4, <1>5 DEF OnStack
<1>11. ASSUME NEW n \in Attached', NEW i \in DOMAIN stack', IsStop(i)',
              stack'[i].session = stopper'[n]
       PROVE  stops'[n] = 1 <=> Begun(n, i)'
  <2>1. i \in DOMAIN stack /\ IsStop(i) /\ i < L /\ i + 1 \in DOMAIN stack
    BY <1>3, <1>4, <1>11
  <2>2. /\ stack'[i] = stack[i] /\ stack'[i + 1] = stack[i + 1] /\ i < Len(stack')
    BY <1>2, <2>1
  <2>3. stack[i].session = stopper[n] /\ stack[i].session # None
    BY <1>11, <2>1, <2>2 DEF StackInv, Attached, SessionTreeAssumption, Nodes
  <2>4. n \in Attached
    BY <2>3
  <2>5. stops[n] = 1 <=> Begun(n, i)
    BY <2>1, <2>3, <2>4 DEF CallInv
  <2> QED
    BY <2>1, <2>2, <2>5 DEF Begun, L
<1>12. CallInv'
  BY <1>10, <1>11 DEF CallInv
<1> QED
  BY <1>9, <1>12

LEMMA MarkedPush ==
    ASSUME TypeOK, NEW s \in Nodes, stack' = Pushed(Handler(s)), stack = <<>> \/ Top.type # "marked"
    PROVE  \A n : ~ Marked(n) /\ ~ Marked(n)' /\ Marked(n)' = Marked(n)
<1>1. Handler(s) \in Frames /\ Handler(s).type = "handler"
  BY FrameType
<1>2. Top' = Handler(s)
  BY <1>1, StackPush
<1> QED
  BY <1>1, <1>2 DEF Marked

(* The handler that runs is one of an attached session.                     *)
LEMMA CurrentAttached ==
    ASSUME TypeOK, StackInv, stack # <<>>
    PROVE  Current \in Attached /\ Current \in Nodes
BY StackTop DEF StackInv, Current, Attached
-----------------------------------------------------------------------------
(***************************************************************************)
(* The steps: what handlers and posters do that leaves the tree alone.     *)
(***************************************************************************)
LEMMA PostLocalInv ==
    ASSUME SessionTreeAssumption, IndInv, NEW to \in Nodes, PostLocal(to)
    PROVE  IndInv'
<1>1. TypeOK /\ TreeInv /\ StopperInv /\ QueueInv /\ StackInv /\ CallInv
  BY DEF IndInv
<1>2. /\ to \in Attached /\ stopper[to] = None
      /\ UNCHANGED <<life, parent, stopper, sid_map, alarm, stack, stops, posting>>
      /\ UNCHANGED tree /\ UNCHANGED local /\ UNCHANGED pqueue
  BY <1>1, CurrentAttached DEF PostLocal, Running, TypeOK, tree, local
<1>3. TypeOK'
  <2>1. Event("msg", to) \in Events
    BY EventType
  <2>2. lqueue' \in Seq(Events) /\ pending' \in Seq(Events)
    <3>1. \A q \in Seq(Events) : Append(q, Event("msg", to)) \in Seq(Events)
      BY <2>1, AppendProperties
    <3>2. \/ lqueue' = Append(lqueue, Event("msg", to)) /\ pending' = pending
          \/ pending' = Append(pending, Event("msg", to)) /\ lqueue' = lqueue
      BY DEF PostLocal
    <3> QED
      BY <1>1, <3>1, <3>2, QueueTypes
  <2>3. requests' \in 0 .. MaxRequests
    BY <1>1, RequestType DEF PostLocal
  <2> QED
    BY <1>1, <2>2, <2>3, TypesAre DEF PostLocal, Types, Attached, tree, local
<1>4. QueueInv'
  <2>1. CASE lqueue' = Append(lqueue, Event("msg", to)) /\ UNCHANGED pending
    BY <1>1, <1>2, <2>1, LocalMessage
  <2>2. CASE pending' = Append(pending, Event("msg", to)) /\ UNCHANGED lqueue
    <3>1. \A s \in Nodes : Marked(s)' = Marked(s)
      BY <1>2 DEF Marked, Top, Last
    <3> QED
      BY <1>1, <1>2, <2>2, <3>1, QueueMessage
  <2> QED
    BY <2>1, <2>2 DEF PostLocal
<1> QED
  BY <1>1, <1>2, <1>3, <1>4, KeptTree, KeptStopper, KeptStack, KeptCall DEF IndInv

LEMMA YieldInv ==
    ASSUME SessionTreeAssumption, IndInv, Yield
    PROVE  IndInv'
<1>1. TypeOK /\ TreeInv /\ StopperInv /\ QueueInv /\ StackInv /\ CallInv
  BY DEF IndInv
<1>2. /\ UNCHANGED <<life, parent, stopper, sid_map, alarm, stack, stops, posting>>
      /\ UNCHANGED tree /\ UNCHANGED local /\ UNCHANGED <<pqueue, pending>>
      /\ lqueue' = Append(lqueue, Event("msg", Current))
  BY DEF Yield, tree, local
<1>3. Current \in Attached /\ Current \in Nodes
  BY <1>1, CurrentAttached DEF Yield, Running
<1>4. TypeOK'
  <2>1. Event("msg", Current) \in Events
    BY <1>3, EventType
  <2>2. lqueue' \in Seq(Events)
    BY <1>1, <1>2, <2>1, QueueTypes
  <2>3. requests' \in 0 .. MaxRequests
    BY <1>1, RequestType DEF Yield
  <2> QED
    BY <1>1, <2>2, <2>3, TypesAre DEF Yield, Types, Attached, tree, local
<1>5. QueueInv'
  BY <1>1, <1>2, <1>3, LocalMessage
<1> QED
  BY <1>1, <1>2, <1>4, <1>5, KeptTree, KeptStopper, KeptStack, KeptCall DEF IndInv

LEMMA CallInvariant ==
    ASSUME SessionTreeAssumption, IndInv, NEW on \in Nodes, Call(on)
    PROVE  IndInv'
<1>1. TypeOK /\ TreeInv /\ StopperInv /\ QueueInv /\ StackInv /\ CallInv
  BY DEF IndInv
<1>2. /\ UNCHANGED <<life, parent, stopper, sid_map, alarm, stops, posting>>
      /\ UNCHANGED tree /\ UNCHANGED local /\ UNCHANGED queues
      /\ stack' = Pushed(Handler(on)) /\ Running
  BY DEF Call, tree, local, queues
<1>3. on \in Attached
  BY <1>1, CurrentAttached DEF Call, Running, TypeOK
<1>4. TypeOK'
  <2>1. stack' \in Seq(Frames)
    BY <1>1, <1>2, FrameType, StackPush
  <2>2. requests' \in 0 .. MaxRequests
    BY <1>1, RequestType DEF Call
  <2> QED
    BY <1>1, <2>1, <2>2, TypesAre DEF Call, Types, Attached, tree, local, queues
<1>5. QueueInv'
  <2>1. \A s : Marked(s)' = Marked(s)
    BY <1>1, <1>2, MarkedPush DEF Running
  <2> QED
    BY <1>1, <1>2, <2>1, KeptQueue
<1>6. StackInv' /\ CallInv'
  <2>1. Attached' = Attached /\ \A m \in Nodes : Kids(m)' = Kids(m)
    BY <1>2, SameDescendants DEF Attached, tree
  <2>2. Attached \subseteq Nodes
    BY DEF Attached
  <2> QED
    BY <1>1, <1>2, <1>3, <2>1, <2>2, HandlerPush
<1> QED
  BY <1>1, <1>2, <1>4, <1>5, <1>6, KeptTree, KeptStopper DEF IndInv

LEMMA StateInv ==
    ASSUME SessionTreeAssumption, IndInv, State
    PROVE  IndInv'
<1>1. TypeOK /\ TreeInv /\ StopperInv /\ QueueInv /\ StackInv /\ CallInv
  BY DEF IndInv
<1>2. /\ UNCHANGED <<life, parent, stopper, sid_map, alarm, stack, stops, posting>>
      /\ UNCHANGED tree /\ UNCHANGED local /\ UNCHANGED queues
  BY DEF State, tree, local, queues
<1>3. TypeOK'
  <2>1. handlers' \subseteq Nodes
    BY <1>1, CurrentAttached DEF State, Running, TypeOK
  <2>2. requests' \in 0 .. MaxRequests
    BY <1>1, RequestType DEF State
  <2> QED
    BY <1>1, <2>1, <2>2, TypesAre DEF State, Types, Attached, tree, local, queues
<1>4. \A s \in Nodes : Marked(s)' = Marked(s)
  BY <1>2 DEF Marked, Top, Last
<1> QED
  BY <1>1, <1>2, <1>3, <1>4, KeptTree, KeptStopper, KeptQueue, KeptStack, KeptCall DEF IndInv
-----------------------------------------------------------------------------
(***************************************************************************)
(* Fewer events.                                                           *)
(***************************************************************************)
LEMMA QueueLess ==
    ASSUME QueueInv, UNCHANGED <<tree, stopper>>,
           ToSet(lqueue') \subseteq ToSet(lqueue), ToSet(Shared') \subseteq ToSet(Shared),
           \A d, e : Before(Shared', d, e) => Before(Shared, d, e),
           \A d \in ToSet(Shared) : d.type = "delete" => d \in ToSet(Shared'),
           \A s \in Nodes : Marked(s)' = Marked(s),
           \A p \in Posters : posting'[p] # None =>
               posting'[p] \in Attached /\ stopper[posting'[p]] = None,
           \A s \in Nodes : alarm'[s] # "none" => s \in Attached
    PROVE  QueueInv'
<1>1. /\ UNCHANGED <<life, parent, stopper>> /\ UNCHANGED children
      /\ Attached' = Attached /\ Attached \subseteq Nodes
  BY DEF tree, Attached
<1>2. \A s \in Nodes : Descendants(s)' = Descendants(s)
  BY <1>1, SameDescendants
<1>3. /\ \A e \in ToSet(lqueue') : e.type = "msg" /\ e.session \in Attached'
      /\ \A e \in ToSet(Shared') : e.session \in Attached'
  BY <1>1 DEF QueueInv
<1>4. ASSUME NEW d \in ToSet(Shared'), NEW e \in ToSet(Shared'),
             d.type = "delete", Before(Shared', d, e)
      PROVE  e.session \notin Descendants(d.session)'
  <2>1. d.session \in Nodes /\ d \in ToSet(Shared) /\ e \in ToSet(Shared) /\ Before(Shared, d, e)
    BY <1>1, <1>3, <1>4
  <2>2. e.session \notin Descendants(d.session)
    BY <1>4, <2>1 DEF QueueInv
  <2> QED
    BY <1>2, <2>1, <2>2
<1>5. \A s \in Attached' : stopper'[s] = s <=> Event("delete", s) \in ToSet(Shared') \/ Marked(s)'
  <2> SUFFICES ASSUME NEW s \in Attached'
               PROVE  stopper'[s] = s <=> Event("delete", s) \in ToSet(Shared') \/ Marked(s)'
    OBVIOUS
  <2>1. s \in Attached /\ s \in Nodes /\ Event("delete", s).type = "delete"
    BY <1>1 DEF Event
  <2>2. Event("delete", s) \in ToSet(Shared') <=> Event("delete", s) \in ToSet(Shared)
    BY <2>1
  <2>3. stopper[s] = s <=> Event("delete", s) \in ToSet(Shared) \/ Marked(s)
    BY <2>1 DEF QueueInv
  <2> QED
    BY <1>1, <2>1, <2>2, <2>3
<1>6. \A s \in Attached' : Marked(s)' =>
          \A d \in ToSet(Shared') : d.type = "delete" => s \notin Descendants(d.session)'
  BY <1>1, <1>2 DEF QueueInv
<1>7. /\ \A p \in Posters : posting'[p] # None =>
             posting'[p] \in Attached' /\ stopper'[posting'[p]] = None
      /\ \A s \in Nodes : alarm'[s] # "none" => s \in Attached'
  BY <1>1
<1> QED
  BY <1>3, <1>4, <1>5, <1>6, <1>7 DEF QueueInv

LEMMA WithoutIs ==
    ASSUME NEW q \in Seq(Events), NEW D
    PROVE  /\ Without(q, D) \in Seq(Events)
           /\ \A e : e \in ToSet(Without(q, D)) <=>
                 e \in ToSet(q) /\ ~ (e.type = "alarm" /\ e.session \in D)
           /\ \A a, b : Before(Without(q, D), a, b) => Before(q, a, b)
<1> DEFINE S == {e \in ToSet(q) : ~ (e.type = "alarm" /\ e.session \in D)}
<1>1. /\ Keep(q, S) \in Seq(Events) /\ ToSet(Keep(q, S)) = ToSet(q) \cap S
      /\ \A a, b : Before(Keep(q, S), a, b) => Before(q, a, b)
  BY KeepIsSeq, SetKeep
<1> QED
  BY <1>1 DEF Without

(* Taking events from the kernel's own queue, other than delete events.     *)
LEMMA SharedLess ==
    ASSUME TypeOK, pqueue' \in Seq(Events), UNCHANGED pending,
           ToSet(pqueue') \subseteq ToSet(pqueue),
           \A a, b : Before(pqueue', a, b) => Before(pqueue, a, b)
    PROVE  /\ ToSet(Shared') \subseteq ToSet(Shared)
           /\ \A a, b : Before(Shared', a, b) => Before(Shared, a, b)
           /\ ToSet(Shared') = ToSet(pqueue') \cup ToSet(pending)
           /\ ToSet(Shared) = ToSet(pqueue) \cup ToSet(pending)
<1> DEFINE q == pqueue'
<1>1. pqueue \in Seq(Events) /\ pending \in Seq(Events) /\ q \in Seq(Events)
  BY QueueTypes
<1>2. Shared' = q \o pending
  BY DEF Shared
<1> HIDE DEF q
<1>3. /\ ToSet(Shared) = ToSet(pqueue) \cup ToSet(pending)
      /\ \A a, b : Before(Shared, a, b) <=>
            \/ Before(pqueue, a, b) \/ Before(pending, a, b)
            \/ a \in ToSet(pqueue) /\ b \in ToSet(pending)
  BY <1>1, SetConcat DEF Shared
<1>4. /\ ToSet(q \o pending) = ToSet(q) \cup ToSet(pending)
      /\ \A a, b : Before(q \o pending, a, b) <=>
            \/ Before(q, a, b) \/ Before(pending, a, b)
            \/ a \in ToSet(q) /\ b \in ToSet(pending)
  BY <1>1, SetConcat
<1>5. ToSet(q) \subseteq ToSet(pqueue) /\ \A a, b : Before(q, a, b) => Before(pqueue, a, b)
  BY DEF q
<1>6. ToSet(Shared') = ToSet(q) \cup ToSet(pending)
  BY <1>2, <1>4
<1>7. \A a, b : Before(Shared', a, b) => Before(Shared, a, b)
  BY <1>2, <1>3, <1>4, <1>5
<1> QED
  BY <1>3, <1>5, <1>6, <1>7 DEF q

LEMMA CreateAlarmInv ==
    ASSUME SessionTreeAssumption, IndInv, CreateAlarm
    PROVE  IndInv'
<1>1. TypeOK /\ TreeInv /\ StopperInv /\ QueueInv /\ StackInv /\ CallInv
  BY DEF IndInv
<1>2. /\ UNCHANGED <<life, parent, stopper, sid_map, lqueue, pqueue, pending, stack, stops, posting>>
      /\ UNCHANGED tree /\ UNCHANGED local
  BY DEF CreateAlarm, tree, local, queues
<1>3. Current \in Attached /\ Current \in Nodes
  BY <1>1, CurrentAttached DEF CreateAlarm, Running
<1>4. TypeOK'
  <2>1. requests' \in 0 .. MaxRequests
    BY <1>1, RequestType DEF CreateAlarm
  <2>2. alarm' \in [Nodes -> {"none", "waiting", "queued", "dispatched"}]
    BY <1>1 DEF CreateAlarm, TypeOK
  <2> QED
    BY <1>1, <2>1, <2>2, TypesAre DEF CreateAlarm, Types, Attached, tree, local, queues
<1>5. QueueInv'
  <2>1. Shared' = Shared /\ \A s \in Nodes : Marked(s)' = Marked(s)
    BY <1>2 DEF Marked, Top, Last, Shared
  <2>2. \A s \in Nodes : alarm'[s] # "none" => s \in Attached
    BY <1>1, <1>3 DEF CreateAlarm, QueueInv, TypeOK
  <2>3. \A p \in Posters : posting'[p] # None =>
               posting'[p] \in Attached /\ stopper[posting'[p]] = None
    BY <1>1, <1>2 DEF QueueInv
  <2> QED
    BY <1>1, <1>2, <2>1, <2>2, <2>3, QueueLess
<1> QED
  BY <1>1, <1>2, <1>4, <1>5, KeptTree, KeptStopper, KeptStack, KeptCall DEF IndInv

LEMMA DeleteAlarmInv ==
    ASSUME SessionTreeAssumption, IndInv, DeleteAlarm
    PROVE  IndInv'
<1>1. TypeOK /\ TreeInv /\ StopperInv /\ QueueInv /\ StackInv /\ CallInv
  BY DEF IndInv
<1>2. /\ UNCHANGED <<life, parent, stopper, sid_map, lqueue, pending, stack, stops, posting>>
      /\ UNCHANGED tree /\ UNCHANGED local
      /\ pqueue' = Without(pqueue, {Current})
  BY DEF DeleteAlarm, tree, local
<1>3. /\ pqueue' \in Seq(Events) /\ ToSet(pqueue') \subseteq ToSet(pqueue)
      /\ \A a, b : Before(pqueue', a, b) => Before(pqueue, a, b)
      /\ \A d \in ToSet(pqueue) : d.type = "delete" => d \in ToSet(pqueue')
  BY <1>1, <1>2, QueueTypes, WithoutIs
<1>4. TypeOK'
  <2>1. requests' \in 0 .. MaxRequests
    BY <1>1, RequestType DEF DeleteAlarm
  <2>2. alarm' \in [Nodes -> {"none", "waiting", "queued", "dispatched"}]
    BY <1>1 DEF DeleteAlarm, TypeOK
  <2> QED
    BY <1>1, <1>3, <2>1, <2>2, TypesAre DEF DeleteAlarm, Types, Attached, tree, local
<1>5. QueueInv'
  <2>1. \A s \in Nodes : Marked(s)' = Marked(s)
    BY <1>2 DEF Marked, Top, Last
  <2>2. \A s \in Nodes : alarm'[s] # "none" => s \in Attached
    BY <1>1 DEF DeleteAlarm, QueueInv, TypeOK
  <2>3. \A p \in Posters : posting'[p] # None =>
               posting'[p] \in Attached /\ stopper[posting'[p]] = None
    BY <1>1, <1>2 DEF QueueInv
  <2>4. /\ ToSet(Shared') \subseteq ToSet(Shared)
        /\ \A a, b : Before(Shared', a, b) => Before(Shared, a, b)
        /\ \A d \in ToSet(Shared) : d.type = "delete" => d \in ToSet(Shared')
    BY <1>1, <1>2, <1>3, SharedLess
  <2> QED
    BY <1>1, <1>2, <2>1, <2>2, <2>3, <2>4, QueueLess
<1> QED
  BY <1>1, <1>2, <1>4, <1>5, KeptTree, KeptStopper, KeptStack, KeptCall DEF IndInv

LEMMA FindTargetInv ==
    ASSUME SessionTreeAssumption, IndInv, NEW p \in Posters, NEW s \in Nodes, FindTarget(p, s)
    PROVE  IndInv'
<1>1. TypeOK /\ TreeInv /\ StopperInv /\ QueueInv /\ StackInv /\ CallInv
  BY DEF IndInv
<1>2. /\ UNCHANGED <<life, parent, stopper, sid_map, alarm, lqueue, pqueue, pending, stack, stops>>
      /\ UNCHANGED tree /\ UNCHANGED local
  BY DEF FindTarget, tree, local, queues
<1>3. TypeOK'
  <2>1. requests' \in 0 .. MaxRequests
    BY <1>1, RequestType DEF FindTarget
  <2>2. posting' \in [Posters -> Nodes \cup {None}]
    BY <1>1 DEF FindTarget, TypeOK
  <2> QED
    BY <1>1, <2>1, <2>2, TypesAre DEF FindTarget, Types, Attached, tree, local, queues
<1>4. QueueInv'
  <2>1. Shared' = Shared /\ \A n \in Nodes : Marked(n)' = Marked(n)
    BY <1>2 DEF Marked, Top, Last, Shared
  <2>2. \A n \in Nodes : alarm'[n] # "none" => n \in Attached
    BY <1>1, <1>2 DEF QueueInv
  <2>3. \A o \in Posters : posting'[o] # None =>
               posting'[o] \in Attached /\ stopper[posting'[o]] = None
    BY <1>1 DEF FindTarget, QueueInv, TypeOK
  <2> QED
    BY <1>1, <1>2, <2>1, <2>2, <2>3, QueueLess
<1> QED
  BY <1>1, <1>2, <1>3, <1>4, KeptTree, KeptStopper, KeptStack, KeptCall DEF IndInv

LEMMA EnqueueEventInv ==
    ASSUME SessionTreeAssumption, IndInv, NEW p \in Posters, EnqueueEvent(p)
    PROVE  IndInv'
<1>1. TypeOK /\ TreeInv /\ StopperInv /\ QueueInv /\ StackInv /\ CallInv
  BY DEF IndInv
<1>2. /\ UNCHANGED <<life, parent, stopper, sid_map, alarm, lqueue, pqueue, stack, stops>>
      /\ UNCHANGED tree /\ UNCHANGED local
  BY DEF EnqueueEvent, tree, local
<1>3. posting[p] \in Attached /\ posting[p] \in Nodes /\ stopper[posting[p]] = None
  BY <1>1 DEF EnqueueEvent, QueueInv, Attached
<1>4. TypeOK'
  <2>1. Event("msg", posting[p]) \in Events
    BY <1>3, EventType
  <2>2. pending' \in Seq(Events)
    BY <1>1, <2>1, QueueTypes, AppendProperties DEF EnqueueEvent
  <2>3. posting' \in [Posters -> Nodes \cup {None}]
    BY <1>1 DEF EnqueueEvent, TypeOK
  <2> QED
    BY <1>1, <2>2, <2>3, TypesAre DEF EnqueueEvent, Types, Attached, tree, local
<1>5. QueueInv'
  <2>1. \A s \in Nodes : Marked(s)' = Marked(s)
    BY <1>2 DEF Marked, Top, Last
  <2>2. \A o \in Posters : posting'[o] \in {posting[o], None}
    BY <1>1 DEF EnqueueEvent, TypeOK
  <2> QED
    BY <1>1, <1>2, <1>3, <2>1, <2>2, QueueMessage DEF EnqueueEvent
<1> QED
  BY <1>1, <1>2, <1>4, <1>5, KeptTree, KeptStopper, KeptStack, KeptCall DEF IndInv
-----------------------------------------------------------------------------
(***************************************************************************)
(* The steps of the event loop, other than deletions.                      *)
(***************************************************************************)

(* Taking the next event, which is for an attached session.                 *)
LEMMA TakenIs ==
    ASSUME TypeOK, QueueInv, lqueue \o pqueue # <<>>, Taken, UNCHANGED pending,
           NextEvent.type # "delete"
    PROVE  /\ NextEvent \in Events /\ NextEvent.session \in Attached
           /\ lqueue' \in Seq(Events) /\ pqueue' \in Seq(Events)
           /\ ToSet(lqueue') \subseteq ToSet(lqueue) /\ ToSet(Shared') \subseteq ToSet(Shared)
           /\ \A a, b : Before(Shared', a, b) => Before(Shared, a, b)
           /\ \A d \in ToSet(Shared) : d.type = "delete" => d \in ToSet(Shared')
<1>1. lqueue \in Seq(Events) /\ pqueue \in Seq(Events)
  BY QueueTypes
<1>2. CASE lqueue # <<>>
  <2>1. /\ NextEvent = Head(lqueue) /\ lqueue' = Tail(lqueue) /\ pqueue' = pqueue
        /\ Shared' = Shared
    BY <1>2 DEF NextEvent, Taken, RestQueued, Shared
  <2>2. ToSet(lqueue) = {Head(lqueue)} \cup ToSet(Tail(lqueue))
    BY <1>1, <1>2, SetFirst
  <2>3. Head(lqueue) \in Events /\ Tail(lqueue) \in Seq(Events)
    BY <1>1, <1>2, HeadTailProperties
  <2>4. NextEvent.session \in Attached
    BY <2>1, <2>2 DEF QueueInv
  <2> QED
    BY <1>1, <2>1, <2>2, <2>3, <2>4
<1>3. CASE lqueue = <<>>
  <2>1. pqueue # <<>>
    BY <1>1, <1>3, ConcatEmptySeq
  <2>2. NextEvent = Head(pqueue) /\ lqueue' = lqueue /\ pqueue' = Tail(pqueue)
    BY <1>3 DEF NextEvent, Taken, RestQueued
  <2>3. /\ ToSet(pqueue) = {Head(pqueue)} \cup ToSet(Tail(pqueue))
        /\ \A a, b : Before(Tail(pqueue), a, b) => Before(pqueue, a, b)
    BY <1>1, <2>1, SetFirst
  <2>4. Head(pqueue) \in Events /\ Tail(pqueue) \in Seq(Events)
    BY <1>1, <2>1, HeadTailProperties
  <2>5. /\ ToSet(Shared') \subseteq ToSet(Shared)
        /\ \A a, b : Before(Shared', a, b) => Before(Shared, a, b)
        /\ ToSet(Shared') = ToSet(pqueue') \cup ToSet(pending)
        /\ ToSet(Shared) = ToSet(pqueue) \cup ToSet(pending)
    BY <2>2, <2>3, <2>4, SharedLess
  <2>6. NextEvent.session \in Attached
    BY <2>2, <2>3, <2>5 DEF QueueInv
  <2>7. \A d \in ToSet(Shared) : d.type = "delete" => d \in ToSet(Shared')
    BY <2>2, <2>3, <2>5
  <2> QED
    BY <1>1, <2>2, <2>4, <2>5, <2>6, <2>7
<1> QED
  BY <1>2, <1>3

LEMMA DispatchedInv ==
    ASSUME SessionTreeAssumption, TypeOK, StackInv, CallInv, stack = <<>>,
           NEW s \in Attached, Dispatched(s), UNCHANGED <<tree, local, stops>>
    PROVE  /\ stack' \in Seq(Frames) /\ StackInv' /\ CallInv'
           /\ \A n \in Nodes : Marked(n)' = Marked(n)
<1>1. /\ UNCHANGED <<life, parent, stopper, sid_map, stops>> /\ UNCHANGED children
      /\ Attached' = Attached /\ Attached \subseteq Nodes
  BY DEF tree, local, Attached
<1>2. CASE stack' = <<Handler(s)>>
  <2>1. stack' = Pushed(Handler(s))
    BY <1>2 DEF Pushed
  <2>2. stack' \in Seq(Frames)
    BY <1>1, <2>1, FrameType, StackPush
  <2>3. \A m \in Nodes : Kids(m)' = Kids(m)
    BY <1>1, SameDescendants
  <2>4. StackInv' /\ CallInv'
    BY <1>1, <2>1, <2>3, HandlerPush
  <2>5. \A n \in Nodes : Marked(n)' = Marked(n)
    BY <1>1, <2>1, MarkedPush
  <2> QED
    BY <2>2, <2>4, <2>5
<1>3. CASE stack' = stack
  <2>1. stack' \in Seq(Frames) /\ \A n \in Nodes : Marked(n)' = Marked(n)
    BY <1>3, QueueTypes DEF Marked, Top, Last
  <2> QED
    BY <1>1, <1>3, <2>1, KeptStack, KeptCall
<1> QED
  BY <1>2, <1>3 DEF Dispatched

LEMMA DispatchMsgInv ==
    ASSUME SessionTreeAssumption, IndInv, DispatchMsg
    PROVE  IndInv'
<1>1. TypeOK /\ TreeInv /\ StopperInv /\ QueueInv /\ StackInv /\ CallInv
  BY DEF IndInv
<1>2. /\ UNCHANGED <<life, parent, stopper, sid_map, handlers, alarm, pending, posting, requests, stops>>
      /\ UNCHANGED tree /\ UNCHANGED local
      /\ stack = <<>> /\ lqueue \o pqueue # <<>> /\ Taken /\ NextEvent.type # "delete"
      /\ Dispatched(NextEvent.session)
  BY DEF DispatchMsg, HasEvent, tree, local
<1>3. /\ NextEvent \in Events /\ NextEvent.session \in Attached
      /\ lqueue' \in Seq(Events) /\ pqueue' \in Seq(Events)
      /\ ToSet(lqueue') \subseteq ToSet(lqueue) /\ ToSet(Shared') \subseteq ToSet(Shared)
      /\ \A a, b : Before(Shared', a, b) => Before(Shared, a, b)
      /\ \A d \in ToSet(Shared) : d.type = "delete" => d \in ToSet(Shared')
  BY <1>1, <1>2, TakenIs
<1>4. PICK s \in Attached : Dispatched(s)
  BY <1>2, <1>3
<1>5. /\ stack' \in Seq(Frames) /\ StackInv' /\ CallInv'
      /\ \A n \in Nodes : Marked(n)' = Marked(n)
  BY <1>1, <1>2, <1>4, DispatchedInv
<1>6. TypeOK'
  BY <1>1, <1>2, <1>3, <1>5, TypesAre DEF Types, Attached, tree
<1>7. QueueInv'
  <2>1. /\ \A n \in Nodes : alarm'[n] # "none" => n \in Attached
        /\ \A p \in Posters : posting'[p] # None =>
               posting'[p] \in Attached /\ stopper[posting'[p]] = None
    BY <1>1, <1>2 DEF QueueInv
  <2> QED
    BY <1>1, <1>2, <1>3, <1>5, <2>1, QueueLess
<1> QED
  BY <1>1, <1>2, <1>5, <1>6, <1>7, KeptTree, KeptStopper DEF IndInv

LEMMA DispatchAlarmInv ==
    ASSUME SessionTreeAssumption, IndInv, DispatchAlarm
    PROVE  IndInv'
<1>1. TypeOK /\ TreeInv /\ StopperInv /\ QueueInv /\ StackInv /\ CallInv
  BY DEF IndInv
<1>2. /\ UNCHANGED <<life, parent, stopper, sid_map, handlers, pending, posting, requests, stops>>
      /\ UNCHANGED tree /\ UNCHANGED local
      /\ stack = <<>> /\ lqueue \o pqueue # <<>> /\ Taken /\ NextEvent.type # "delete"
      /\ Dispatched(NextEvent.session)
  BY DEF DispatchAlarm, HasEvent, tree, local
<1>3. /\ NextEvent \in Events /\ NextEvent.session \in Attached
      /\ lqueue' \in Seq(Events) /\ pqueue' \in Seq(Events)
      /\ ToSet(lqueue') \subseteq ToSet(lqueue) /\ ToSet(Shared') \subseteq ToSet(Shared)
      /\ \A a, b : Before(Shared', a, b) => Before(Shared, a, b)
      /\ \A d \in ToSet(Shared) : d.type = "delete" => d \in ToSet(Shared')
  BY <1>1, <1>2, TakenIs
<1>4. PICK s \in Attached : s = NextEvent.session /\ Dispatched(s)
  BY <1>2, <1>3
<1>5. /\ stack' \in Seq(Frames) /\ StackInv' /\ CallInv'
      /\ \A n \in Nodes : Marked(n)' = Marked(n)
  BY <1>1, <1>2, <1>4, DispatchedInv
<1>6. /\ alarm' \in [Nodes -> {"none", "waiting", "queued", "dispatched"}]
      /\ \A n \in Nodes : n # s => alarm'[n] = alarm[n]
  BY <1>1, <1>4 DEF DispatchAlarm, TypeOK
<1>7. TypeOK'
  BY <1>1, <1>2, <1>3, <1>5, <1>6, TypesAre DEF Types, Attached, tree
<1>8. QueueInv'
  <2>1. /\ \A n \in Nodes : alarm'[n] # "none" => n \in Attached
        /\ \A p \in Posters : posting'[p] # None =>
               posting'[p] \in Attached /\ stopper[posting'[p]] = None
    BY <1>1, <1>2, <1>4, <1>6 DEF QueueInv
  <2> QED
    BY <1>1, <1>2, <1>3, <1>5, <2>1, QueueLess
<1> QED
  BY <1>1, <1>2, <1>5, <1>7, <1>8, KeptTree, KeptStopper DEF IndInv

(* The alarms that have expired are queued, before what is pending.         *)
LEMMA CollectedAre ==
    ASSUME SessionTreeAssumption, IndInv, Collect
    PROVE  \E a \in Seq(Events) :
              /\ \A e \in ToSet(a) : e.type = "alarm" /\ e.session \in Attached
              /\ pqueue' = a \o pending
<1>1. QueueInv
  BY DEF IndInv
<1>2. PICK D \in SUBSET {s \in Nodes : alarm[s] = "waiting"} : \E q \in SetToSeqs(D) :
         /\ IsFiniteSet(D)
         /\ pqueue' = [i \in DOMAIN q |-> Event("alarm", q[i])] \o pending
  BY DEF Collect
<1>3. PICK q \in SetToSeqs(D) :
         /\ IsFiniteSet(D)
         /\ pqueue' = [i \in DOMAIN q |-> Event("alarm", q[i])] \o pending
  BY <1>2
<1> DEFINE a == [i \in DOMAIN q |-> Event("alarm", q[i])]
<1>4. D \subseteq Attached /\ D \subseteq Nodes
  BY <1>1 DEF QueueInv
<1>5. a \in Seq(Events) /\ \A e \in ToSet(a) : e.type = "alarm" /\ e.session \in Attached
  <2>1. q \in [1 .. Cardinality(D) -> D] /\ Cardinality(D) \in Nat
    BY <1>3, FS_CardinalityType, Zenon DEF SetToSeqs
  <2>2. DOMAIN q = 1 .. Cardinality(D) /\ \A i \in DOMAIN q : q[i] \in D
    BY <2>1
  <2>3. \A i \in DOMAIN q : /\ Event("alarm", q[i]) \in Events
                            /\ Event("alarm", q[i]).type = "alarm"
                            /\ Event("alarm", q[i]).session = q[i]
    BY <1>4, <2>2, EventType
  <2>4. a \in [1 .. Cardinality(D) -> Events]
    BY <2>2, <2>3
  <2>5. a \in Seq(Events)
    BY <2>1, <2>4, SeqDef
  <2>6. \A e \in ToSet(a) : \E i \in DOMAIN q : e = Event("alarm", q[i])
    BY DEF ToSet
  <2> QED
    BY <1>4, <2>2, <2>3, <2>5, <2>6
<1> HIDE DEF a
<1> QED
  BY <1>3, <1>5 DEF a

LEMMA CollectInv ==
    ASSUME SessionTreeAssumption, IndInv, Collect
    PROVE  IndInv'
<1>1. TypeOK /\ TreeInv /\ StopperInv /\ QueueInv /\ StackInv /\ CallInv
  BY DEF IndInv
<1>2. PICK D \in SUBSET {s \in Nodes : alarm[s] = "waiting"} :
         alarm' = [s \in Nodes |-> IF s \in D THEN "queued" ELSE alarm[s]]
  BY DEF Collect
<1>3. PICK a \in Seq(Events) : /\ \A e \in ToSet(a) : e.type = "alarm" /\ e.session \in Attached
                               /\ pqueue' = a \o pending
  BY CollectedAre
<1>4. /\ UNCHANGED <<life, parent, stopper, sid_map, handlers, lqueue, stack, posting, requests, stops>>
      /\ UNCHANGED tree /\ UNCHANGED local
      /\ stack = <<>> /\ lqueue = <<>> /\ pqueue = <<>> /\ pending' = <<>>
  BY DEF Collect, tree, local
<1>5. D \subseteq Attached /\ D \subseteq Nodes
  BY <1>1 DEF QueueInv
<1>6. a \in Seq(Events) /\ \A e \in ToSet(a) : e.type = "alarm" /\ e.session \in Attached
  BY <1>3
<1>7. /\ Shared = pending /\ Shared' = a \o Shared /\ Shared \in Seq(Events)
      /\ pqueue' \in Seq(Events)
  <2>1. pending \in Seq(Events) /\ a \o pending \in Seq(Events) /\ pqueue' = a \o pending
    BY <1>1, <1>3, <1>6, QueueTypes, ConcatProperties
  <2>2. Shared = pending
    BY <1>4, <2>1, ConcatEmptySeq DEF Shared
  <2>3. Shared' = pqueue' \o <<>>
    BY <1>4 DEF Shared
  <2>4. pqueue' \o <<>> = pqueue'
    BY <2>1, ConcatEmptySeq
  <2> QED
    BY <2>1, <2>2, <2>3, <2>4
<1>8. /\ ToSet(Shared') = ToSet(a) \cup ToSet(Shared)
      /\ \A x, y : Before(Shared', x, y) =>
            \/ Before(a, x, y) \/ Before(Shared, x, y) \/ x \in ToSet(a)
  <2>1. /\ ToSet(a \o Shared) = ToSet(a) \cup ToSet(Shared)
        /\ \A x, y : Before(a \o Shared, x, y) <=>
              \/ Before(a, x, y) \/ Before(Shared, x, y)
              \/ x \in ToSet(a) /\ y \in ToSet(Shared)
    BY <1>6, <1>7, SetConcat
  <2> QED
    BY <1>7, <2>1
<1>9. \A x, y : Before(a, x, y) => x \in ToSet(a)
  BY DEF Before, ToSet
<1>10. \A x, y : Before(Shared, x, y) => x \in ToSet(Shared) /\ y \in ToSet(Shared)
  BY DEF Before, ToSet
<1>11. TypeOK'
  <2>1. alarm' \in [Nodes -> {"none", "waiting", "queued", "dispatched"}]
    BY <1>1, <1>2 DEF TypeOK
  <2>2. pending' \in Seq(Events)
    BY <1>4, EmptySeq
  <2> QED
    BY <1>1, <1>4, <1>7, <2>1, <2>2, TypesAre DEF Types, Attached, tree
<1>12. QueueInv'
  <2>1. /\ Attached' = Attached /\ Attached \subseteq Nodes /\ UNCHANGED children
        /\ \A s : Event("delete", s).type = "delete"
        /\ \A s \in Nodes : ~ Marked(s) /\ ~ Marked(s)'
    BY <1>4 DEF Attached, tree, Event, Marked
  <2>2. \A s \in Nodes : Descendants(s)' = Descendants(s)
    BY <2>1, SameDescendants
  <2>3. \A e \in ToSet(Shared') : e.session \in Attached'
    BY <1>1, <1>6, <1>8, <2>1 DEF QueueInv
  <2>4. ASSUME NEW d \in ToSet(Shared'), NEW e \in ToSet(Shared'),
               d.type = "delete", Before(Shared', d, e)
        PROVE  e.session \notin Descendants(d.session)'
    <3>1. d \notin ToSet(a)
      BY <1>6, <2>4
    <3>2. Before(Shared, d, e) /\ d \in ToSet(Shared) /\ e \in ToSet(Shared)
      BY <1>8, <1>9, <1>10, <2>4, <3>1
    <3>3. d.session \in Nodes /\ e.session \notin Descendants(d.session)
      BY <1>1, <2>1, <2>4, <3>2 DEF QueueInv
    <3> QED
      BY <2>2, <3>3
  <2>5. \A s \in Attached' :
            stopper'[s] = s <=> Event("delete", s) \in ToSet(Shared') \/ Marked(s)'
    <3> SUFFICES ASSUME NEW s \in Attached
                 PROVE  stopper[s] = s <=> Event("delete", s) \in ToSet(Shared') \/ Marked(s)'
      BY <1>4, <2>1
    <3>1. stopper[s] = s <=> Event("delete", s) \in ToSet(Shared)
      BY <1>1, <2>1 DEF QueueInv
    <3>2. Event("delete", s) \notin ToSet(a)
      BY <1>6, <2>1
    <3> QED
      BY <1>8, <2>1, <3>1, <3>2
  <2>6. \A p \in Posters : posting'[p] # None =>
               posting'[p] \in Attached' /\ stopper'[posting'[p]] = None
    BY <1>1, <1>4, <2>1 DEF QueueInv
  <2>7. \A s \in Nodes : alarm'[s] # "none" => s \in Attached'
    BY <1>1, <1>2, <1>5, <2>1 DEF QueueInv
  <2>8. \A e \in ToSet(lqueue') : e.type = "msg" /\ e.session \in Attached'
    BY <1>1, <1>4, <2>1 DEF QueueInv
  <2> QED
    BY <2>1, <2>3, <2>4, <2>5, <2>6, <2>7, <2>8 DEF QueueInv
<1> QED
  BY <1>1, <1>4, <1>11, <1>12, KeptTree, KeptStopper, KeptStack, KeptCall DEF IndInv
-----------------------------------------------------------------------------
(***************************************************************************)
(* The steps of a stop, and handlers that return.                          *)
(***************************************************************************)
LEMMA FrameKept ==
    ASSUME UNCHANGED <<tree, stopper>>, NEW i, StopFrame(i),
           stack'[i].session = stack[i].session, stack'[i].done = stack[i].done,
           stack'[i].type = "marked" => i = Len(stack') /\ stack'[i].done = {},
           i < Len(stack') => /\ i < Len(stack) /\ stack'[i + 1].type = stack[i + 1].type
                              /\ stack'[i + 1].session = stack[i + 1].session
    PROVE  StopFrame(i)'
<1>1. /\ UNCHANGED <<life, children, stopper>> /\ Attached' = Attached
  BY DEF tree, Attached
<1> QED
  BY <1>1 DEF StopFrame, Kids

(* A stop handler that returns is done with; so is any other handler.       *)
LEMMA HandlerReturnInv ==
    ASSUME SessionTreeAssumption, IndInv, HandlerReturn
    PROVE  IndInv'
<1> PICK L : L = Len(stack)
  OBVIOUS
<1>1. TypeOK /\ TreeInv /\ StopperInv /\ QueueInv /\ StackInv /\ CallInv
  BY DEF IndInv
<1>2. /\ UNCHANGED <<life, parent, stopper, sid_map, lqueue, pqueue, pending, posting, requests, stops>>
      /\ UNCHANGED tree /\ UNCHANGED local /\ UNCHANGED children
      /\ stack # <<>> /\ Top.type = "handler"
  BY DEF HandlerReturn, Running, tree, local, queues
<1>3. PICK s \in Attached : s = Current /\ s \in Nodes
  BY <1>1, <1>2, CurrentAttached
<1>4. /\ L \in Nat /\ L > 0 /\ DOMAIN stack = 1 .. L /\ L \in DOMAIN stack
      /\ stack[L].type = "handler" /\ stack[L].session = s /\ ~ IsStop(L)
      /\ Below \in Seq(Frames) /\ Len(Below) = L - 1 /\ DOMAIN Below = 1 .. L - 1
      /\ \A i \in 1 .. L - 1 : Below[i] = stack[i] /\ i \in DOMAIN stack
  <2>1. /\ L \in Nat /\ L > 0 /\ DOMAIN stack = 1 .. L /\ L \in DOMAIN stack
        /\ Top = stack[L]
        /\ Below \in Seq(Frames) /\ Len(Below) = L - 1 /\ DOMAIN Below = 1 .. L - 1
        /\ \A i \in 1 .. L - 1 : Below[i] = stack[i]
    BY <1>1, <1>2, StackTop
  <2>2. stack[L].type = "handler" /\ stack[L].session = s /\ ~ IsStop(L)
    BY <1>2, <1>3, <2>1 DEF IsStop, Current
  <2>3. \A i \in 1 .. L - 1 : i \in DOMAIN stack
    BY <2>1
  <2> QED
    BY <2>1, <2>2, <2>3
<1>5. ASSUME L > 1, IsStop(L - 1)
      PROVE  /\ stack[L - 1].type = "calling" /\ s \in Sessions
             /\ stopper[s] = stack[L - 1].session /\ s \notin stack[L - 1].done
             /\ \A c \in Kids(s) : stopper[c] = stack[L - 1].session => c \in stack[L - 1].done
  <2>1. L - 1 \in DOMAIN stack /\ L - 1 < L /\ (L - 1) + 1 = L
    BY <1>4, <1>5
  <2>2. StopFrame(L - 1)
    BY <1>1, <1>5, <2>1 DEF StackInv
  <2>3. stack[L - 1].type # "marked"
    BY <2>1, <2>2 DEF StopFrame
  <2>4. stack[L - 1] \in Frames
    BY <1>1, <2>1, QueueTypes, ElementOfSeq
  <2>5. stack[L - 1].type = "calling"
    BY <1>5, <2>3, <2>4 DEF IsStop, Frames
  <2>6. /\ stopper[s] = stack[L - 1].session /\ s \notin stack[L - 1].done
        /\ \A c \in Kids(s) : stopper[c] = stack[L - 1].session => c \in stack[L - 1].done
    BY <1>4, <2>1, <2>2 DEF StopFrame
  <2>7. s # Kernel
    <3>1. stack[L - 1].session \in Nodes
      BY <2>4 DEF Frames
    <3> QED
      BY <1>1, <2>6, <3>1 DEF StopperInv, SessionTreeAssumption, Nodes
  <2> QED
    BY <1>3, <2>5, <2>6, <2>7 DEF Nodes
<1>6. /\ stack' \in Seq(Frames) /\ Len(stack') = L - 1 /\ DOMAIN stack' = 1 .. L - 1
      /\ \A i \in 1 .. L - 1 :
            /\ stack'[i].type = stack[i].type /\ stack'[i].session = stack[i].session
            /\ IsStop(i) => stack'[i].done = IF i = L - 1 THEN stack[i].done \cup {s}
                                                         ELSE stack[i].done
  <2>1. CASE Below # <<>> /\ Last(Below).type = "calling"
    <3> PICK k : k = L - 1
      OBVIOUS
    <3> DEFINE f == [stack[k] EXCEPT !.done = @ \cup {s}]
    <3>1. k \in 1 .. L - 1 /\ L > 1 /\ Last(Below) = stack[k] /\ IsStop(k)
      <4>1. Len(Below) # 0
        BY <1>4, <2>1
      <4> QED
        BY <1>4, <2>1, <4>1 DEF Last, IsStop
    <3>2. stack[k] \in Frames /\ s \in Sessions
      BY <1>1, <1>4, <1>5, <3>1, QueueTypes, ElementOfSeq
    <3>3. /\ f \in Frames /\ f.type = stack[k].type /\ f.session = stack[k].session
          /\ f.done = stack[k].done \cup {s}
      BY <3>2 DEF Frames
    <3>4. stack' = [Below EXCEPT ![k] = f]
      BY <1>3, <1>4, <2>1, <3>1 DEF HandlerReturn
    <3> HIDE DEF f
    <3>5. /\ stack' \in Seq(Frames) /\ Len(stack') = L - 1
          /\ \A i \in 1 .. L - 1 : stack'[i] = IF i = k THEN f ELSE Below[i]
      <4>1. k \in 1 .. Len(Below)
        BY <1>4, <3>1
      <4>2. /\ [Below EXCEPT ![k] = f] \in Seq(Frames)
            /\ Len([Below EXCEPT ![k] = f]) = Len(Below)
            /\ \A j \in 1 .. Len(Below) :
                  [Below EXCEPT ![k] = f][j] = IF j = k THEN f ELSE Below[j]
        BY <1>4, <3>3, <4>1, ExceptSeq
      <4> QED
        BY <1>4, <3>4, <4>2
    <3>6. L - 1 \in Nat /\ DOMAIN stack' = 1 .. L - 1
      BY <3>5, <1>4, LenProperties
    <3>7. \A i \in 1 .. L - 1 : i # k => stack'[i] = stack[i]
      BY <1>4, <3>5
    <3>8. stack'[k] = f
      BY <3>1, <3>5
    <3> QED
      BY <3>3, <3>5, <3>6, <3>7, <3>8
  <2>2. CASE ~ (Below # <<>> /\ Last(Below).type = "calling")
    <3>1. stack' = Below
      BY <2>2 DEF HandlerReturn
    <3>2. L > 1 => ~ IsStop(L - 1)
      <4> SUFFICES ASSUME L > 1, IsStop(L - 1) PROVE FALSE
        OBVIOUS
      <4>1. Below # <<>> /\ Last(Below) = stack[L - 1]
        BY <1>4 DEF Last
      <4> QED
        BY <1>5, <2>2, <4>1
    <3>3. \A i \in 1 .. L - 1 : IsStop(i) => i # L - 1
      <4> SUFFICES ASSUME NEW i \in 1 .. L - 1, IsStop(i), i = L - 1 PROVE FALSE
        OBVIOUS
      <4> QED
        BY <1>4, <3>2
    <3> QED
      BY <1>4, <3>1, <3>3
  <2> QED
    BY <2>1, <2>2
<1>7. /\ handlers' \subseteq Nodes
      /\ alarm' \in [Nodes -> {"none", "waiting", "queued", "dispatched"}]
      /\ \A n \in Nodes : alarm'[n] # "none" => alarm[n] # "none"
  BY <1>1, <1>3 DEF HandlerReturn, TypeOK
<1>8. TypeOK'
  BY <1>1, <1>2, <1>6, <1>7, TypesAre DEF Types, Attached
<1>9. \A i \in 1 .. L - 1 : i \in DOMAIN stack /\ IsStop(i)' = IsStop(i)
  BY <1>4, <1>6 DEF IsStop
<1>10. QueueInv'
  <2>1. \A n \in Nodes : Marked(n)' = Marked(n)
    <3>1. \A n : ~ Marked(n)
      BY <1>2 DEF Marked
    <3>2. ASSUME NEW n \in Nodes, Marked(n)' PROVE FALSE
      <4>1. stack' # <<>> /\ Top'.type = "marked" /\ Top' = stack'[Len(stack')]
        BY <3>2 DEF Marked, Top, Last
      <4>2. Len(stack') # 0 /\ Len(stack') = L - 1
        BY <1>6, <4>1
      <4>3. L > 1 /\ L - 1 \in 1 .. L - 1
        BY <1>4, <4>2
      <4>4. stack[L - 1].type = "marked"
        BY <1>6, <4>1, <4>2, <4>3
      <4> QED
        BY <1>5, <4>3, <4>4 DEF IsStop
    <3> QED
      BY <3>1, <3>2 DEF Marked
  <2>2. Shared' = Shared
    BY <1>2 DEF Shared
  <2>3. /\ \A n \in Nodes : alarm'[n] # "none" => n \in Attached
        /\ \A p \in Posters : posting'[p] # None =>
               posting'[p] \in Attached /\ stopper[posting'[p]] = None
    BY <1>1, <1>2, <1>7 DEF QueueInv
  <2> QED
    BY <1>1, <1>2, <2>1, <2>2, <2>3, QueueLess
<1>11. StackInv'
  <2>1. ASSUME NEW i \in DOMAIN stack', IsStop(i)' PROVE StopFrame(i)'
    <3>1. i \in 1 .. L - 1 /\ i \in DOMAIN stack /\ IsStop(i) /\ StopFrame(i)
      BY <1>1, <1>6, <1>9, <2>1 DEF StackInv
    <3>2. CASE i = L - 1
      <4> DEFINE r == stack[i].session
      <4>1. L > 1 /\ i = Len(stack')
        BY <1>4, <1>6, <3>1, <3>2
      <4>2. /\ stack'[i].session = r /\ stack'[i].done = stack[i].done \cup {s}
            /\ stack'[i].type = "calling"
        BY <1>5, <1>6, <3>1, <3>2, <4>1
      <4>3. /\ stopper[r] = r /\ stopper[s] = r
            /\ stack[i].done \subseteq {m \in Attached : stopper[m] = r}
            /\ \A d \in stack[i].done \cup {s} : \A c \in Kids(d) :
                  stopper[c] = r => c \in stack[i].done
        BY <1>5, <3>1, <3>2, <4>1 DEF StopFrame
      <4>4. Attached' = Attached /\ \A d \in stack[i].done \cup {s} : Kids(d)' = Kids(d)
        <5>1. stack[i].done \cup {s} \subseteq Nodes
          BY <1>3, <4>3 DEF Attached
        <5> QED
          BY <1>2, <5>1, SameDescendants DEF Attached, tree
      <4>5. \A d \in stack'[i].done : \A c \in Kids(d)' : stopper'[c] = r => c \in stack'[i].done
        BY <1>2, <4>2, <4>3, <4>4
      <4> QED
        BY <1>2, <4>1, <4>2, <4>3, <4>4, <4>5 DEF StopFrame
    <3>3. CASE i # L - 1
      <4>1. i + 1 \in 1 .. L - 1 /\ i < L /\ i # L
        BY <1>4, <3>1, <3>3
      <4>2. stack'[i].type # "marked"
        BY <1>6, <3>1, <4>1 DEF StopFrame
      <4>3. /\ stack'[i].session = stack[i].session /\ stack'[i].done = stack[i].done
            /\ stack'[i + 1].type = stack[i + 1].type /\ stack'[i + 1].session = stack[i + 1].session
        BY <1>6, <3>1, <3>3, <4>1
      <4> QED
        BY <1>2, <3>1, <4>1, <4>2, <4>3, FrameKept
    <3> QED
      BY <3>2, <3>3
  <2>2. \A i \in DOMAIN stack' : stack'[i].session \in Attached'
    BY <1>1, <1>2, <1>6, <1>9 DEF StackInv, Attached
  <2>3. \A i, j \in DOMAIN stack' :
          IsStop(i)' /\ IsStop(j)' /\ stack'[i].session = stack'[j].session => i = j
    BY <1>1, <1>6, <1>9 DEF StackInv
  <2> QED
    BY <2>1, <2>2, <2>3 DEF StackInv
<1>12. CallInv'
  <2>1. \A q : OnStack(q)' = OnStack(q)
    <3>1. \A i \in DOMAIN stack : IsStop(i) => i \in 1 .. L - 1
      BY <1>4
    <3> QED
      BY <1>6, <1>9, <3>1 DEF OnStack
  <2>2. ASSUME NEW n \in Attached', NEW i \in DOMAIN stack', IsStop(i)',
               stack'[i].session = stopper'[n]
        PROVE  stops'[n] = 1 <=> Begun(n, i)'
    <3>1. /\ n \in Attached /\ i \in 1 .. L - 1 /\ i \in DOMAIN stack /\ IsStop(i)
          /\ stack[i].session = stopper[n]
      BY <1>2, <1>6, <1>9, <2>2 DEF Attached
    <3>2. stops[n] = 1 <=> Begun(n, i)
      BY <1>1, <3>1 DEF CallInv
    <3>3. Begun(n, i)' <=> Begun(n, i)
      <4>1. CASE i = L - 1
        <5>1. i < L /\ i + 1 = L /\ ~ (i < Len(stack')) /\ stack'[i].done = stack[i].done \cup {s}
          <6>1. Len(stack') = L - 1 /\ stack'[i].done = stack[i].done \cup {s}
            BY <1>6, <3>1, <4>1
          <6> QED
            BY <1>4, <4>1, <6>1
        <5>2. Begun(n, i)' <=> n \in stack[i].done \cup {s}
          BY <5>1 DEF Begun
        <5>3. Begun(n, i) <=> n \in stack[i].done \/ stack[L].session = n
          BY <5>1 DEF Begun
        <5> QED
          BY <1>4, <5>2, <5>3
      <4>2. CASE i # L - 1
        <5>1. /\ i < L /\ i + 1 \in 1 .. L - 1 /\ i < Len(stack') /\ stack'[i].done = stack[i].done
              /\ stack'[i + 1].session = stack[i + 1].session
          <6>1. i < L /\ i + 1 \in 1 .. L - 1 /\ i < L - 1
            BY <1>4, <3>1, <4>2
          <6>2. Len(stack') = L - 1 /\ stack'[i].done = stack[i].done
            BY <1>6, <3>1, <4>2
          <6>3. stack'[i + 1].session = stack[i + 1].session
            BY <1>6, <6>1
          <6> QED
            BY <6>1, <6>2, <6>3
        <5> QED
          BY <5>1 DEF Begun
      <4> QED
        BY <4>1, <4>2
    <3> QED
      BY <1>2, <3>2, <3>3
  <2>3. Attached' = Attached
    BY <1>2 DEF Attached
  <2> QED
    BY <1>1, <1>2, <2>1, <2>2, <2>3 DEF CallInv
<1> QED
  BY <1>1, <1>2, <1>8, <1>10, <1>11, <1>12, KeptTree, KeptStopper DEF IndInv

(* The delete event joins the queue while nothing for the tree is behind    *)
(* the delete event of another tree that it is part of.                     *)
LEMMA QueueDeleteInv ==
    ASSUME SessionTreeAssumption, IndInv, QueueDelete
    PROVE  IndInv'
<1> PICK L : L = Len(stack)
  OBVIOUS
<1>1. TypeOK /\ TreeInv /\ StopperInv /\ QueueInv /\ StackInv /\ CallInv
  BY DEF IndInv
<1>2. /\ UNCHANGED <<life, parent, stopper, sid_map, handlers, alarm, lqueue, pqueue, posting, requests, stops>>
      /\ UNCHANGED tree /\ UNCHANGED local /\ UNCHANGED children
      /\ stack # <<>> /\ Top.type = "marked"
  BY DEF QueueDelete, Stopping, tree, local
<1>3. PICK r \in Attached : r = Current /\ r \in Nodes
  BY <1>1, <1>2, CurrentAttached
<1>4. /\ L \in Nat /\ L > 0 /\ DOMAIN stack = 1 .. L /\ L \in DOMAIN stack
      /\ Top = stack[L] /\ stack[L].type = "marked" /\ stack[L].session = r /\ IsStop(L)
  BY <1>1, <1>2, <1>3, StackTop DEF IsStop, Current
<1>5. StopFrame(L) /\ stopper[r] = r /\ stack[L].done = {}
  BY <1>1, <1>4 DEF StackInv, StopFrame
<1> DEFINE f == Stop(r, "calling", {})
           e == Event("delete", r)
<1>6. f \in Frames /\ f.type = "calling" /\ f.session = r /\ f.done = {}
  BY <1>3, FrameType
<1>7. e \in Events /\ e.type = "delete" /\ e.session = r
  BY <1>3, EventType
<1>8. stack' = Append(Below, f) /\ pending' = Append(pending, e)
  BY <1>3 DEF QueueDelete, DeleteLast
<1> HIDE DEF f, e
<1>9. /\ stack' \in Seq(Frames) /\ stack' # <<>> /\ Len(stack') = L /\ DOMAIN stack' = 1 .. L
      /\ \A i \in 1 .. L : i # L => stack'[i] = stack[i]
      /\ stack'[L] = f /\ Top' = f
  BY <1>1, <1>2, <1>4, <1>6, <1>8, StackReplace
<1>10. \A i \in 1 .. L :
          /\ stack'[i].session = stack[i].session /\ stack'[i].done = stack[i].done
          /\ IsStop(i)' = IsStop(i)
          /\ stack'[i].type = "handler" <=> stack[i].type = "handler"
          /\ stack'[i].type = "marked" => i # L /\ stack[i].type = "marked"
  BY <1>4, <1>5, <1>6, <1>9 DEF IsStop
<1>11. TypeOK'
  <2>1. pending' \in Seq(Events)
    BY <1>1, <1>7, <1>8, QueueTypes
  <2> QED
    BY <1>1, <1>2, <1>9, <2>1, TypesAre DEF Types, Attached
<1>12. QueueInv'
  <2>1. /\ ToSet(Shared') = ToSet(Shared) \cup {e}
        /\ \A a, b : Before(Shared', a, b) <=> Before(Shared, a, b) \/ (a \in ToSet(Shared) /\ b = e)
    BY <1>1, <1>2, <1>7, <1>8, SharedAppend
  <2>2. Attached' = Attached /\ Attached \subseteq Nodes
    BY <1>2 DEF Attached
  <2>3. \A s \in Nodes : Descendants(s)' = Descendants(s)
    BY <1>2, SameDescendants
  <2>4. \A s : ~ Marked(s)'
    BY <1>6, <1>9 DEF Marked
  <2>5. Marked(r) /\ \A s : Marked(s) => s = r
    BY <1>2, <1>4 DEF Marked
  <2>6. ASSUME NEW a \in ToSet(Shared'), NEW b \in ToSet(Shared'),
               a.type = "delete", Before(Shared', a, b)
        PROVE  b.session \notin Descendants(a.session)'
    <3>1. a.session \in Nodes
      BY <1>1, <1>3, <1>7, <2>1, <2>2 DEF QueueInv
    <3>2. CASE a \in ToSet(Shared) /\ b = e
      BY <1>1, <1>7, <2>3, <2>5, <2>6, <3>1, <3>2 DEF QueueInv
    <3>3. CASE Before(Shared, a, b)
      <4>1. a \in ToSet(Shared) /\ b \in ToSet(Shared)
        BY <3>3 DEF Before, ToSet
      <4> QED
        BY <1>1, <2>3, <2>6, <3>1, <3>3, <4>1 DEF QueueInv
    <3> QED
      BY <2>1, <2>6, <3>2, <3>3
  <2>7. ASSUME NEW s \in Attached'
        PROVE  stopper'[s] = s <=> Event("delete", s) \in ToSet(Shared') \/ Marked(s)'
    <3>1. s = r => e = Event("delete", s)
      BY DEF e
    <3>2. s # r => e # Event("delete", s)
      BY <1>7 DEF Event
    <3>3. stopper[s] = s <=> Event("delete", s) \in ToSet(Shared) \/ Marked(s)
      BY <1>1, <2>2 DEF QueueInv
    <3> QED
      BY <1>2, <1>5, <2>1, <2>4, <2>5, <3>1, <3>2, <3>3
  <2>8. \A b \in ToSet(Shared') : b.session \in Attached'
    BY <1>1, <1>7, <2>1, <2>2 DEF QueueInv
  <2>9. /\ \A b \in ToSet(lqueue') : b.type = "msg" /\ b.session \in Attached'
        /\ \A p \in Posters : posting'[p] # None =>
               posting'[p] \in Attached' /\ stopper'[posting'[p]] = None
        /\ \A s \in Nodes : alarm'[s] # "none" => s \in Attached'
    BY <1>1, <1>2, <2>2 DEF QueueInv
  <2> QED
    BY <2>4, <2>6, <2>7, <2>8, <2>9 DEF QueueInv
<1>13. StackInv'
  <2>1. ASSUME NEW i \in DOMAIN stack', IsStop(i)' PROVE StopFrame(i)'
    <3>1. i \in 1 .. L /\ i \in DOMAIN stack /\ IsStop(i) /\ StopFrame(i)
      BY <1>1, <1>4, <1>9, <1>10, <2>1 DEF StackInv
    <3>2. stack'[i].type # "marked"
      BY <1>10, <3>1 DEF StopFrame
    <3>3. CASE i = L
      BY <1>2, <1>9, <1>10, <3>1, <3>2, <3>3, FrameKept
    <3>4. CASE i # L
      <4>1. i + 1 \in 1 .. L /\ i < L
        BY <1>4, <3>1, <3>4
      <4>2. stack[i + 1].type = "handler" /\ i + 1 # L
        BY <1>4, <3>1, <4>1 DEF StopFrame
      <4>3. stack'[i + 1] = stack[i + 1]
        BY <1>9, <4>1, <4>2
      <4> QED
        BY <1>2, <1>10, <3>1, <3>2, <4>1, <4>3, FrameKept
    <3> QED
      BY <3>3, <3>4
  <2>2. /\ \A i \in DOMAIN stack' : stack'[i].session \in Attached'
        /\ \A i, j \in DOMAIN stack' :
              IsStop(i)' /\ IsStop(j)' /\ stack'[i].session = stack'[j].session => i = j
    BY <1>1, <1>2, <1>4, <1>9, <1>10 DEF StackInv, Attached
  <2> QED
    BY <2>1, <2>2 DEF StackInv
<1>14. CallInv'
  <2>1. /\ \A q : OnStack(q)' = OnStack(q)
        /\ DOMAIN stack' = DOMAIN stack
        /\ Attached' = Attached
    BY <1>2, <1>4, <1>9, <1>10 DEF OnStack, Attached
  <2>2. ASSUME NEW i \in DOMAIN stack', IsStop(i)', NEW s PROVE Begun(s, i)' <=> Begun(s, i)
    <3>1. i \in 1 .. L /\ stack'[i].done = stack[i].done /\ Len(stack') = L
      BY <1>9, <1>10, <2>2
    <3>2. i < L => stack'[i + 1].session = stack[i + 1].session
      <4>1. i < L => i + 1 \in 1 .. L
        BY <1>4, <3>1
      <4> QED
        BY <1>10, <4>1
    <3> QED
      BY <3>1, <3>2 DEF Begun
  <2>3. \A i \in DOMAIN stack' : IsStop(i)' = IsStop(i) /\ stack'[i].session = stack[i].session
    BY <1>9, <1>10
  <2> QED
    BY <1>1, <1>2, <2>1, <2>2, <2>3 DEF CallInv
<1> QED
  BY <1>1, <1>2, <1>11, <1>12, <1>13, <1>14, KeptTree, KeptStopper DEF IndInv

(* What a stop that calls has still to visit.                               *)
LEMMA LeftIs ==
    ASSUME SessionTreeAssumption, IndInv, Stopping("calling")
    PROVE  /\ Current \in Attached /\ Current \in Nodes /\ stopper[Current] = Current
           /\ Top = stack[Len(stack)] /\ Current = stack[Len(stack)].session
           /\ Len(stack) \in DOMAIN stack /\ IsStop(Len(stack)) /\ StopFrame(Len(stack))
           /\ StoppedBy(Current) = {s \in Attached : stopper[s] = Current}
           /\ Left = {s \in Attached : stopper[s] = Current} \ Top.done
<1>1. TypeOK /\ TreeInv /\ StopperInv /\ QueueInv /\ StackInv /\ CallInv
  BY DEF IndInv
<1>2. stack # <<>> /\ Top.type = "calling"
  BY DEF Stopping
<1>3. Current \in Attached /\ Current \in Nodes
  BY <1>1, <1>2, CurrentAttached
<1>4. Top = stack[Len(stack)] /\ Len(stack) \in DOMAIN stack
  BY <1>1, <1>2, StackTop
<1>5. IsStop(Len(stack)) /\ Current = stack[Len(stack)].session
  BY <1>2, <1>4 DEF IsStop, Current
<1>6. StopFrame(Len(stack))
  BY <1>1, <1>4, <1>5 DEF StackInv
<1>7. stopper[Current] = Current
  BY <1>5, <1>6 DEF StopFrame
<1>8. StoppedBy(Current) = {s \in Attached : stopper[s] = Current}
  BY <1>1, <1>3, <1>7, StoppedByIs
<1> QED
  BY <1>3, <1>4, <1>5, <1>6, <1>7, <1>8 DEF Left

(* The stop handler of a session begins when no child of it is left.        *)
LEMMA CallStopInv ==
    ASSUME SessionTreeAssumption, IndInv, CallStop
    PROVE  IndInv'
<1> PICK L : L = Len(stack)
  OBVIOUS
<1>1. TypeOK /\ TreeInv /\ StopperInv /\ QueueInv /\ StackInv /\ CallInv
  BY DEF IndInv
<1>2. /\ UNCHANGED <<life, parent, stopper, sid_map, handlers, alarm, lqueue, pqueue, pending, posting, requests>>
      /\ UNCHANGED tree /\ UNCHANGED local /\ UNCHANGED children /\ UNCHANGED queues
      /\ stack # <<>> /\ Top.type = "calling"
  BY DEF CallStop, Stopping, tree, local, queues
<1>3. PICK n \in ToCall : stack' = Pushed(Handler(n)) /\ stops' = [stops EXCEPT ![n] = @ + 1]
  BY DEF CallStop
<1>4. PICK r \in Attached : r = Current
  BY <1>1, <1>2, CurrentAttached
<1>5. /\ L \in Nat /\ L > 0 /\ DOMAIN stack = 1 .. L /\ L \in DOMAIN stack
      /\ Top = stack[L] /\ stack[L].type = "calling" /\ stack[L].session = r /\ IsStop(L)
      /\ StopFrame(L) /\ stopper[r] = r /\ r # None
      /\ Left = {s \in Attached : stopper[s] = r} \ stack[L].done
  BY <1>1, <1>2, <1>4, StackTop, LeftIs DEF CallStop, Attached, SessionTreeAssumption, Nodes
<1>6. /\ n \in Attached /\ n \in Nodes /\ stopper[n] = r /\ n \notin stack[L].done
      /\ \A c \in Kids(n) : stopper[c] = r => c \in stack[L].done
  <2>1. n \in Left /\ Kids(n) \cap Left = {}
    BY DEF ToCall
  <2>2. n \in Attached /\ n \in Nodes /\ stopper[n] = r /\ n \notin stack[L].done
    BY <1>5, <2>1 DEF Attached
  <2>3. Kids(n) \subseteq Attached
    BY <1>1, <2>2, ChildAttached
  <2> QED
    BY <1>5, <2>1, <2>2, <2>3
<1>7. Handler(n) \in Frames /\ Handler(n).type = "handler" /\ Handler(n).session = n
  BY <1>6, FrameType
<1>8. /\ stack' \in Seq(Frames) /\ Len(stack') = L + 1 /\ DOMAIN stack' = 1 .. L + 1
      /\ \A i \in 1 .. L : stack'[i] = stack[i]
      /\ stack'[L + 1].type = "handler" /\ stack'[L + 1].session = n /\ Top'.type = "handler"
  BY <1>1, <1>3, <1>5, <1>7, StackPush
<1>9. stops[n] = 0 /\ stops' = [stops EXCEPT ![n] = 1]
  <2>1. stops[n] = 1 <=> Begun(n, L)
    BY <1>1, <1>5, <1>6 DEF CallInv
  <2>2. ~ Begun(n, L)
    BY <1>5, <1>6 DEF Begun
  <2>3. stops[n] = 0
    BY <1>1, <1>6, <2>1, <2>2 DEF CallInv
  <2> QED
    BY <1>3, <2>3
<1>10. /\ \A i \in 1 .. L : IsStop(i)' = IsStop(i) /\ i \in DOMAIN stack
       /\ \A i \in DOMAIN stack' : IsStop(i)' => i \in 1 .. L
  BY <1>5, <1>8 DEF IsStop
<1>11. TypeOK'
  <2>1. stops' \in [Nodes -> Nat]
    BY <1>1, <1>9 DEF TypeOK
  <2> QED
    BY <1>1, <1>2, <1>8, <2>1, TypesAre DEF Types, Attached
<1>12. StopperInv'
  <2>1. stopper[n] # None
    BY <1>5, <1>6
  <2>2. life[n] # "new"
    BY <1>6 DEF Attached
  <2> QED
    BY <1>1, <1>2, <1>3, <2>2 DEF StopperInv, Attached, TypeOK
<1>13. QueueInv'
  <2>1. \A s \in Nodes : Marked(s)' = Marked(s)
    BY <1>2, <1>8 DEF Marked
  <2> QED
    BY <1>1, <1>2, <2>1, KeptQueue
<1>14. StackInv'
  <2>1. ASSUME NEW i \in DOMAIN stack', IsStop(i)' PROVE StopFrame(i)'
    <3>1. i \in 1 .. L /\ i \in DOMAIN stack /\ IsStop(i) /\ StopFrame(i)
      BY <1>1, <1>10, <2>1 DEF StackInv
    <3>2. CASE i = L
      <4>1. Attached' = Attached /\ Attached \subseteq Nodes
        BY <1>2 DEF Attached
      <4>2. /\ stack[L].done \subseteq {m \in Attached : stopper[m] = r}
            /\ \A d \in stack[L].done : \A c \in Kids(d) : stopper[c] = r => c \in stack[L].done
        BY <1>5 DEF StopFrame
      <4>3. Kids(n)' = Kids(n) /\ \A d \in stack[L].done : Kids(d)' = Kids(d)
        BY <1>2, <1>6, <4>1, <4>2, SameDescendants
      <4>4. stack'[i] = stack[L] /\ i + 1 = L + 1
        BY <1>8, <3>1, <3>2
      <4>5. /\ stopper'[stack'[i].session] = stack'[i].session /\ stack'[i].type # "marked"
            /\ stack'[i].done \subseteq {m \in Attached' : stopper'[m] = stack'[i].session}
            /\ \A d \in stack'[i].done : \A c \in Kids(d)' :
                  stopper'[c] = stack'[i].session => c \in stack'[i].done
        BY <1>2, <1>5, <4>1, <4>2, <4>3, <4>4
      <4>6. /\ stack'[i + 1].type = "handler" /\ stack'[i + 1].session = n
            /\ stopper'[n] = stack'[i].session /\ n \notin stack'[i].done
            /\ \A c \in Kids(n)' : stopper'[c] = stack'[i].session => c \in stack'[i].done
        BY <1>2, <1>5, <1>6, <1>8, <4>3, <4>4
      <4> QED
        BY <4>5, <4>6 DEF StopFrame, Kids
    <3>3. CASE i # L
      <4>1. i + 1 \in 1 .. L /\ i < L
        BY <1>5, <3>1, <3>3
      <4>2. stack'[i] = stack[i] /\ stack'[i + 1] = stack[i + 1]
        BY <1>8, <3>1, <4>1
      <4>3. stack[i].type # "marked"
        BY <3>1, <4>1 DEF StopFrame
      <4> QED
        BY <1>2, <3>1, <4>1, <4>2, <4>3, FrameKept
    <3> QED
      BY <3>2, <3>3
  <2>2. \A i \in DOMAIN stack' : stack'[i].session \in Attached'
    <3>1. Attached' = Attached /\ \A i \in 1 .. L : stack[i].session \in Attached
      BY <1>1, <1>2, <1>5 DEF StackInv, Attached
    <3>2. \A i \in DOMAIN stack' : i \in 1 .. L \/ i = L + 1
      BY <1>5, <1>8
    <3> QED
      BY <1>6, <1>8, <3>1, <3>2
  <2>3. \A i, j \in DOMAIN stack' :
          IsStop(i)' /\ IsStop(j)' /\ stack'[i].session = stack'[j].session => i = j
    BY <1>1, <1>5, <1>8, <1>10 DEF StackInv
  <2> QED
    BY <2>1, <2>2, <2>3 DEF StackInv
<1>15. CallInv'
  <2>1. Attached' = Attached /\ Attached \subseteq Nodes
    BY <1>2 DEF Attached
  <2>2. \A q : OnStack(q)' = OnStack(q)
    BY <1>5, <1>8, <1>10 DEF OnStack
  <2>3. OnStack(r)
    BY <1>5 DEF OnStack
  <2>4. ASSUME NEW s \in Attached, NEW i \in DOMAIN stack', IsStop(i)',
               stack'[i].session = stopper'[s]
        PROVE  stops'[s] = 1 <=> Begun(s, i)'
    <3>1. /\ i \in 1 .. L /\ i \in DOMAIN stack /\ IsStop(i) /\ stack[i].session = stopper[s]
          /\ stack'[i] = stack[i] /\ i < Len(stack')
      BY <1>2, <1>5, <1>8, <1>10, <2>4
    <3>2. stops[s] = 1 <=> Begun(s, i)
      BY <1>1, <3>1 DEF CallInv
    <3>3. Begun(s, i)' <=> s \in stack[i].done \/ stack'[i + 1].session = s
      BY <3>1 DEF Begun
    <3>4. CASE i = L
      <4>1. Begun(s, i)' <=> Begun(s, i) \/ s = n
        BY <1>5, <1>8, <3>3, <3>4 DEF Begun
      <4> QED
        BY <1>1, <1>6, <1>9, <2>1, <3>2, <4>1 DEF TypeOK
    <3>5. CASE i # L
      <4>1. i < L /\ i + 1 \in 1 .. L
        BY <1>5, <3>1, <3>5
      <4>2. Begun(s, i)' <=> Begun(s, i)
        BY <1>8, <3>3, <4>1 DEF Begun
      <4>3. s # n
        <5>1. stack[i].session # r
          BY <1>1, <1>5, <3>1, <3>5 DEF StackInv
        <5> QED
          BY <1>6, <3>1, <5>1
      <4> QED
        BY <1>1, <1>6, <1>9, <2>1, <3>2, <4>2, <4>3 DEF TypeOK
    <3> QED
      BY <3>4, <3>5
  <2>5. \A s \in Nodes : stops'[s] \in {0, 1}
    BY <1>1, <1>6, <1>9 DEF CallInv, TypeOK
  <2>6. ASSUME NEW s \in Attached
        PROVE  /\ s \in sid_map' <=> stopper'[s] = None \/ OnStack(stopper[s])
               /\ stopper'[s] = None => stops'[s] = 0
               /\ stopper'[s] # None /\ ~ OnStack(stopper[s]) => stops'[s] = 1
    <3>1. /\ s \in sid_map <=> stopper[s] = None \/ OnStack(stopper[s])
          /\ stopper[s] = None => stops[s] = 0
          /\ stopper[s] # None /\ ~ OnStack(stopper[s]) => stops[s] = 1
      BY <1>1 DEF CallInv
    <3>2. s # n => stops'[s] = stops[s]
      BY <1>1, <1>9, <2>1 DEF TypeOK
    <3>3. s = n => stopper[s] # None /\ OnStack(stopper[s])
      BY <1>5, <1>6, <2>3
    <3> QED
      BY <1>2, <3>1, <3>2, <3>3
  <2>7. \A s \in Attached : OnStack(stopper[s])' = OnStack(stopper[s])
    <3> SUFFICES ASSUME NEW s \in Attached PROVE OnStack(stopper[s])' = OnStack(stopper[s])
      OBVIOUS
    <3> PICK q : q = stopper[s]
      OBVIOUS
    <3>1. OnStack(q)' = OnStack(q) /\ q = stopper'[s]
      BY <1>2, <2>2
    <3> QED
      BY <3>1 DEF OnStack, IsStop
  <2> QED
    BY <1>2, <2>1, <2>4, <2>5, <2>6, <2>7 DEF CallInv
<1> QED
  BY <1>1, <1>2, <1>11, <1>12, <1>13, <1>14, <1>15, KeptTree DEF IndInv

(* Once the stop handlers of all have run the identifiers are forgotten.    *)
LEMMA RemoveSidsInv ==
    ASSUME SessionTreeAssumption, IndInv, RemoveSids
    PROVE  IndInv'
<1> PICK L : L = Len(stack)
  OBVIOUS
<1>1. TypeOK /\ TreeInv /\ StopperInv /\ QueueInv /\ StackInv /\ CallInv
  BY DEF IndInv
<1>2. /\ UNCHANGED <<life, parent, stopper, handlers, alarm, lqueue, pqueue, pending, posting, requests, stops>>
      /\ UNCHANGED tree /\ UNCHANGED children /\ UNCHANGED queues
      /\ stack # <<>> /\ Top.type = "calling" /\ stack' = Below
  BY DEF RemoveSids, Stopping, tree, queues
<1>3. PICK r \in Attached : r = Current
  BY <1>1, <1>2, CurrentAttached
<1>4. /\ L \in Nat /\ L > 0 /\ DOMAIN stack = 1 .. L /\ L \in DOMAIN stack
      /\ Top = stack[L] /\ stack[L].type = "calling" /\ stack[L].session = r /\ IsStop(L)
      /\ StopFrame(L) /\ stopper[r] = r /\ r # None
      /\ StoppedBy(r) = {s \in Attached : stopper[s] = r}
      /\ {s \in Attached : stopper[s] = r} \subseteq stack[L].done
      /\ sid_map' = sid_map \ {s \in Attached : stopper[s] = r}
  BY <1>1, <1>2, <1>3, StackTop, LeftIs DEF RemoveSids, Attached, SessionTreeAssumption, Nodes
<1>5. /\ stack' \in Seq(Frames) /\ Len(stack') = L - 1 /\ DOMAIN stack' = 1 .. L - 1
      /\ \A i \in 1 .. L - 1 : stack'[i] = stack[i] /\ i \in DOMAIN stack
  BY <1>1, <1>2, <1>4, StackTop
<1>6. L > 1 => ~ IsStop(L - 1)
  <2> SUFFICES ASSUME L > 1, IsStop(L - 1) PROVE FALSE
    OBVIOUS
  <2>1. L - 1 \in DOMAIN stack /\ (L - 1) + 1 = L /\ L - 1 < Len(stack)
    BY <1>4
  <2> QED
    BY <1>1, <1>4, <2>1 DEF StackInv, StopFrame
<1>7. \A i \in DOMAIN stack' : /\ IsStop(i)' = IsStop(i)
                               /\ IsStop(i) => i + 1 \in 1 .. L - 1 /\ i < L - 1
  <2> SUFFICES ASSUME NEW i \in 1 .. L - 1
               PROVE  /\ IsStop(i)' = IsStop(i)
                      /\ IsStop(i) => i + 1 \in 1 .. L - 1 /\ i < L - 1
    BY <1>5
  <2>1. IsStop(i)' = IsStop(i)
    BY <1>5 DEF IsStop
  <2>2. IsStop(i) => i # L - 1
    BY <1>4, <1>6
  <2> QED
    BY <1>4, <2>1, <2>2
<1>8. TypeOK'
  <2>1. sid_map' \subseteq Attached
    BY <1>1, <1>4 DEF TypeOK
  <2> QED
    BY <1>1, <1>2, <1>5, <2>1, TypesAre DEF Types, Attached
<1>9. QueueInv'
  <2>1. ASSUME NEW s \in Nodes PROVE Marked(s)' = Marked(s)
    <3>1. ~ Marked(s)
      BY <1>2 DEF Marked
    <3>2. ASSUME Marked(s)' PROVE FALSE
      <4>1. /\ stack' # <<>> /\ Top'.type = "marked" /\ Top' = stack'[Len(stack')]
        BY <3>2 DEF Marked, Top, Last
      <4>2. L > 1 /\ L - 1 \in 1 .. L - 1
        <5>1. Len(stack') # 0
          BY <1>5, <4>1
        <5> QED
          BY <1>4, <1>5, <5>1
      <4>3. stack[L - 1].type = "marked"
        BY <1>5, <4>1, <4>2
      <4> QED
        BY <1>6, <4>2, <4>3 DEF IsStop
    <3> QED
      BY <3>1, <3>2 DEF Marked
  <2> QED
    BY <1>1, <1>2, <2>1, KeptQueue
<1>10. StackInv'
  <2>1. ASSUME NEW i \in DOMAIN stack', IsStop(i)' PROVE StopFrame(i)'
    <3>1. /\ i \in 1 .. L - 1 /\ i \in DOMAIN stack /\ IsStop(i) /\ StopFrame(i)
          /\ i + 1 \in 1 .. L - 1 /\ i < L
      BY <1>1, <1>4, <1>5, <1>7, <2>1 DEF StackInv
    <3>2. stack'[i] = stack[i] /\ stack'[i + 1] = stack[i + 1]
      BY <1>5, <3>1
    <3>3. stack[i].type # "marked"
      BY <1>4, <3>1 DEF StopFrame
    <3> QED
      BY <1>2, <3>1, <3>2, <3>3, FrameKept
  <2>2. /\ \A i \in DOMAIN stack' : stack'[i].session \in Attached'
        /\ \A i, j \in DOMAIN stack' :
              IsStop(i)' /\ IsStop(j)' /\ stack'[i].session = stack'[j].session => i = j
    BY <1>1, <1>2, <1>5, <1>7 DEF StackInv, Attached
  <2> QED
    BY <2>1, <2>2 DEF StackInv
<1>11. CallInv'
  <2>1. Attached' = Attached /\ Attached \subseteq Nodes
    BY <1>2 DEF Attached
  <2>2. \A q : OnStack(q)' <=> OnStack(q) /\ q # r
    <3>1. ASSUME NEW q, OnStack(q)' PROVE OnStack(q) /\ q # r
      <4>1. PICK i \in DOMAIN stack' : IsStop(i)' /\ stack'[i].session = q
        BY <3>1 DEF OnStack
      <4>2. /\ i \in DOMAIN stack /\ IsStop(i) /\ stack[i].session = q /\ i # L
        BY <1>4, <1>5, <1>7, <4>1
      <4> QED
        BY <1>1, <1>4, <4>2 DEF StackInv, OnStack
    <3>2. ASSUME NEW q, OnStack(q), q # r PROVE OnStack(q)'
      <4>1. PICK i \in DOMAIN stack : IsStop(i) /\ stack[i].session = q
        BY <3>2 DEF OnStack
      <4>2. i \in 1 .. L - 1
        BY <1>4, <3>2, <4>1
      <4>3. i \in DOMAIN stack' /\ IsStop(i)' /\ stack'[i].session = q
        BY <1>5, <1>7, <4>1, <4>2
      <4> QED
        BY <4>3 DEF OnStack
    <3> QED
      BY <3>1, <3>2
  <2>3. \A s \in Attached : stopper[s] = r => stops[s] = 1
    <3> SUFFICES ASSUME NEW s \in Attached, stopper[s] = r PROVE stops[s] = 1
      OBVIOUS
    <3>1. Begun(s, L)
      BY <1>4 DEF Begun
    <3> QED
      BY <1>1, <1>4, <3>1 DEF CallInv
  <2>4. ASSUME NEW s \in Attached
        PROVE  /\ s \in sid_map' <=> stopper[s] = None \/ OnStack(stopper[s])'
               /\ stopper[s] # None /\ ~ OnStack(stopper[s])' => stops[s] = 1
    <3> PICK q : q = stopper[s]
      OBVIOUS
    <3>1. OnStack(stopper[s])' <=> OnStack(q) /\ q # r
      <4>1. OnStack(q)' <=> OnStack(q) /\ q # r
        BY <2>2
      <4>2. OnStack(stopper[s])' <=> OnStack(q)'
        BY <1>2 DEF OnStack, IsStop
      <4> QED
        BY <4>1, <4>2
    <3>2. /\ s \in sid_map <=> q = None \/ OnStack(q)
          /\ q # None /\ ~ OnStack(q) => stops[s] = 1
      BY <1>1 DEF CallInv
    <3> QED
      BY <1>4, <2>3, <3>1, <3>2
  <2>5. ASSUME NEW s \in Attached, NEW i \in DOMAIN stack', IsStop(i)', stack'[i].session = stopper[s]
        PROVE  stops[s] = 1 <=> Begun(s, i)'
    <3>1. /\ i \in 1 .. L - 1 /\ i \in DOMAIN stack /\ IsStop(i) /\ i < L - 1 /\ i + 1 \in 1 .. L - 1
          /\ stack[i].session = stopper[s]
      BY <1>5, <1>7, <2>5
    <3>2. stops[s] = 1 <=> Begun(s, i)
      BY <1>1, <3>1 DEF CallInv
    <3>3. stack'[i] = stack[i] /\ stack'[i + 1] = stack[i + 1] /\ i < L
      BY <1>4, <1>5, <3>1
    <3> QED
      BY <1>5, <3>1, <3>2, <3>3 DEF Begun
  <2> QED
    BY <1>1, <1>2, <2>1, <2>4, <2>5 DEF CallInv
<1> QED
  BY <1>1, <1>2, <1>8, <1>9, <1>10, <1>11, KeptTree, KeptStopper DEF IndInv
-----------------------------------------------------------------------------
(***************************************************************************)
(* The steps that change the tree or the stoppers.                         *)
(***************************************************************************)

(* What is marked was alive, so it had no part in any stop; and no poster   *)
(* has found any of it when it is marked.                                   *)
LEMMA StopSessionInv ==
    ASSUME SessionTreeAssumption, IndInv, NEW r \in Sessions, StopSession(r)
    PROVE  IndInv'
<1> PICK L : L = Len(stack)
  OBVIOUS
<1>1. TypeOK /\ TreeInv /\ StopperInv /\ QueueInv /\ StackInv /\ CallInv
  BY DEF IndInv
<1>2. /\ UNCHANGED <<life, parent, sid_map, handlers, alarm, lqueue, pqueue, pending, posting, requests, stops>>
      /\ UNCHANGED tree /\ UNCHANGED children /\ UNCHANGED queues
      /\ stack # <<>> /\ Top.type = "handler" /\ stopper' = Marks(r)
      /\ stack' = Pushed(Stop(r, "marked", {})) /\ NoReader
  BY DEF StopSession, Running, tree, queues
<1>3. r \in Attached /\ r \in Nodes /\ stopper[r] = None /\ r # None
  BY DEF StopSession, Attached, Nodes, SessionTreeAssumption
<1>4. Attached' = Attached /\ Attached \subseteq Nodes
  BY <1>2 DEF Attached
<1>5. PICK M \in SUBSET (Attached \cap Sessions) :
          /\ r \in M
          /\ M \subseteq Descendants(r)
          /\ \A n \in M : stopper[n] = None /\ (n = r \/ parent[n] \in M)
          /\ \A n \in M : \A c \in Kids(n) : stopper[c] = None => c \in M
          /\ Marks(r) = [n \in Nodes |-> IF n \in M THEN r ELSE stopper[n]]
  BY <1>1, <1>3, MarksAre
<1>6. /\ stopper' \in [Nodes -> Sessions \cup {None}]
      /\ \A n \in Nodes : stopper'[n] = IF n \in M THEN r ELSE stopper[n]
  BY <1>1, <1>2, <1>5 DEF TypeOK
<1> DEFINE f == Stop(r, "marked", {})
<1>7. f \in Frames /\ f.type = "marked" /\ f.session = r /\ f.done = {}
  BY <1>3, FrameType
<1> HIDE DEF f
<1>8. /\ L \in Nat /\ L > 0 /\ DOMAIN stack = 1 .. L /\ L \in DOMAIN stack
      /\ Top = stack[L] /\ stack[L].type = "handler" /\ ~ IsStop(L)
  BY <1>1, <1>2, StackTop DEF IsStop
<1>9. /\ stack' \in Seq(Frames) /\ stack' # <<>>
      /\ Len(stack') = L + 1 /\ DOMAIN stack' = 1 .. L + 1
      /\ \A i \in 1 .. L : stack'[i] = stack[i] /\ i \in DOMAIN stack
      /\ stack'[L + 1] = f /\ Top' = f
  BY <1>1, <1>2, <1>7, <1>8, StackPush DEF f
<1>10. TypeOK'
  BY <1>1, <1>2, <1>6, <1>9, TypesAre DEF Types, Attached
<1>11. StopperInv'
  <2>1. Kernel \in Nodes /\ Kernel \notin M
    BY <1>5 DEF Nodes, SessionTreeAssumption
  <2>2. \A s \in Nodes : life'[s] = "new" => stopper'[s] = None /\ stops'[s] = 0
    BY <1>1, <1>2, <1>5, <1>6 DEF StopperInv, Attached
  <2>3. ASSUME NEW s \in Attached', stopper'[s] # None
        PROVE  /\ stopper'[s] \in Attached' /\ stopper'[stopper'[s]] = stopper'[s]
               /\ s = stopper'[s] \/ stopper'[parent'[s]] = stopper'[s]
    <3>1. CASE s \in M
      BY <1>2, <1>3, <1>4, <1>5, <1>6, <3>1
    <3>2. CASE s \notin M
      <4> PICK q : q = stopper[s]
        OBVIOUS
      <4>1. stopper'[s] = q /\ q # None
        BY <1>4, <1>6, <2>3, <3>2
      <4>2. /\ q \in Attached /\ stopper[q] = q
            /\ s = q \/ stopper[parent[s]] = q
        BY <1>1, <1>4, <4>1 DEF StopperInv
      <4>3. q \notin M /\ stopper'[q] = q
        BY <1>4, <1>5, <1>6, <4>1, <4>2
      <4>4. s # q => parent[s] \in Attached
        <5>1. s # q => s # Kernel
          BY <1>1, <4>1 DEF StopperInv
        <5> QED
          BY <1>1, <1>4, <5>1 DEF TreeInv, Nodes
      <4>5. s # q => stopper'[parent[s]] = q
        BY <1>4, <1>5, <1>6, <4>1, <4>2, <4>4
      <4> QED
        BY <1>2, <1>4, <4>1, <4>2, <4>3, <4>5
    <3> QED
      BY <3>1, <3>2
  <2>4. ASSUME NEW s \in Attached' \ {Kernel}, stopper'[parent'[s]] # None
        PROVE  stopper'[s] # None
    <3>1. s \in Sessions /\ s \in Attached /\ parent[s] \in Attached /\ s \in Kids(parent[s])
      BY <1>1, <1>4 DEF TreeInv, Nodes
    <3>2. CASE parent[s] \in M
      BY <1>3, <1>4, <1>5, <1>6, <3>1, <3>2
    <3>3. CASE parent[s] \notin M
      <4>1. stopper[parent[s]] # None
        BY <1>2, <1>4, <1>6, <2>4, <3>1, <3>3
      <4>2. stopper[s] # None
        BY <1>1, <3>1, <4>1 DEF StopperInv, SessionTreeAssumption
      <4> QED
        BY <1>3, <1>4, <1>6, <3>1, <4>2
    <3> QED
      BY <3>2, <3>3
  <2> QED
    BY <1>1, <1>6, <2>1, <2>2, <2>3, <2>4 DEF StopperInv
<1>12. QueueInv'
  <2>1. /\ Shared' = Shared /\ UNCHANGED <<lqueue, posting, alarm>>
        /\ \A p \in Posters : posting[p] = None
    BY <1>2 DEF Shared, NoReader
  <2>2. \A s \in Nodes : Descendants(s)' = Descendants(s)
    BY <1>2, SameDescendants
  <2>3. \A s : Marked(s)' <=> s = r
    BY <1>7, <1>9 DEF Marked
  <2>4. \A s : ~ Marked(s)
    BY <1>2 DEF Marked
  <2>5. \A d, e \in ToSet(Shared') : d.type = "delete" /\ Before(Shared', d, e) =>
            e.session \notin Descendants(d.session)'
    BY <1>1, <1>4, <2>1, <2>2 DEF QueueInv
  <2>6. ASSUME NEW s \in Attached'
        PROVE  stopper'[s] = s <=> Event("delete", s) \in ToSet(Shared') \/ Marked(s)'
    <3>1. stopper[s] = s <=> Event("delete", s) \in ToSet(Shared)
      BY <1>1, <1>4, <2>4 DEF QueueInv
    <3>2. CASE s = r
      BY <1>3, <1>5, <1>6, <2>3, <3>2
    <3>3. CASE s # r
      <4>1. s \in Nodes /\ s # None
        BY <1>4 DEF Nodes, SessionTreeAssumption
      <4>2. stopper'[s] = s <=> stopper[s] = s
        BY <1>5, <1>6, <3>3, <4>1
      <4> QED
        BY <2>1, <2>3, <3>1, <3>3, <4>2
    <3> QED
      BY <3>2, <3>3
  <2>7. \A s \in Attached' : Marked(s)' =>
            \A d \in ToSet(Shared') : d.type = "delete" => s \notin Descendants(d.session)'
    <3> SUFFICES ASSUME NEW d \in ToSet(Shared), d.type = "delete"
                 PROVE  r \notin Descendants(d.session)'
      BY <2>1, <2>3
    <3>1. d.session \in Nodes
      BY <1>1, <1>4 DEF QueueInv
    <3>2. r \notin Descendants(d.session)
      BY <1>1, <1>3, NotDeleted
    <3> QED
      BY <2>2, <3>1, <3>2
  <2>8. /\ \A e \in ToSet(lqueue') : e.type = "msg" /\ e.session \in Attached'
        /\ \A e \in ToSet(Shared') : e.session \in Attached'
        /\ \A s \in Nodes : alarm'[s] # "none" => s \in Attached'
    BY <1>1, <1>4, <2>1 DEF QueueInv
  <2>9. \A p \in Posters : posting'[p] # None =>
            posting'[p] \in Attached' /\ stopper'[posting'[p]] = None
    BY <2>1
  <2> QED
    BY <2>5, <2>6, <2>7, <2>8, <2>9 DEF QueueInv
<1>13. ASSUME NEW i \in 1 .. L, IsStop(i)
       PROVE  /\ i < L /\ i + 1 \in 1 .. L /\ i \in DOMAIN stack
              /\ StopFrame(i) /\ stack[i].session \in Attached
              /\ stopper[stack[i].session] = stack[i].session
              /\ stack[i].session # r /\ stack[i].session # None
  <2>1. i < L /\ i + 1 \in 1 .. L /\ i \in DOMAIN stack
    BY <1>8, <1>9, <1>13
  <2>2. StopFrame(i) /\ stack[i].session \in Attached
    BY <1>1, <1>13, <2>1 DEF StackInv
  <2>3. stopper[stack[i].session] = stack[i].session
    BY <2>2 DEF StopFrame
  <2>4. stack[i].session # None
    BY <1>4, <2>2 DEF Nodes, SessionTreeAssumption
  <2> QED
    BY <1>3, <2>1, <2>2, <2>3, <2>4
<1>14. /\ \A i \in 1 .. L : IsStop(i)' = IsStop(i)
       /\ IsStop(L + 1)'
       /\ \A i \in DOMAIN stack' : i = L + 1 \/ i \in 1 .. L
  BY <1>7, <1>8, <1>9 DEF IsStop
<1>15. StackInv'
  <2>1. ASSUME NEW i \in DOMAIN stack', IsStop(i)' PROVE StopFrame(i)'
    <3>1. CASE i = L + 1
      <4>1. stack'[i] = f /\ i = Len(stack')
        BY <1>8, <1>9, <3>1
      <4>2. stopper'[r] = r
        BY <1>3, <1>5, <1>6
      <4> QED
        BY <1>7, <1>8, <4>1, <4>2 DEF StopFrame
    <3>2. CASE i \in 1 .. L
      <4> PICK q : q = stack[i].session
        OBVIOUS
      <4> PICK n : n = stack[i + 1].session
        OBVIOUS
      <4>1. /\ IsStop(i) /\ i < L /\ i + 1 \in 1 .. L /\ i \in DOMAIN stack
            /\ StopFrame(i) /\ q \in Attached /\ stopper[q] = q /\ q # r /\ q # None
        BY <1>13, <1>14, <2>1, <3>2
      <4>2. stack'[i] = stack[i] /\ stack'[i + 1] = stack[i + 1] /\ i < Len(stack')
        BY <1>8, <1>9, <4>1
      <4>3. \A m \in Nodes : (stopper'[m] = q) <=> (stopper[m] = q)
        BY <1>5, <1>6, <4>1
      <4>4. stack[i].done \subseteq {m \in Attached : stopper[m] = q}
        BY <4>1 DEF StopFrame
      <4>5. n \in Attached
        BY <1>1, <1>8, <4>1 DEF StackInv
      <4>6. \A m \in Nodes : Kids(m)' = Kids(m) /\ Kids(m) \subseteq Nodes
        BY <1>1, <1>2, <1>4, SameDescendants, ChildAttached
      <4>7. /\ stack[i].type # "marked"
            /\ \A d \in stack[i].done : \A c \in Kids(d) : stopper[c] = q => c \in stack[i].done
            /\ stack[i + 1].type = "handler" /\ stopper[n] = q /\ n \notin stack[i].done
            /\ \A c \in Kids(n) : stopper[c] = q => c \in stack[i].done
        BY <1>8, <4>1 DEF StopFrame
      <4>8. /\ stopper'[q] = q
            /\ stack[i].done \subseteq {m \in Attached' : stopper'[m] = q}
        BY <1>4, <4>1, <4>3, <4>4
      <4>9. \A d \in stack[i].done : \A c \in Kids(d)' : stopper'[c] = q => c \in stack[i].done
        BY <1>4, <4>3, <4>4, <4>6, <4>7
      <4>10. /\ stopper'[n] = q
             /\ \A c \in Kids(n)' : stopper'[c] = q => c \in stack[i].done
        BY <1>4, <4>3, <4>5, <4>6, <4>7
      <4> QED
        BY <4>2, <4>7, <4>8, <4>9, <4>10 DEF StopFrame, Kids
    <3> QED
      BY <1>14, <3>1, <3>2
  <2>2. \A i \in DOMAIN stack' : stack'[i].session \in Attached'
    BY <1>1, <1>3, <1>4, <1>7, <1>9, <1>14 DEF StackInv
  <2>3. \A i, j \in DOMAIN stack' :
          IsStop(i)' /\ IsStop(j)' /\ stack'[i].session = stack'[j].session => i = j
    BY <1>1, <1>7, <1>9, <1>13, <1>14 DEF StackInv
  <2> QED
    BY <2>1, <2>2, <2>3 DEF StackInv
<1>16. CallInv'
  <2>1. \A q : OnStack(q)' <=> OnStack(q) \/ q = r
    <3>1. ASSUME NEW q, OnStack(q)' PROVE OnStack(q) \/ q = r
      <4>1. PICK i \in DOMAIN stack' : IsStop(i)' /\ stack'[i].session = q
        BY <3>1 DEF OnStack
      <4> QED
        BY <1>7, <1>9, <1>14, <4>1 DEF OnStack
    <3>2. ASSUME NEW q, OnStack(q) PROVE OnStack(q)'
      <4>1. PICK i \in 1 .. L : IsStop(i) /\ stack[i].session = q
        BY <1>8, <3>2 DEF OnStack
      <4>2. i \in DOMAIN stack' /\ IsStop(i)' /\ stack'[i].session = q
        BY <1>8, <1>9, <1>14, <4>1
      <4> QED
        BY <4>2 DEF OnStack
    <3>3. OnStack(r)'
      <4>1. L + 1 \in DOMAIN stack' /\ stack'[L + 1].session = r
        BY <1>7, <1>8, <1>9
      <4> QED
        BY <1>14, <4>1 DEF OnStack
    <3> QED
      BY <3>1, <3>2, <3>3
  <2>2. ASSUME NEW s \in Attached
        PROVE  /\ s \in sid_map <=> stopper'[s] = None \/ OnStack(stopper[s])'
               /\ stopper'[s] = None => stops[s] = 0
               /\ stopper'[s] # None /\ ~ OnStack(stopper[s])' => stops[s] = 1
    <3> PICK q : q = stopper'[s]
      OBVIOUS
    <3>1. OnStack(stopper[s])' <=> OnStack(q) \/ q = r
      <4>1. OnStack(stopper[s])' <=> OnStack(q)'
        BY DEF OnStack, IsStop
      <4> QED
        BY <2>1, <4>1
    <3>2. /\ s \in sid_map <=> stopper[s] = None \/ OnStack(stopper[s])
          /\ stopper[s] = None => stops[s] = 0
          /\ stopper[s] # None /\ ~ OnStack(stopper[s]) => stops[s] = 1
      BY <1>1 DEF CallInv
    <3>3. CASE s \in M
      BY <1>3, <1>4, <1>5, <1>6, <3>1, <3>2, <3>3
    <3>4. CASE s \notin M
      <4>1. q = stopper[s]
        BY <1>4, <1>6, <3>4
      <4>2. q # r
        BY <1>1, <1>3, <4>1 DEF StopperInv
      <4> QED
        BY <3>1, <3>2, <4>1, <4>2
    <3> QED
      BY <3>3, <3>4
  <2>3. ASSUME NEW s \in Attached, NEW i \in DOMAIN stack', IsStop(i)', stack'[i].session = stopper'[s]
        PROVE  stops[s] = 1 <=> Begun(s, i)'
    <3>1. CASE i = L + 1
      <4>1. stopper'[s] = r /\ stack'[i].done = {} /\ ~ (i < Len(stack'))
        BY <1>7, <1>8, <1>9, <2>3, <3>1
      <4>2. s \in M
        BY <1>1, <1>3, <1>4, <1>6, <4>1 DEF StopperInv
      <4>3. stops[s] = 0
        BY <1>1, <1>5, <4>2 DEF CallInv
      <4> QED
        BY <4>1, <4>3 DEF Begun
    <3>2. CASE i \in 1 .. L
      <4>1. /\ IsStop(i) /\ i < L /\ i + 1 \in 1 .. L /\ i \in DOMAIN stack
            /\ stack[i].session # r
        BY <1>13, <1>14, <2>3, <3>2
      <4>2. stack'[i] = stack[i] /\ stack'[i + 1] = stack[i + 1] /\ i < Len(stack')
        BY <1>8, <1>9, <4>1
      <4>3. stack[i].session = stopper[s]
        BY <1>4, <1>6, <2>3, <4>1, <4>2
      <4>4. stops[s] = 1 <=> Begun(s, i)
        BY <1>1, <4>1, <4>3 DEF CallInv
      <4> QED
        BY <4>1, <4>2, <4>4 DEF Begun
    <3> QED
      BY <1>14, <3>1, <3>2
  <2> QED
    BY <1>1, <1>2, <1>4, <2>2, <2>3 DEF CallInv
<1> QED
  BY <1>1, <1>2, <1>10, <1>11, <1>12, <1>15, <1>16, KeptTree DEF IndInv

LEMMA DescendantsNext ==
    ASSUME children' \in [Nodes -> Seq(Sessions)], NEW s \in Nodes
    PROVE  /\ s \in Descendants(s)' /\ Descendants(s)' \subseteq Nodes
           /\ \A m \in Descendants(s)' : Kids(m)' \subseteq Descendants(s)'
           /\ \A X \in SUBSET Nodes :
                 s \in X /\ (\A m \in X : Kids(m)' \subseteq X) => Descendants(s)' \subseteq X
<1>1. \A m \in Nodes : Kids(m)' \subseteq Nodes
  BY DEF Kids, ToSet, Nodes
<1>2. Descendants(s)' = {n \in Nodes : \A X \in SUBSET Nodes :
        s \in X /\ (\A m \in X : Kids(m)' \cap Nodes \subseteq X) => n \in X}
  BY DEF Descendants, Reached
<1>3. s \in Descendants(s)' /\ Descendants(s)' \subseteq Nodes
  BY <1>2
<1>4. \A m \in Descendants(s)' : Kids(m)' \subseteq Descendants(s)'
  BY <1>1, <1>2
<1>5. ASSUME NEW X \in SUBSET Nodes, s \in X, \A m \in X : Kids(m)' \subseteq X
      PROVE  Descendants(s)' \subseteq X
  BY <1>2, <1>5
<1> QED
  BY <1>3, <1>4, <1>5

(* A session is attached below one that is not stopped; it is not part of   *)
(* anything that is stopped or about to be deleted.                         *)
LEMMA AttachInv ==
    ASSUME SessionTreeAssumption, IndInv, NEW s \in Sessions, NEW p \in Nodes,
           StartSession(s, p), MayHaveChildren(p)
    PROVE  IndInv'
<1>1. TypeOK /\ TreeInv /\ StopperInv /\ QueueInv /\ StackInv /\ CallInv
  BY DEF IndInv
<1>2. /\ UNCHANGED <<stopper, handlers, alarm, lqueue, pqueue, pending, posting, requests, stops>>
      /\ Running /\ life[s] = "new" /\ life[p] = "attached" /\ stopper[p] = None
      /\ life' = [life EXCEPT ![s] = "attached"]
      /\ parent' = [parent EXCEPT ![s] = p]
      /\ children' = [children EXCEPT ![p] = Append(@, s)]
      /\ sid_map' = sid_map \cup {s}
      /\ stack' = Pushed(Handler(s))
  BY DEF StartSession, MayHaveChildren, queues
<1>3. /\ s \in Nodes /\ s # Kernel /\ p \in Attached /\ s \notin Attached /\ s # p
      /\ Attached \subseteq Nodes /\ Kernel \in Nodes
  BY <1>1, <1>2 DEF TreeInv, Attached, Nodes
<1>4. Attached' = Attached \cup {s}
  BY <1>1, <1>2, <1>3 DEF Attached, TypeOK
<1>5. parent[s] = None /\ p # None /\ stopper[s] = None /\ stops[s] = 0
  BY <1>1, <1>2, <1>3 DEF TreeInv, StopperInv, SessionTreeAssumption, Nodes
<1>6. \A n \in Nodes : parent'[n] = IF n = s THEN p ELSE parent[n]
  BY <1>1, <1>2, <1>3 DEF TypeOK
<1>7. /\ children' \in [Nodes -> Seq(Sessions)]
      /\ \A n \in Nodes : Kids(n)' = IF n = p THEN Kids(n) \cup {s} ELSE Kids(n)
  <2>1. \A n \in Nodes : children[n] \in Seq(Sessions)
    BY <1>1 DEF TypeOK
  <2>2. \A n \in Nodes : children'[n] = IF n = p THEN Append(children[p], s) ELSE children[n]
    BY <1>1, <1>2 DEF TypeOK
  <2>3. ToSet(Append(children[p], s)) = ToSet(children[p]) \cup {s}
    BY <2>1, SetAppend
  <2>4. Append(children[p], s) \in Seq(Sessions)
    BY <2>1
  <2>5. children' \in [Nodes -> Seq(Sessions)]
    BY <1>1, <1>2, <2>4 DEF TypeOK
  <2> QED
    BY <2>2, <2>3, <2>5 DEF Kids
<1>8. \A n \in Nodes : s \notin Kids(n)
  BY <1>1, <1>3, ChildAttached
<1>9. TypeOK'
  <2>1. life' \in [Nodes -> {"new", "attached", "deleted"}]
    BY <1>1, <1>2 DEF TypeOK
  <2>2. parent' \in [Nodes -> Nodes \cup {None}]
    BY <1>1, <1>2 DEF TypeOK
  <2>3. sid_map' \subseteq Attached'
    BY <1>1, <1>2, <1>4 DEF TypeOK
  <2>4. stack' \in Seq(Frames)
    BY <1>1, <1>2, <1>3, FrameType, StackPush
  <2> QED
    BY <1>1, <1>2, <1>7, <2>1, <2>2, <2>3, <2>4, TypesAre DEF Types
<1>10. TreeInv'
  <2>1. \A c, n \in Nodes : c \in Kids(n)' <=> parent'[c] = n
    <3> SUFFICES ASSUME NEW c \in Nodes, NEW n \in Nodes PROVE c \in Kids(n)' <=> parent'[c] = n
      OBVIOUS
    <3>1. c \in Kids(n) <=> parent[c] = n
      BY <1>1 DEF TreeInv
    <3> QED
      BY <1>3, <1>5, <1>6, <1>7, <1>8, <3>1
  <2>2. \A n \in Sessions : IF n \in Attached' THEN parent'[n] \in Attached' ELSE parent'[n] = None
    <3> SUFFICES ASSUME NEW n \in Sessions
                 PROVE  IF n \in Attached' THEN parent'[n] \in Attached' ELSE parent'[n] = None
      OBVIOUS
    <3>1. IF n \in Attached THEN parent[n] \in Attached ELSE parent[n] = None
      BY <1>1 DEF TreeInv
    <3> QED
      BY <1>3, <1>4, <1>6, <3>1 DEF Nodes
  <2>3. life'[Kernel] = "attached" /\ parent'[Kernel] = None
    BY <1>1, <1>2, <1>3, <1>6 DEF TreeInv, TypeOK
  <2>4. Attached' \subseteq Descendants(Kernel)'
    <3> PICK R : R = Descendants(Kernel)'
      OBVIOUS
    <3> DEFINE B == Attached \ R
    <3>1. Kernel \in R /\ R \subseteq Nodes /\ \A m \in R : Kids(m)' \subseteq R
      BY <1>3, <1>7, DescendantsNext
    <3>2. ASSUME NEW n \in B PROVE n # Kernel /\ parent[n] \in B
      <4>1. n # Kernel /\ n \in Sessions /\ n \in Nodes /\ n # s
        BY <1>3, <3>1 DEF Nodes
      <4>2. parent[n] \in Attached /\ n \in Kids(parent[n])
        BY <1>1, <1>3, <4>1 DEF TreeInv
      <4>3. parent[n] \notin R
        BY <1>3, <1>7, <3>1, <4>2
      <4> QED
        BY <4>1, <4>2, <4>3
    <3>3. B = {}
      <4> HIDE DEF B
      <4>1. B \in SUBSET Attached
        BY DEF B
      <4> QED
        BY <1>1, <3>2, <4>1, Upwards
    <3>4. s \in R
      <4>1. p \in R
        BY <1>3, <3>3
      <4> QED
        BY <1>3, <1>7, <3>1, <4>1
    <3> QED
      BY <1>4, <3>3, <3>4
  <2> QED
    BY <2>1, <2>2, <2>3, <2>4 DEF TreeInv
<1>11. StopperInv'
  <2>1. \A n \in Nodes : life'[n] = "new" => life[n] = "new"
    BY <1>1, <1>2, <1>3 DEF TypeOK
  <2>2. ASSUME NEW n \in Attached', stopper[n] # None
        PROVE  /\ stopper[n] \in Attached' /\ stopper[stopper[n]] = stopper[n]
               /\ n = stopper[n] \/ stopper[parent'[n]] = stopper[n]
    BY <1>1, <1>3, <1>4, <1>5, <1>6, <2>2 DEF StopperInv
  <2>3. ASSUME NEW n \in Attached' \ {Kernel}, stopper[parent'[n]] # None
        PROVE  stopper[n] # None
    BY <1>1, <1>2, <1>3, <1>4, <1>6, <2>3 DEF StopperInv
  <2> QED
    BY <1>1, <1>2, <2>1, <2>2, <2>3 DEF StopperInv
<1>12. QueueInv'
  <2>1. Shared' = Shared /\ UNCHANGED <<stopper, lqueue, posting, alarm>>
    BY <1>2 DEF Shared
  <2>2. \A n : ~ Marked(n) /\ ~ Marked(n)'
    BY <1>1, <1>2, <1>3, MarkedPush DEF Running
  <2>3. ASSUME NEW d \in ToSet(Shared), d.type = "delete"
        PROVE  Descendants(d.session)' \subseteq Descendants(d.session)
    <3> PICK r : r = d.session
      OBVIOUS
    <3>1. r \in Nodes
      BY <1>1, <1>3 DEF QueueInv
    <3>2. p \notin Descendants(r)
      BY <1>1, <1>2, <1>3, <2>3, NotDeleted
    <3>3. /\ r \in Descendants(r) /\ Descendants(r) \subseteq Nodes
          /\ \A m \in Descendants(r) : Kids(m) \subseteq Descendants(r)
      BY <1>1, <3>1, DescendantsClosed
    <3>4. \A m \in Descendants(r) : Kids(m)' \subseteq Descendants(r)
      BY <1>7, <3>2, <3>3
    <3>5. Descendants(r)' \subseteq Descendants(r)
      <4> PICK X : X = Descendants(r)
        OBVIOUS
      <4>1. r \in X /\ X \in SUBSET Nodes /\ \A m \in X : Kids(m)' \subseteq X
        BY <3>3, <3>4
      <4> QED
        BY <1>7, <3>1, <4>1, DescendantsNext
    <3> QED
      BY <3>5
  <2>4. \A d, e \in ToSet(Shared') : d.type = "delete" /\ Before(Shared', d, e) =>
            e.session \notin Descendants(d.session)'
    BY <1>1, <2>1, <2>3 DEF QueueInv
  <2>5. \A n \in Attached' : stopper'[n] = n <=> Event("delete", n) \in ToSet(Shared') \/ Marked(n)'
    <3>1. \A n \in Attached : stopper[n] = n <=> Event("delete", n) \in ToSet(Shared)
      BY <1>1, <2>2 DEF QueueInv
    <3>2. s # None /\ Event("delete", s) \notin ToSet(Shared)
      <4>1. Event("delete", s).session = s
        BY DEF Event
      <4> QED
        BY <1>1, <1>3, <4>1 DEF QueueInv, SessionTreeAssumption
    <3> QED
      BY <1>4, <1>5, <2>1, <2>2, <3>1, <3>2
  <2>6. /\ \A e \in ToSet(lqueue') : e.type = "msg" /\ e.session \in Attached'
        /\ \A e \in ToSet(Shared') : e.session \in Attached'
        /\ \A n \in Nodes : alarm'[n] # "none" => n \in Attached'
        /\ \A o \in Posters : posting'[o] # None =>
            posting'[o] \in Attached' /\ stopper'[posting'[o]] = None
    BY <1>1, <1>4, <2>1 DEF QueueInv
  <2> QED
    BY <2>2, <2>4, <2>5, <2>6 DEF QueueInv
<1>13. StackInv' /\ CallInv'
  <2>1. \A m \in Attached : stopper[m] # None => Kids(m)' = Kids(m)
    BY <1>2, <1>3, <1>7
  <2>2. \A n \in Attached' : \/ n \in Attached /\ (n \in sid_map' <=> n \in sid_map)
                             \/ n \in sid_map' /\ stopper[n] = None /\ stops[n] = 0
    BY <1>2, <1>4, <1>5
  <2> QED
    BY <1>1, <1>2, <1>3, <1>4, <2>1, <2>2, HandlerPush
<1> QED
  BY <1>9, <1>10, <1>11, <1>12, <1>13 DEF IndInv

(* Below a session that is stopped none is attached.                        *)
LEMMA RefuseInv ==
    ASSUME SessionTreeAssumption, IndInv, NEW s \in Sessions, NEW p \in Nodes,
           StartSession(s, p), ~ MayHaveChildren(p)
    PROVE  IndInv'
<1>1. TypeOK /\ TreeInv /\ StopperInv /\ QueueInv /\ StackInv /\ CallInv
  BY DEF IndInv
<1>2. /\ UNCHANGED <<parent, children, stopper, sid_map, handlers, alarm, lqueue, pqueue, pending, posting, requests, stops, stack>>
      /\ life[s] = "new" /\ life' = [life EXCEPT ![s] = "deleted"] /\ s \in Nodes
  BY DEF StartSession, queues, Nodes
<1>3. /\ Attached' = Attached /\ Attached \subseteq Nodes
      /\ \A n \in Nodes : life'[n] = "new" => life[n] = "new"
  BY <1>1, <1>2 DEF Attached, TypeOK
<1>4. /\ \A n \in Nodes : Kids(n)' = Kids(n) /\ Descendants(n)' = Descendants(n)
      /\ Shared' = Shared /\ \A n \in Nodes : Marked(n)' = Marked(n)
  BY <1>2, SameDescendants DEF Shared, Marked, Top, Last
<1>5. TypeOK'
  <2>1. life' \in [Nodes -> {"new", "attached", "deleted"}]
    BY <1>1, <1>2 DEF TypeOK
  <2> QED
    BY <1>1, <1>2, <1>3, <2>1, TypesAre DEF Types
<1>6. TreeInv'
  <2>1. s # Kernel
    BY DEF SessionTreeAssumption
  <2>2. Kernel \in Nodes
    BY DEF Nodes
  <2>3. life'[Kernel] = "attached"
    BY <1>1, <1>2, <2>1, <2>2 DEF TreeInv, TypeOK
  <2>4. /\ \A c, n \in Nodes : c \in Kids(n)' <=> parent'[c] = n
        /\ Attached' \subseteq Descendants(Kernel)'
    BY <1>1, <1>2, <1>3, <1>4, <2>2 DEF TreeInv
  <2> QED
    BY <1>1, <1>2, <1>3, <2>3, <2>4 DEF TreeInv
<1>7. StopperInv'
  BY <1>1, <1>2, <1>3 DEF StopperInv
<1>8. QueueInv'
  <2>1. \A d, e \in ToSet(Shared') : d.type = "delete" /\ Before(Shared', d, e) =>
            e.session \notin Descendants(d.session)'
    BY <1>1, <1>3, <1>4 DEF QueueInv
  <2>2. \A n \in Attached' : Marked(n)' =>
            \A d \in ToSet(Shared') : d.type = "delete" => n \notin Descendants(d.session)'
    BY <1>1, <1>3, <1>4 DEF QueueInv
  <2>3. \A n \in Attached' : stopper'[n] = n <=> Event("delete", n) \in ToSet(Shared') \/ Marked(n)'
    BY <1>1, <1>2, <1>3, <1>4 DEF QueueInv
  <2>4. /\ \A e \in ToSet(lqueue') : e.type = "msg" /\ e.session \in Attached'
        /\ \A e \in ToSet(Shared') : e.session \in Attached'
        /\ \A n \in Nodes : alarm'[n] # "none" => n \in Attached'
        /\ \A o \in Posters : posting'[o] # None =>
            posting'[o] \in Attached' /\ stopper'[posting'[o]] = None
    BY <1>1, <1>2, <1>3, <1>4 DEF QueueInv
  <2> QED
    BY <2>1, <2>2, <2>3, <2>4 DEF QueueInv
<1>9. StackInv'
  BY <1>1, <1>2, <1>3 DEF StackInv, StopFrame, IsStop, Kids
<1>10. CallInv'
  BY <1>1, <1>2, <1>3 DEF CallInv, OnStack, IsStop, Begun
<1> QED
  BY <1>5, <1>6, <1>7, <1>8, <1>9, <1>10 DEF IndInv

(* When a tree is deleted its event is the first, no stop is on the stack,  *)
(* the tree is what has its root for a stopper - every tree inside it that  *)
(* was stopped before has been deleted before - and nothing that is queued  *)
(* or posted is for it.                                                     *)
LEMMA DeletedTree ==
    ASSUME SessionTreeAssumption, IndInv, HasEvent("delete")
    PROVE  \E r \in Sessions \cap Attached :
              /\ r = NextEvent.session /\ stopper[r] = r
              /\ stack = <<>> /\ lqueue = <<>> /\ RestQueued = Tail(pqueue)
              /\ Tail(pqueue) \in Seq(Events)
              /\ pqueue = <<Event("delete", r)>> \o Tail(pqueue)
              /\ ToSet(pqueue) = {Event("delete", r)} \cup ToSet(Tail(pqueue))
              /\ \A a, b : Before(Tail(pqueue), a, b) => Before(pqueue, a, b)
              /\ Descendants(r) = {s \in Attached : stopper[s] = r}
              /\ \A e \in ToSet(Tail(pqueue)) \cup ToSet(pending) : e.session \notin Descendants(r)
              /\ \A n \in Descendants(r) : stops[n] = 1 /\ n \notin sid_map
              /\ \A p \in Posters : posting[p] \notin Descendants(r)
<1>1. TypeOK /\ TreeInv /\ StopperInv /\ QueueInv /\ StackInv /\ CallInv
  BY DEF IndInv
<1>2. /\ stack = <<>> /\ lqueue \o pqueue # <<>> /\ NextEvent.type = "delete"
      /\ lqueue \in Seq(Events) /\ pqueue \in Seq(Events) /\ pending \in Seq(Events)
  BY <1>1, QueueTypes DEF HasEvent
<1>3. lqueue = <<>>
  <2> SUFFICES ASSUME lqueue # <<>> PROVE FALSE
    OBVIOUS
  <2>1. Head(lqueue) \in ToSet(lqueue) /\ NextEvent = Head(lqueue)
    BY <1>2, SetFirst DEF NextEvent
  <2> QED
    BY <1>1, <1>2, <2>1 DEF QueueInv
<1>4. pqueue # <<>>
  BY <1>2, <1>3, ConcatEmptySeq
<1> PICK e : e = NextEvent
  OBVIOUS
<1> PICK t : t = Tail(pqueue)
  OBVIOUS
<1>5. e = Head(pqueue) /\ RestQueued = t /\ e.type = "delete"
  BY <1>2, <1>3 DEF NextEvent, RestQueued
<1>6. e \in Events /\ t \in Seq(Events) /\ pqueue = <<e>> \o t
  BY <1>2, <1>4, <1>5, HeadTailProperties, HeadTailConcat
<1>7. /\ ToSet(pqueue) = {e} \cup ToSet(t)
      /\ \A a, b : Before(pqueue, a, b) <=> Before(t, a, b) \/ (a = e /\ b \in ToSet(t))
  BY <1>2, <1>4, <1>5, SetFirst
<1>8. /\ ToSet(Shared) = ToSet(pqueue) \cup ToSet(pending)
      /\ \A a, b : Before(Shared, a, b) <=>
            \/ Before(pqueue, a, b) \/ Before(pending, a, b)
            \/ a \in ToSet(pqueue) /\ b \in ToSet(pending)
  BY <1>2, SetConcat DEF Shared
<1>9. e \in ToSet(Shared)
  BY <1>7, <1>8
<1> PICK r : r = e.session
  OBVIOUS
<1>10. r \in Attached /\ stopper[r] = r /\ e = Event("delete", r) /\ r \in Nodes
  BY <1>1, <1>5, <1>9, DeleteStopped DEF Attached
<1>11. r \in Sessions /\ r # None
  BY <1>1, <1>10 DEF StopperInv, Nodes, SessionTreeAssumption
<1>12. \A b \in ToSet(t) \cup ToSet(pending) : b.session \notin Descendants(r)
  <2> SUFFICES ASSUME NEW b \in ToSet(t) \cup ToSet(pending) PROVE b.session \notin Descendants(r)
    OBVIOUS
  <2>1. Before(Shared, e, b) /\ b \in ToSet(Shared)
    BY <1>7, <1>8
  <2> QED
    BY <1>1, <1>5, <1>9, <2>1 DEF QueueInv
<1>13. \A s : ~ Marked(s)
  BY <1>2 DEF Marked
<1>14. Descendants(r) \subseteq Attached /\ \A n \in Descendants(r) : stopper[n] # None
  BY <1>1, <1>10, <1>11, DescendantsStopped
<1>15. \A n \in Descendants(r) : stopper[n] = r
  <2> DEFINE B == {n \in Descendants(r) : stopper[n] # r}
  <2>1. ASSUME NEW n \in B PROVE n # Kernel /\ parent[n] \in B
    <3>1. /\ n \in Attached /\ n \in Nodes /\ n # r /\ stopper[n] # None /\ stopper[n] # r
      BY <1>10, <1>14 DEF Attached
    <3>2. stopper[n] # n
      <4> SUFFICES ASSUME stopper[n] = n PROVE FALSE
        OBVIOUS
      <4>1. Event("delete", n) \in ToSet(Shared)
        BY <1>1, <1>13, <3>1 DEF QueueInv
      <4>2. Event("delete", n).session = n /\ e.session = r
        BY DEF Event
      <4>3. Event("delete", n) \in ToSet(t) \cup ToSet(pending)
        BY <1>7, <1>8, <3>1, <4>1, <4>2
      <4> QED
        BY <1>12, <4>2, <4>3
    <3>3. stopper[parent[n]] = stopper[n]
      BY <1>1, <3>1, <3>2 DEF StopperInv
    <3>4. PICK m \in Descendants(r) : n \in Kids(m)
      BY <1>10, <3>1, DescendantsVia
    <3>5. parent[n] = m /\ n \in Sessions
      BY <1>1, <1>14, <3>4, ChildAttached DEF Attached
    <3> QED
      BY <3>1, <3>3, <3>4, <3>5 DEF SessionTreeAssumption
  <2>2. B = {}
    <3> HIDE DEF B
    <3>1. B \in SUBSET Attached
      BY <1>14 DEF B
    <3> QED
      BY <1>1, <2>1, <3>1, Upwards
  <2> QED
    BY <2>2
<1>16. Descendants(r) = {s \in Attached : stopper[s] = r}
  <2>1. \A s \in Attached : stopper[s] = r => s \in Descendants(r)
    BY <1>1, <1>11, StopperAbove
  <2> QED
    BY <1>14, <1>15, <2>1
<1>17. \A n \in Descendants(r) : stops[n] = 1 /\ n \notin sid_map
  <2>1. ~ OnStack(r)
    BY <1>2, StackEmpty DEF OnStack
  <2> QED
    BY <1>1, <1>11, <1>16, <2>1 DEF CallInv
<1>18. \A p \in Posters : posting[p] \notin Descendants(r)
  <2>1. None \notin Attached
    BY DEF Attached, Nodes, SessionTreeAssumption
  <2> QED
    BY <1>1, <1>11, <1>16, <2>1 DEF QueueInv
<1>19. r = NextEvent.session /\ stack = <<>> /\ t = Tail(pqueue)
  BY <1>2
<1>20. pqueue = <<Event("delete", r)>> \o t /\ ToSet(pqueue) = {Event("delete", r)} \cup ToSet(t)
  BY <1>6, <1>7, <1>10
<1>21. /\ RestQueued = Tail(pqueue) /\ Tail(pqueue) \in Seq(Events)
       /\ pqueue = <<Event("delete", r)>> \o Tail(pqueue)
       /\ ToSet(pqueue) = {Event("delete", r)} \cup ToSet(Tail(pqueue))
       /\ \A a, b : Before(Tail(pqueue), a, b) => Before(pqueue, a, b)
       /\ \A b \in ToSet(Tail(pqueue)) \cup ToSet(pending) : b.session \notin Descendants(r)
  BY <1>5, <1>6, <1>7, <1>12, <1>19, <1>20
<1>22. stopper[r] = r
  BY <1>10
<1> r \in Sessions \cap Attached
  BY <1>10, <1>11
<1> WITNESS r \in Sessions \cap Attached
<1> QED
  BY <1>3, <1>16, <1>17, <1>18, <1>19, <1>21, <1>22

LEMMA DispatchDeleteInv ==
    ASSUME SessionTreeAssumption, IndInv, DispatchDelete
    PROVE  IndInv'
<1>1. TypeOK /\ TreeInv /\ StopperInv /\ QueueInv /\ StackInv /\ CallInv
  BY DEF IndInv
<1>2. PICK r \in Sessions \cap Attached :
              /\ r = NextEvent.session /\ stopper[r] = r
              /\ stack = <<>> /\ lqueue = <<>> /\ RestQueued = Tail(pqueue)
              /\ Tail(pqueue) \in Seq(Events)
              /\ ToSet(pqueue) = {Event("delete", r)} \cup ToSet(Tail(pqueue))
              /\ \A a, b : Before(Tail(pqueue), a, b) => Before(pqueue, a, b)
              /\ Descendants(r) = {s \in Attached : stopper[s] = r}
              /\ \A e \in ToSet(Tail(pqueue)) \cup ToSet(pending) : e.session \notin Descendants(r)
              /\ \A n \in Descendants(r) : stops[n] = 1 /\ n \notin sid_map
              /\ \A p \in Posters : posting[p] \notin Descendants(r)
  BY DeletedTree DEF DispatchDelete, Destroyed
<1> PICK gone : gone = Descendants(r)
  OBVIOUS
<1>3. /\ pqueue' = Without(Tail(pqueue), gone)
      /\ life' = [s \in Nodes |-> IF s \in gone THEN "deleted" ELSE life[s]]
      /\ parent' = [s \in Nodes |-> IF s \in gone THEN None ELSE parent[s]]
      /\ children' = [s \in Nodes |-> IF s \in gone THEN <<>>
                                      ELSE Keep(children[s], Sessions \ {r})]
      /\ alarm' = [s \in Nodes |-> IF s \in gone THEN "none" ELSE alarm[s]]
      /\ UNCHANGED <<stopper, sid_map, handlers, pending, stack, posting, requests, stops, lqueue>>
  BY <1>2 DEF DispatchDelete, Destroyed, local
<1>4. /\ r \in Nodes /\ r \in gone /\ gone \subseteq Attached /\ Attached \subseteq Nodes
      /\ gone = {s \in Attached : stopper[s] = r} /\ r # None
      /\ gone \subseteq Sessions /\ Kernel \notin gone /\ Kernel \in Nodes
      /\ \A m \in gone : Kids(m) \subseteq gone
  <2>1. r \in Nodes /\ r # None
    BY DEF Nodes, SessionTreeAssumption
  <2>2. r \in gone /\ \A m \in gone : Kids(m) \subseteq gone
    BY <1>1, <2>1, DescendantsClosed
  <2>3. gone \subseteq Sessions
    BY <1>1, KernelAboveAll
  <2> QED
    BY <1>2, <2>1, <2>2, <2>3 DEF Attached, Nodes, SessionTreeAssumption
<1>5. Attached' = Attached \ gone
  BY <1>1, <1>3, <1>4 DEF Attached, TypeOK
<1>6. \A s \in Nodes : /\ parent'[s] = IF s \in gone THEN None ELSE parent[s]
                       /\ alarm'[s] = IF s \in gone THEN "none" ELSE alarm[s]
  BY <1>3
<1>7. /\ children' \in [Nodes -> Seq(Sessions)]
      /\ \A n \in Nodes : Kids(n)' = IF n \in gone THEN {} ELSE Kids(n) \ {r}
  <2>1. \A n \in Nodes : /\ children[n] \in Seq(Sessions)
                         /\ Keep(children[n], Sessions \ {r}) \in Seq(Sessions)
                         /\ ToSet(Keep(children[n], Sessions \ {r})) = Kids(n) \cap (Sessions \ {r})
                         /\ Kids(n) \subseteq Sessions
    <3> SUFFICES ASSUME NEW n \in Nodes
                 PROVE  /\ children[n] \in Seq(Sessions)
                        /\ Keep(children[n], Sessions \ {r}) \in Seq(Sessions)
                        /\ ToSet(Keep(children[n], Sessions \ {r})) = Kids(n) \cap (Sessions \ {r})
                        /\ Kids(n) \subseteq Sessions
      OBVIOUS
    <3>1. children[n] \in Seq(Sessions)
      BY <1>1 DEF TypeOK
    <3> QED
      BY <3>1, KeepIsSeq, SetKeep, SetIsOf DEF Kids
  <2>2. <<>> \in Seq(Sessions)
    BY EmptySeq
  <2>3. \A n \in Nodes : children'[n] = IF n \in gone THEN <<>>
                                        ELSE Keep(children[n], Sessions \ {r})
    BY <1>3
  <2>4. children' \in [Nodes -> Seq(Sessions)]
    BY <1>3, <2>1, <2>2
  <2>5. \A n \in Nodes : Kids(n)' = ToSet(children'[n])
    BY DEF Kids
  <2> QED
    BY <2>1, <2>3, <2>4, <2>5, SetEmpty
<1>8. \A n \in Nodes \ gone : \A c \in Kids(n) : c \in gone => c = r
  <2> SUFFICES ASSUME NEW n \in Nodes \ gone, NEW c \in Kids(n), c \in gone, c # r PROVE FALSE
    OBVIOUS
  <2>1. PICK m \in gone : c \in Kids(m)
    BY <1>4, DescendantsVia
  <2>2. parent[c] = n /\ parent[c] = m
    BY <1>1, <1>4, <2>1, ChildAttached
  <2> QED
    BY <2>1, <2>2
<1>9. /\ pqueue' \in Seq(Events)
      /\ \A e : e \in ToSet(pqueue') <=>
            e \in ToSet(Tail(pqueue)) /\ ~ (e.type = "alarm" /\ e.session \in gone)
      /\ \A a, b : Before(pqueue', a, b) => Before(Tail(pqueue), a, b)
  BY <1>2, <1>3, WithoutIs
<1>10. TypeOK'
  <2>1. life' \in [Nodes -> {"new", "attached", "deleted"}]
    BY <1>1, <1>3 DEF TypeOK
  <2>2. parent' \in [Nodes -> Nodes \cup {None}]
    BY <1>1, <1>3 DEF TypeOK
  <2>3. alarm' \in [Nodes -> {"none", "waiting", "queued", "dispatched"}]
    BY <1>1, <1>3 DEF TypeOK
  <2>4. sid_map' \subseteq Attached'
    BY <1>1, <1>2, <1>3, <1>5 DEF TypeOK
  <2> QED
    BY <1>1, <1>3, <1>7, <1>9, <2>1, <2>2, <2>3, <2>4, TypesAre DEF Types
<1>11. TreeInv'
  <2>1. ASSUME NEW c \in Nodes, NEW n \in Nodes PROVE c \in Kids(n)' <=> parent'[c] = n
    <3>1. c \in Kids(n) <=> parent[c] = n
      BY <1>1 DEF TreeInv
    <3>2. n # None
      BY DEF Nodes, SessionTreeAssumption
    <3> QED
      BY <1>4, <1>6, <1>7, <1>8, <3>1, <3>2
  <2>2. ASSUME NEW n \in Sessions
        PROVE  IF n \in Attached' THEN parent'[n] \in Attached' ELSE parent'[n] = None
    <3>1. n \in Nodes /\ IF n \in Attached THEN parent[n] \in Attached ELSE parent[n] = None
      BY <1>1 DEF TreeInv, Nodes
    <3>2. n \in Attached => n \in Kids(parent[n])
      BY <1>1, <1>4, <3>1 DEF TreeInv
    <3> QED
      BY <1>4, <1>5, <1>6, <3>1, <3>2
  <2>3. life'[Kernel] = "attached" /\ parent'[Kernel] = None
    BY <1>1, <1>3, <1>4, <1>6 DEF TreeInv
  <2>4. Attached' \subseteq Descendants(Kernel)'
    <3> PICK R : R = Descendants(Kernel)'
      OBVIOUS
    <3> DEFINE B == Attached' \ R
    <3>1. Kernel \in R /\ R \subseteq Nodes /\ \A m \in R : Kids(m)' \subseteq R
      BY <1>4, <1>7, DescendantsNext
    <3>2. ASSUME NEW n \in B PROVE n # Kernel /\ parent[n] \in B
      <4>1. n # Kernel /\ n \in Sessions /\ n \in Nodes /\ n \notin gone /\ n # r
        BY <1>4, <1>5, <3>1 DEF Nodes
      <4>2. parent[n] \in Attached /\ n \in Kids(parent[n])
        BY <1>1, <1>4, <1>5, <4>1 DEF TreeInv
      <4>3. parent[n] \notin gone
        BY <1>4, <4>1, <4>2
      <4>4. parent[n] \notin R
        BY <1>4, <1>7, <3>1, <4>1, <4>2, <4>3
      <4> QED
        BY <1>5, <4>1, <4>2, <4>3, <4>4
    <3>3. B = {}
      <4> PICK C : C = B
        OBVIOUS
      <4>1. C \in SUBSET Attached /\ \A n \in C : n # Kernel /\ parent[n] \in C
        BY <1>5, <3>2
      <4> HIDE DEF B
      <4>2. C = {}
        BY <1>1, <4>1, Upwards
      <4> QED
        BY <4>2
    <3> QED
      BY <3>3
  <2> QED
    BY <2>1, <2>2, <2>3, <2>4 DEF TreeInv
<1>12. StopperInv'
  <2>1. \A n \in Nodes : life'[n] = "new" => life[n] = "new"
    BY <1>3
  <2>2. ASSUME NEW n \in Attached', stopper[n] # None
        PROVE  /\ stopper[n] \in Attached' /\ stopper[stopper[n]] = stopper[n]
               /\ n = stopper[n] \/ stopper[parent'[n]] = stopper[n]
    <3>1. /\ stopper[n] \in Attached /\ stopper[stopper[n]] = stopper[n]
          /\ n = stopper[n] \/ stopper[parent[n]] = stopper[n]
          /\ n \in Nodes /\ n \notin gone /\ stopper[n] # r
      BY <1>1, <1>4, <1>5, <2>2 DEF StopperInv
    <3>2. stopper[n] \notin gone
      BY <1>4, <3>1
    <3> QED
      BY <1>5, <1>6, <3>1, <3>2
  <2>3. ASSUME NEW n \in Attached' \ {Kernel}, stopper[parent'[n]] # None
        PROVE  stopper[n] # None
    BY <1>1, <1>4, <1>5, <1>6, <2>3 DEF StopperInv
  <2> QED
    BY <1>1, <1>3, <2>1, <2>2, <2>3 DEF StopperInv
<1>13. QueueInv'
  <2>1. \A n : ~ Marked(n) /\ ~ Marked(n)'
    BY <1>2, <1>3 DEF Marked
  <2>2. /\ ToSet(Shared') \subseteq ToSet(Shared)
        /\ \A a, b : Before(Shared', a, b) => Before(Shared, a, b)
        /\ ToSet(Shared') = ToSet(pqueue') \cup ToSet(pending)
        /\ ToSet(Shared) = ToSet(pqueue) \cup ToSet(pending)
    <3>1. /\ ToSet(pqueue') \subseteq ToSet(pqueue)
          /\ \A a, b : Before(pqueue', a, b) => Before(pqueue, a, b)
      BY <1>2, <1>9
    <3> QED
      BY <1>1, <1>3, <1>9, <3>1, SharedLess
  <2>3. \A e \in ToSet(Shared') : e.session \in Attached' /\ e \in ToSet(Shared)
    BY <1>1, <1>2, <1>5, <1>9, <2>2 DEF QueueInv
  <2>4. \A n \in Nodes \ gone : Descendants(n)' \subseteq Descendants(n)
    <3> SUFFICES ASSUME NEW n \in Nodes \ gone PROVE Descendants(n)' \subseteq Descendants(n)
      OBVIOUS
    <3> PICK X : X = Descendants(n)
      OBVIOUS
    <3>1. n \in X /\ X \in SUBSET Nodes /\ \A m \in X : Kids(m)' \subseteq X
      BY <1>1, <1>7, DescendantsClosed
    <3> QED
      BY <1>7, <3>1, DescendantsNext
  <2>5. ASSUME NEW d \in ToSet(Shared'), NEW e \in ToSet(Shared'),
               d.type = "delete", Before(Shared', d, e)
        PROVE  e.session \notin Descendants(d.session)'
    <3>1. d.session \in Nodes \ gone /\ e.session \notin Descendants(d.session)
      BY <1>1, <1>4, <1>5, <2>2, <2>3, <2>5 DEF QueueInv
    <3> QED
      BY <2>4, <3>1
  <2>6. ASSUME NEW n \in Attached'
        PROVE  stopper'[n] = n <=> Event("delete", n) \in ToSet(Shared') \/ Marked(n)'
    <3>1. n \in Attached /\ n # r
      BY <1>4, <1>5
    <3>2. stopper[n] = n <=> Event("delete", n) \in ToSet(Shared)
      BY <1>1, <2>1, <3>1 DEF QueueInv
    <3>3. /\ Event("delete", n).type = "delete" /\ Event("delete", n).session = n
          /\ Event("delete", r).session = r
      BY DEF Event
    <3>4. Event("delete", n) # Event("delete", r)
      BY <3>1, <3>3
    <3>5. Event("delete", n) \in ToSet(Shared) <=> Event("delete", n) \in ToSet(Shared')
      BY <1>2, <1>9, <2>2, <3>3, <3>4
    <3> QED
      BY <1>3, <2>1, <3>2, <3>5
  <2>7. \A p \in Posters : posting'[p] # None =>
            posting'[p] \in Attached' /\ stopper'[posting'[p]] = None
    BY <1>1, <1>2, <1>3, <1>5 DEF QueueInv
  <2>8. \A n \in Nodes : alarm'[n] # "none" => n \in Attached'
    BY <1>1, <1>5, <1>6 DEF QueueInv
  <2>9. \A e \in ToSet(lqueue') : e.type = "msg" /\ e.session \in Attached'
    BY <1>2, <1>3, SetEmpty
  <2> QED
    BY <2>1, <2>3, <2>5, <2>6, <2>7, <2>8, <2>9 DEF QueueInv
<1>14. StackInv'
  BY <1>2, <1>3, StackEmpty DEF StackInv
<1>15. CallInv'
  <2>1. \A q : OnStack(q)' = OnStack(q)
    BY <1>3 DEF OnStack, IsStop
  <2>2. DOMAIN stack' = {}
    BY <1>2, <1>3, StackEmpty
  <2>3. \A n \in Attached : OnStack(stopper[n])' = OnStack(stopper[n])
    BY <1>3 DEF OnStack, IsStop
  <2> QED
    BY <1>1, <1>3, <1>5, <2>2, <2>3 DEF CallInv
<1> QED
  BY <1>10, <1>11, <1>12, <1>13, <1>14, <1>15 DEF IndInv
-----------------------------------------------------------------------------
LEMMA InitInv == ASSUME SessionTreeAssumption, Init PROVE IndInv
<1>1. /\ Attached = {Kernel} /\ Kernel \in Nodes /\ None \notin Nodes
      /\ \A n \in Nodes : n # Kernel => n \in Sessions
  BY DEF SessionTreeAssumption, Init, Attached, Nodes
<1>2. /\ lqueue = <<>> /\ pqueue = <<>> /\ pending = <<>>
      /\ \A n \in Nodes : children[n] = <<>> /\ parent[n] = None /\ stopper[n] = None
                          /\ stops[n] = 0 /\ alarm[n] = "none"
      /\ sid_map = {Kernel}
      /\ \A p \in Posters : posting[p] = None
  BY DEF Init
<1>3. \A n \in Nodes : Kids(n) = {}
  BY <1>2, SetEmpty DEF Kids
<1>4. /\ stack = <<Handler(Kernel)>> /\ Len(stack) = 1 /\ DOMAIN stack = {1}
      /\ stack[1].type = "handler" /\ stack[1].session = Kernel /\ stack[1].done = {}
  BY DEF Init, Handler
<1>5. TypeOK
  <2>1. /\ \A S : <<>> \in Seq(S)
        /\ \A S, e : e \in S => <<e>> \in Seq(S)
    BY EmptySeq
  <2>2. Handler(Kernel) \in [type : {"handler", "marked", "calling"}, session : Nodes, done : SUBSET Sessions]
    BY <1>1 DEF Handler
  <2>3. stack \in Seq([type : {"handler", "marked", "calling"}, session : Nodes, done : SUBSET Sessions])
    BY <1>4, <2>1, <2>2
  <2>4. /\ life \in [Nodes -> {"new", "attached", "deleted"}]
        /\ parent \in [Nodes -> Nodes \cup {None}]
        /\ children \in [Nodes -> Seq(Sessions)]
        /\ stopper \in [Nodes -> Sessions \cup {None}]
        /\ alarm \in [Nodes -> {"none", "waiting", "queued", "dispatched"}]
        /\ posting \in [Posters -> Nodes \cup {None}]
        /\ stops \in [Nodes -> Nat]
    BY <2>1 DEF Init
  <2>5. sid_map \subseteq Attached /\ handlers \subseteq Nodes /\ requests \in 0..MaxRequests
    BY <1>1, <1>2 DEF Init, SessionTreeAssumption
  <2> QED
    BY <1>2, <2>1, <2>3, <2>4, <2>5 DEF TypeOK
<1>6. TreeInv
  <2>1. Kernel \in Descendants(Kernel)
    BY <1>1, <1>5, DescendantsClosed
  <2>2. life[Kernel] = "attached"
    BY <1>1 DEF Init
  <2> QED
    BY <1>1, <1>2, <1>3, <2>1, <2>2 DEF TreeInv, SessionTreeAssumption, Nodes
<1>7. StopperInv
  BY <1>1, <1>2 DEF StopperInv, Attached
<1>8. QueueInv
  <2>1. Shared = <<>>
    BY <1>2 DEF Shared
  <2>2. \A s : ~ Marked(s)
    BY <1>4 DEF Marked, Top, Last
  <2>3. \A s \in Attached : stopper[s] # s
    BY <1>1, <1>2
  <2> QED
    BY <1>2, <2>1, <2>2, <2>3, SetEmpty DEF QueueInv
<1>9. StackInv
  BY <1>1, <1>4 DEF StackInv, IsStop
<1>10. CallInv
  BY <1>1, <1>2, <1>4 DEF CallInv, OnStack, IsStop
<1> QED
  BY <1>5, <1>6, <1>7, <1>8, <1>9, <1>10 DEF IndInv

LEMMA SameInv == ASSUME SessionTreeAssumption, IndInv, UNCHANGED vars PROVE IndInv'
<1>1. UNCHANGED <<life, parent, children, stopper, sid_map, handlers, alarm, lqueue, pqueue,
                  pending, stack, posting, requests, stops>>
  BY DEF vars, tree, local, queues
<1>2. \A n \in Nodes : Kids(n)' = Kids(n) /\ Descendants(n)' = Descendants(n)
  BY <1>1, SameDescendants
<1>3. /\ Attached' = Attached /\ Shared' = Shared /\ Attached \subseteq Nodes
      /\ \A n : Marked(n)' <=> Marked(n)
  BY <1>1 DEF Attached, Shared, Marked, Top, Last
<1>4. TypeOK'
  BY <1>1 DEF IndInv, TypeOK, Attached
<1>5. TreeInv'
  <2>1. Kernel \in Nodes
    BY DEF Nodes
  <2> QED
    BY <1>1, <1>2, <1>3, <2>1 DEF IndInv, TreeInv
<1>6. StopperInv'
  BY <1>1, <1>3 DEF IndInv, StopperInv
<1>7. QueueInv'
  <2>1. \A e \in ToSet(Shared) : e.session \in Nodes
    BY <1>3 DEF IndInv, QueueInv
  <2> QED
    BY <1>1, <1>2, <1>3, <2>1 DEF IndInv, QueueInv
<1>8. StackInv'
  BY <1>1, <1>3 DEF IndInv, StackInv, StopFrame, IsStop, Kids
<1>9. CallInv'
  BY <1>1, <1>3 DEF IndInv, CallInv, OnStack, IsStop, Begun
<1> QED
  BY <1>4, <1>5, <1>6, <1>7, <1>8, <1>9 DEF IndInv

LEMMA NextInv == ASSUME SessionTreeAssumption, IndInv, Next PROVE IndInv'
<1>1. ASSUME NEW s \in Sessions, NEW p \in Nodes, StartSession(s, p) PROVE IndInv'
  BY <1>1, AttachInv, RefuseInv
<1>2. ASSUME NEW r \in Sessions, StopSession(r) PROVE IndInv'
  BY <1>2, StopSessionInv
<1>3. ASSUME NEW n \in Nodes, PostLocal(n) PROVE IndInv'
  BY <1>3, PostLocalInv
<1>4. ASSUME NEW n \in Nodes, Call(n) PROVE IndInv'
  BY <1>4, CallInvariant
<1>5. ASSUME NEW p \in Posters, EnqueueEvent(p) PROVE IndInv'
  BY <1>5, EnqueueEventInv
<1>6. ASSUME NEW p \in Posters, NEW n \in Nodes, FindTarget(p, n) PROVE IndInv'
  BY <1>6, FindTargetInv
<1> QED
  BY <1>1, <1>2, <1>3, <1>4, <1>5, <1>6, YieldInv, StateInv, CreateAlarmInv, DeleteAlarmInv,
     QueueDeleteInv, CallStopInv, RemoveSidsInv, HandlerReturnInv,
     DispatchMsgInv, DispatchAlarmInv, DispatchDeleteInv, CollectInv
  DEF Next, UserCode, StopTree, Loop
-----------------------------------------------------------------------------
(* The invariant of the tree, the stoppers, the queues, the stack and the   *)
(* calls holds at all times: every operation of the kernel's thread and of  *)
(* the posting threads preserves it.                                        *)
THEOREM Invariance == Spec => []IndInv
<1>1. Init => IndInv
  BY InitInv, SessionTreeAssumption
<1>2. IndInv /\ [Next]_vars => IndInv'
  BY NextInv, SameInv, SessionTreeAssumption
<1> QED
  BY <1>1, <1>2, PTL DEF Spec

(* Sessions, queues, alarms and the stack stay within their types.          *)
THEOREM TypeCorrect == Spec => []TypeOK
<1>1. IndInv => TypeOK
  BY DEF IndInv
<1> QED
  BY <1>1, Invariance, PTL
-----------------------------------------------------------------------------
(***************************************************************************)
(* The invariants.                                                         *)
(***************************************************************************)
LEMMA QueuesIs ==
    ASSUME TypeOK, NEW S
    PROVE  /\ Queued = ToSet(lqueue) \cup ToSet(Shared)
           /\ Len(Keep(lqueue \o pqueue \o pending, S)) =
                Len(Keep(lqueue, S)) + Len(Keep(Shared, S))
<1>1. /\ lqueue \in Seq(Events) /\ pqueue \in Seq(Events) /\ pending \in Seq(Events)
      /\ Shared \in Seq(Events)
  BY QueueTypes
<1>2. lqueue \o pqueue \o pending = lqueue \o Shared
  BY <1>1, ConcatAssociative DEF Shared
<1>3. ToSet(lqueue \o Shared) = ToSet(lqueue) \cup ToSet(Shared)
  BY <1>1, SetConcat
<1>4. /\ Keep(lqueue \o Shared, S) = Keep(lqueue, S) \o Keep(Shared, S)
      /\ Keep(lqueue, S) \in Seq(Events) /\ Keep(Shared, S) \in Seq(Events)
  <2>1. Keep(lqueue, S) \in Seq(Events) /\ Keep(Shared, S) \in Seq(Events)
    BY <1>1, KeepIsSeq, Zenon
  <2>2. Keep(lqueue \o Shared, S) = Keep(lqueue, S) \o Keep(Shared, S)
    <3>1. lqueue \in Seq(Events) /\ Shared \in Seq(Events)
      BY <1>1
    <3> HIDE <1>1
    <3> QED
      BY <3>1, KeepConcat
  <2> QED
    BY <2>1, <2>2
<1>5. Len(Keep(lqueue, S) \o Keep(Shared, S)) = Len(Keep(lqueue, S)) + Len(Keep(Shared, S))
  BY <1>4, ConcatProperties
<1> QED
  BY <1>2, <1>3, <1>4, <1>5 DEF Queued

(* A message, an alarm or a delete event never refers to a session that was *)
(* deleted: when destroy() runs, the queues hold nothing for the tree, and  *)
(* no poster has found a session of it.                                     *)
THEOREM NeverDangling == Spec => []NoDanglingEvent
<1>1. IndInv => NoDanglingEvent
  <2> SUFFICES ASSUME IndInv PROVE NoDanglingEvent
    OBVIOUS
  <2>1. Queued = ToSet(lqueue) \cup ToSet(Shared)
    BY QueuesIs DEF IndInv
  <2> QED
    BY <2>1 DEF IndInv, QueueInv, NoDanglingEvent
<1> QED
  BY <1>1, Invariance, PTL

LEMMA DeletionsAre ==
    ASSUME SessionTreeAssumption, IndInv, NEW s \in Attached
    PROVE  Deletions(s) = IF stopper[s] = s THEN 1 ELSE 0
<1> DEFINE d == Event("delete", s)
           frames == {i \in DOMAIN stack : stack[i] = Stop(s, "marked", {})}
<1>1. TypeOK /\ QueueInv /\ StackInv /\ s \in Nodes
  BY DEF IndInv, Attached
<1>2. d \in Events /\ d.type = "delete" /\ d.session = s
  BY <1>1, EventType
<1>3. d \notin ToSet(lqueue) /\ ~ Before(Shared, d, d)
  <2>1. s \in Descendants(s)
    BY <1>1, DescendantsClosed
  <2>2. Before(Shared, d, d) => d \in ToSet(Shared)
    BY DEF Before, ToSet
  <2> QED
    BY <1>1, <1>2, <2>1, <2>2 DEF QueueInv
<1>4. /\ lqueue \in Seq(Events) /\ Shared \in Seq(Events)
  BY <1>1, QueueTypes
<1>5. Deletions(s) = Len(Keep(lqueue, {d})) + Len(Keep(Shared, {d})) + Cardinality(frames)
  BY <1>1, QueuesIs DEF Deletions
<1>6. /\ Len(Keep(lqueue, {d})) = 0
      /\ d \notin ToSet(Shared) => Len(Keep(Shared, {d})) = 0
      /\ d \in ToSet(Shared) => Len(Keep(Shared, {d})) = 1
  <2> HIDE DEF d
  <2> QED
    BY <1>3, <1>4, KeepOnce
<1>7. /\ Marked(s) => frames = {Len(stack)}
      /\ ~ Marked(s) => frames = {}
  <2>1. /\ Stop(s, "marked", {}).type = "marked" /\ Stop(s, "marked", {}).session = s
        /\ Stop(s, "marked", {}).done = {}
    BY DEF Stop
  <2>2. \A i \in frames : i = Len(stack) /\ stack # <<>>
    BY <1>1, <2>1, StackEmpty DEF StackInv, StopFrame, IsStop
  <2>3. \A i \in frames : Marked(s)
    BY <1>1, <2>1, <2>2, StackTop DEF Marked
  <2>4. ASSUME Marked(s) PROVE Len(stack) \in frames
    <3>1. /\ Len(stack) \in DOMAIN stack /\ Top = stack[Len(stack)] /\ Top \in Frames
          /\ Top.type = "marked" /\ Top.session = s
      BY <1>1, <2>4, StackTop DEF Marked
    <3>2. Top.done = {}
      BY <1>1, <3>1 DEF StackInv, StopFrame, IsStop
    <3>3. Top = Stop(s, "marked", {})
      BY <3>1, <3>2 DEF Frames, Stop
    <3> QED
      BY <3>1, <3>3
  <2> QED
    BY <2>2, <2>3, <2>4
<1>8. /\ Marked(s) => Cardinality(frames) = 1
      /\ ~ Marked(s) => Cardinality(frames) = 0
  BY <1>7, FS_EmptySet, FS_Singleton
<1>9. /\ stopper[s] = s <=> d \in ToSet(Shared) \/ Marked(s)
      /\ ~ (d \in ToSet(Shared) /\ Marked(s))
  <2>1. s \in Descendants(s)
    BY <1>1, DescendantsClosed
  <2> QED
    BY <1>1, <1>2, <2>1 DEF QueueInv
<1> HIDE DEF d, frames
<1>10. CASE stopper[s] = s /\ Marked(s)
  BY <1>5, <1>6, <1>8, <1>9, <1>10
<1>11. CASE stopper[s] = s /\ d \in ToSet(Shared)
  <2>1. ~ Marked(s)
    BY <1>9, <1>11, Zenon
  <2>2. Len(Keep(lqueue, {d})) = 0 /\ Len(Keep(Shared, {d})) = 1 /\ Cardinality(frames) = 0
    BY <1>6, <1>8, <1>11, <2>1, Zenon
  <2> QED
    BY <1>5, <1>11, <2>2
<1>12. CASE stopper[s] # s
  BY <1>5, <1>6, <1>8, <1>9, <1>12
<1> QED
  BY <1>9, <1>10, <1>11, <1>12

(* However stops nest, a session that is being stopped has one stopper, and *)
(* the stopper alone is deleted, by exactly one delete event.               *)
THEOREM AlwaysDeletedOnce == Spec => []DeletedOnceByStopper
<1>1. IndInv => DeletedOnceByStopper
  <2> SUFFICES ASSUME IndInv, NEW s \in Attached
               PROVE  /\ Deletions(s) = IF stopper[s] = s THEN 1 ELSE 0
                      /\ stopper[s] # None => /\ stopper[s] \in Attached
                                              /\ stopper[stopper[s]] = stopper[s]
                                              /\ s \in Descendants(stopper[s])
    BY DEF DeletedOnceByStopper
  <2>1. Deletions(s) = IF stopper[s] = s THEN 1 ELSE 0
    BY DeletionsAre, SessionTreeAssumption
  <2>2. stopper[s] # None => stopper[s] \in Attached /\ stopper[stopper[s]] = stopper[s]
    BY DEF IndInv, StopperInv
  <2>3. stopper[s] # None => s \in Descendants(stopper[s])
    BY StopperAbove, SessionTreeAssumption DEF IndInv
  <2> QED
    BY <2>1, <2>2, <2>3
<1> QED
  BY <1>1, Invariance, PTL

(* The parent of a session is in the tree, has it in its list of children,  *)
(* and is not stopped unless the session is.                                *)
THEOREM ParentsOutlive == Spec => []ParentOutlivesChild
<1>1. IndInv => ParentOutlivesChild
  <2> SUFFICES ASSUME IndInv, NEW s \in Attached \ {Kernel}
               PROVE  /\ parent[s] \in Attached /\ s \in Kids(parent[s])
                      /\ stopper[parent[s]] # None => stopper[s] # None
    BY DEF ParentOutlivesChild
  <2>1. s \in Sessions /\ s \in Nodes
    BY DEF Attached, Nodes
  <2>2. parent[s] \in Attached /\ parent[s] \in Nodes
    BY <2>1 DEF IndInv, TreeInv, Attached
  <2> QED
    BY <2>1, <2>2 DEF IndInv, TreeInv, StopperInv
<1> QED
  BY <1>1, Invariance, PTL

(* Whatever handlers start, stop and delete meanwhile, there are neither    *)
(* orphans nor rings: every attached session hangs from the kernel's own.   *)
THEOREM AlwaysConnected == Spec => []Connected
<1>1. IndInv => Connected
  BY DEF IndInv, TreeInv, Connected
<1> QED
  BY <1>1, Invariance, PTL

(* The stop handler of a session runs at most once, and has run before its  *)
(* identifier is forgotten: a session that is gone was told.                *)
THEOREM AlwaysStoppedOnce == Spec => []StoppedOnceBeforeDeleted
<1>1. IndInv => StoppedOnceBeforeDeleted
  <2> SUFFICES ASSUME IndInv, NEW s \in Nodes
               PROVE  stops[s] <= 1 /\ (s \notin sid_map /\ parent[s] # None => stops[s] = 1)
    BY DEF StoppedOnceBeforeDeleted
  <2>1. stops[s] <= 1
    BY DEF IndInv, CallInv
  <2>2. ASSUME s \notin sid_map, parent[s] # None PROVE stops[s] = 1
    <3>1. s \in Attached
      BY <2>2 DEF IndInv, TreeInv, Nodes
    <3> QED
      BY <2>2, <3>1 DEF IndInv, CallInv
  <2> QED
    BY <2>1, <2>2
<1> QED
  BY <1>1, Invariance, PTL
-----------------------------------------------------------------------------
(***************************************************************************)
(* The order in which stop handlers run.                                   *)
(***************************************************************************)

(* Only _call_stop runs a stop handler.                                     *)
LEMMA OnlyCallStop ==
    ASSUME [Next]_vars, stops' # stops
    PROVE  CallStop
BY DEF Next, vars, UserCode, StartSession, StopSession, PostLocal, Call, Yield, State,
       CreateAlarm, DeleteAlarm, HandlerReturn, StopTree, QueueDelete, RemoveSids,
       Loop, DispatchMsg, DispatchAlarm, DispatchDelete, Collect, FindTarget, EnqueueEvent

(* Those below the next one to call that have the same stopper are done:    *)
(* going up from one that is not, everyone has that stopper and is not done *)
(* either, up to a child of the next one - which has none such.             *)
LEMMA BelowDone ==
    ASSUME SessionTreeAssumption, IndInv, Stopping("calling"), NEW n \in ToCall,
           NEW d \in Descendants(n) \ {n}, stopper[d] = Current
    PROVE  d \in Top.done
<1> PICK r : r = Current
  OBVIOUS
<1> DEFINE B == {k \in Descendants(n) \ {n} : stopper[k] = r /\ k \notin Top.done}
<1>1. TypeOK /\ TreeInv /\ StopperInv
  BY DEF IndInv
<1>2. /\ r \in Attached /\ StopFrame(Len(stack)) /\ Top = stack[Len(stack)]
      /\ Left = {s \in Attached : stopper[s] = r} \ Top.done
      /\ stack[Len(stack)].session = r
  BY LeftIs
<1>3. n \in Attached /\ stopper[n] = r /\ Kids(n) \cap Left = {} /\ n \in Nodes
  BY <1>2 DEF ToCall, Attached
<1>4. /\ r # None /\ Descendants(n) \subseteq Attached /\ n \in Descendants(r)
      /\ stopper[r] = r
  <2>1. r # None
    BY <1>2 DEF Attached, Nodes, SessionTreeAssumption
  <2> QED
    BY <1>1, <1>2, <1>3, <2>1, DescendantsAttached, StopperAbove DEF StopperInv
<1>5. ASSUME NEW k \in B PROVE k # Kernel /\ parent[k] \in B
  <2>1. k \in Attached /\ k # Kernel /\ stopper[k] = r
    BY <1>1, <1>4 DEF StopperInv
  <2>2. k # r
    BY <1>1, <1>2, <1>4, NoRings
  <2>3. stopper[parent[k]] = r
    BY <1>1, <1>4, <2>1, <2>2 DEF StopperInv
  <2>4. PICK m \in Descendants(n) : k \in Kids(m)
    BY <1>3, DescendantsVia
  <2>5. m \in Nodes /\ parent[k] = m
    BY <1>1, <1>4, <2>4, ChildAttached DEF Attached
  <2>6. m # n
    BY <1>2, <1>3, <2>1, <2>4
  <2>7. m \notin Top.done
    BY <1>2, <2>1, <2>4 DEF StopFrame
  <2> QED
    BY <2>1, <2>3, <2>4, <2>5, <2>6, <2>7
<1>6. B = {}
  <2> HIDE DEF B
  <2>1. B \in SUBSET Attached
    BY <1>4 DEF B
  <2> QED
    BY <1>1, <1>5, <2>1, Upwards
<1> QED
  BY <1>6

(* One with another stopper was called by that one, or is about to be.      *)
LEMMA BelowOthers ==
    ASSUME SessionTreeAssumption, IndInv, Stopping("calling"), NEW n \in ToCall,
           NEW d \in Descendants(n) \ {n}, stopper[d] # Current
    PROVE  \/ stops[d] = 1
           \/ \E i \in DOMAIN stack : stack[i].type = "calling" /\ stack[i].session = stopper[d]
<1>1. /\ Current \in Attached /\ Top = stack[Len(stack)] /\ Current = stack[Len(stack)].session
      /\ Left = {s \in Attached : stopper[s] = Current} \ Top.done
  BY LeftIs
<1>2. n \in Attached /\ stopper[n] = Current /\ Current # None
  BY <1>1 DEF ToCall, Attached, Nodes, SessionTreeAssumption
<1>3. d \in Attached /\ stopper[d] # None
  BY <1>2, DescendantsStopped DEF IndInv
<1>4. CASE ~ OnStack(stopper[d])
  BY <1>3, <1>4 DEF IndInv, CallInv
<1>5. CASE OnStack(stopper[d])
  <2>1. PICK i \in DOMAIN stack : IsStop(i) /\ stack[i].session = stopper[d]
    BY <1>5 DEF OnStack
  <2>2. StopFrame(i) /\ stack[i] \in Frames
    BY <2>1, QueueTypes DEF IndInv, StackInv
  <2>3. stack[i].type # "marked"
    BY <1>1, <2>1, <2>2 DEF StopFrame
  <2>4. stack[i].type = "calling"
    BY <2>1, <2>2, <2>3 DEF Frames, IsStop
  <2> QED
    BY <2>1, <2>4
<1> QED
  BY <1>4, <1>5

(* A stop handler begins when those of all the sessions below that are      *)
(* stopped with it have returned; the ones below that were stopped before   *)
(* have been called, or a stop further down the stack is calling them.      *)
THEOREM StopsChildrenFirst == Spec => ChildrenFirst
<1> DEFINE Told(s) ==
        \A d \in Descendants(s) \ {s} :
            IF stopper[d] = stopper[s] THEN d \in Top.done
            ELSE \/ stops[d] = 1
                 \/ \E i \in DOMAIN stack : /\ stack[i].type = "calling"
                                           /\ stack[i].session = stopper[d]
<1>1. ASSUME IndInv, [Next]_vars PROVE \A s \in Nodes : stops'[s] # stops[s] => Told(s)
  <2> SUFFICES ASSUME NEW s \in Nodes, stops'[s] # stops[s] PROVE Told(s)
    OBVIOUS
  <2>1. CallStop
    BY <1>1, OnlyCallStop
  <2>2. PICK n \in ToCall : stops' = [stops EXCEPT ![n] = @ + 1]
    BY <2>1 DEF CallStop
  <2>3. n \in Nodes /\ stops \in [Nodes -> Nat]
    BY <1>1 DEF ToCall, Left, StoppedBy, Reached, IndInv, TypeOK
  <2>4. s = n
    BY <2>2, <2>3
  <2>5. stopper[n] = Current /\ Stopping("calling")
    BY <1>1, <2>1, LeftIs, SessionTreeAssumption DEF CallStop, ToCall
  <2> QED
    BY <1>1, <2>4, <2>5, BelowDone, BelowOthers, SessionTreeAssumption
<1>2. ASSUME IndInv, [Next]_vars
      PROVE  [\A s \in Nodes : stops'[s] # stops[s] => Told(s)]_vars
  BY <1>1, <1>2
<1> QED
  BY <1>2, Invariance, PTL DEF Spec, ChildrenFirst
-----------------------------------------------------------------------------
(***************************************************************************)
(* The messages a session waits for.                                       *)
(***************************************************************************)
Msg(s) == Event("msg", s)

Waiting(q, s) == Len(Keep(q, {Msg(s)}))

Found(s) == Cardinality({p \in Posters : posting[p] = s})

OneIf(a, b) == IF a = b THEN 1 ELSE 0

LEMMA WaitingNat ==
    ASSUME NEW q \in Seq(Events), NEW s
    PROVE  Waiting(q, s) \in Nat /\ Waiting(<<>>, s) = 0
<1>1. Keep(q, {Msg(s)}) \in Seq(Events)
  BY KeepIsSeq
<1>2. Keep(<<>>, {Msg(s)}) = <<>>
  BY KeepEmpty
<1> QED
  BY <1>1, <1>2, LenProperties DEF Waiting

LEMMA WaitingConcat ==
    ASSUME NEW q \in Seq(Events), NEW r \in Seq(Events), NEW s
    PROVE  Waiting(q \o r, s) = Waiting(q, s) + Waiting(r, s)
<1>1. Keep(q \o r, {Msg(s)}) = Keep(q, {Msg(s)}) \o Keep(r, {Msg(s)})
  BY KeepConcat
<1>2. Keep(q, {Msg(s)}) \in Seq(Events) /\ Keep(r, {Msg(s)}) \in Seq(Events)
  BY KeepIsSeq
<1> QED
  BY <1>1, <1>2, ConcatProperties DEF Waiting

LEMMA WaitingAppend ==
    ASSUME NEW q \in Seq(Events), NEW e \in Events, NEW s
    PROVE  Waiting(Append(q, e), s) = Waiting(q, s) + OneIf(e, Msg(s))
<1>1. /\ Keep(Append(q, e), {Msg(s)}) = IF e \in {Msg(s)} THEN Append(Keep(q, {Msg(s)}), e)
                                                           ELSE Keep(q, {Msg(s)})
      /\ Keep(q, {Msg(s)}) \in Seq(Events)
  BY KeepAppend, KeepIsSeq
<1>2. CASE e = Msg(s)
  BY <1>1, <1>2, AppendProperties DEF Waiting, OneIf
<1>3. CASE e # Msg(s)
  BY <1>1, <1>3, LenProperties DEF Waiting, OneIf
<1> QED
  BY <1>2, <1>3

LEMMA WaitingFirst ==
    ASSUME NEW q \in Seq(Events), q # <<>>, NEW s
    PROVE  Waiting(q, s) = Waiting(Tail(q), s) + OneIf(Head(q), Msg(s))
<1> DEFINE h == Head(q)
           t == Tail(q)
<1>1. h \in Events /\ t \in Seq(Events) /\ q = <<h>> \o t
  BY HeadTailProperties, HeadTailConcat
<1> HIDE DEF h, t
<1>2. <<h>> \in Seq(Events)
  BY <1>1
<1>3. Waiting(<<h>>, s) = OneIf(h, Msg(s))
  <2>1. Keep(<<h>>, {Msg(s)}) = IF h \in {Msg(s)} THEN <<h>> ELSE <<>>
    BY KeepOne
  <2> QED
    BY <2>1 DEF Waiting, OneIf
<1>4. Waiting(q, s) = Waiting(<<h>>, s) + Waiting(t, s)
  BY <1>1, <1>2, WaitingConcat
<1>5. Waiting(t, s) \in Nat /\ OneIf(h, Msg(s)) \in Nat
  BY <1>1, WaitingNat DEF OneIf
<1>6. Waiting(q, s) = Waiting(t, s) + OneIf(h, Msg(s))
  BY <1>3, <1>4, <1>5
<1> QED
  BY <1>6 DEF h, t

LEMMA WaitingNone ==
    ASSUME NEW q \in Seq(Events), NEW s, Msg(s) \notin ToSet(q)
    PROVE  Waiting(q, s) = 0
BY KeepOnce DEF Waiting

(* Alarms that are taken out of a queue leave the messages in it.           *)
LEMMA WaitingWithout ==
    ASSUME NEW q \in Seq(Events), NEW D, NEW s \in Nodes
    PROVE  Waiting(Without(q, D), s) = Waiting(q, s)
<1> DEFINE S == {e \in ToSet(q) : ~ (e.type = "alarm" /\ e.session \in D)}
<1>1. Keep(Keep(q, S), {Msg(s)}) = Keep(q, S \cap {Msg(s)})
  <2> HIDE DEF S
  <2> QED
    BY KeepKeep
<1>2. q \in Seq(ToSet(q))
  <2>1. q \in [1 .. Len(q) -> ToSet(q)] /\ Len(q) \in Nat
    BY DEF ToSet
  <2> QED
    BY <2>1, SeqDef
<1>3. ToSet(q) \cap (S \cap {Msg(s)}) = ToSet(q) \cap {Msg(s)}
  <2>1. Msg(s).type = "msg"
    BY EventType DEF Msg
  <2> QED
    BY <2>1
<1>4. Keep(q, S \cap {Msg(s)}) = Keep(q, {Msg(s)})
  <2> HIDE DEF S
  <2> QED
    BY <1>2, <1>3, KeepSame
<1> QED
  BY <1>1, <1>4 DEF Without, Waiting

LEMMA FoundNat ==
    ASSUME SessionTreeAssumption, NEW s
    PROVE  Found(s) \in Nat /\ IsFiniteSet({p \in Posters : posting[p] = s})
<1>1. {p \in Posters : posting[p] = s} \subseteq Posters /\ IsFiniteSet(Posters)
  BY DEF SessionTreeAssumption
<1>2. IsFiniteSet({p \in Posters : posting[p] = s})
  BY <1>1, FS_Subset
<1> QED
  BY <1>2, FS_CardinalityType DEF Found

(* A poster that has found no session finds one, or lets go of the one it   *)
(* has found.                                                               *)
LEMMA FoundStep ==
    ASSUME SessionTreeAssumption, TypeOK, NEW p \in Posters, NEW s \in Nodes, NEW n \in Nodes
    PROVE  /\ posting[p] = None /\ posting' = [posting EXCEPT ![p] = s] =>
                Found(n)' = Found(n) + OneIf(s, n)
           /\ posting[p] = s /\ posting' = [posting EXCEPT ![p] = None] =>
                Found(n) = Found(n)' + OneIf(s, n)
<1> DEFINE F == {o \in Posters : posting[o] = n}
           G == {o \in Posters : posting'[o] = n}
<1>1. /\ posting \in [Posters -> Nodes \cup {None}] /\ n # None /\ s # None
      /\ IsFiniteSet(F) /\ Found(n) = Cardinality(F) /\ Found(n)' = Cardinality(G)
      /\ Found(n) \in Nat
  BY FoundNat DEF TypeOK, Nodes, SessionTreeAssumption, Found
<1>2. ASSUME posting[p] = None, posting' = [posting EXCEPT ![p] = s]
      PROVE  Found(n)' = Found(n) + OneIf(s, n)
  <2>1. CASE s = n
    <3>1. G = F \cup {p} /\ p \notin F
      BY <1>1, <1>2, <2>1
    <3>2. Cardinality(F \cup {p}) = Cardinality(F) + 1
      BY <1>1, <3>1, FS_AddElement
    <3> QED
      BY <1>1, <2>1, <3>1, <3>2 DEF OneIf
  <2>2. CASE s # n
    <3>1. G = F
      BY <1>1, <1>2, <2>2
    <3> QED
      BY <1>1, <2>2, <3>1 DEF OneIf
  <2> QED
    BY <2>1, <2>2
<1>3. ASSUME posting[p] = s, posting' = [posting EXCEPT ![p] = None]
      PROVE  Found(n) = Found(n)' + OneIf(s, n)
  <2>1. CASE s = n
    <3>1. G = F \ {p} /\ p \in F
      BY <1>1, <1>3, <2>1
    <3>2. Cardinality(F \ {p}) = Cardinality(F) - 1
      BY <1>1, <3>1, FS_RemoveElement
    <3>3. Cardinality(F) \in Nat /\ Cardinality(G) = Cardinality(F) - 1 /\ OneIf(s, n) = 1
      BY <1>1, <2>1, <3>1, <3>2 DEF OneIf
    <3> HIDE DEF F, G
    <3> QED
      BY <1>1, <3>3
  <2>2. CASE s # n
    <3>1. G = F
      BY <1>1, <1>3, <2>2
    <3> QED
      BY <1>1, <2>2, <3>1 DEF OneIf
  <2> QED
    BY <2>1, <2>2
<1> QED
  BY <1>2, <1>3

LEMMA OwedIs ==
    ASSUME NEW l \in Seq(Events), NEW p \in Seq(Events), NEW n \in Seq(Events), NEW s
    PROVE  Len(Keep(l \o p \o n, {Event("msg", s)})) = Waiting(l, s) + Waiting(p, s) + Waiting(n, s)
<1>1. l \o p \in Seq(Events)
  BY ConcatProperties
<1>2. Waiting(l \o p \o n, s) = Waiting(l \o p, s) + Waiting(n, s)
  BY <1>1, WaitingConcat
<1>3. Waiting(l \o p, s) = Waiting(l, s) + Waiting(p, s)
  BY WaitingConcat
<1> QED
  BY <1>2, <1>3 DEF Waiting, Msg

LEMMA OwedNow ==
    ASSUME SessionTreeAssumption, TypeOK, NEW s \in Nodes
    PROVE  /\ Outstanding(s) = Waiting(lqueue, s) + Waiting(pqueue, s) + Waiting(pending, s) + Found(s)
           /\ Waiting(lqueue, s) \in Nat /\ Waiting(pqueue, s) \in Nat /\ Waiting(pending, s) \in Nat
           /\ Found(s) \in Nat /\ Outstanding(s) \in Nat
<1>1. lqueue \in Seq(Events) /\ pqueue \in Seq(Events) /\ pending \in Seq(Events)
  BY QueueTypes
<1>2. /\ Waiting(lqueue, s) \in Nat /\ Waiting(pqueue, s) \in Nat /\ Waiting(pending, s) \in Nat
      /\ Found(s) \in Nat
  BY <1>1, WaitingNat, FoundNat
<1>3. Outstanding(s) = Waiting(lqueue, s) + Waiting(pqueue, s) + Waiting(pending, s) + Found(s)
  BY <1>1, OwedIs DEF Outstanding, Found
<1> QED
  BY <1>2, <1>3

LEMMA OwedNext ==
    ASSUME TypeOK', NEW s \in Nodes
    PROVE  Outstanding(s)' = Waiting(lqueue', s) + Waiting(pqueue', s) + Waiting(pending', s) + Found(s)'
<1>1. lqueue' \in Seq(Events) /\ pqueue' \in Seq(Events) /\ pending' \in Seq(Events)
  BY TypesAre DEF Types
<1> QED
  BY <1>1, OwedIs DEF Outstanding, Found

LEMMA OwedNextNat ==
    ASSUME SessionTreeAssumption, TypeOK', NEW n \in Nodes
    PROVE  Outstanding(n)' \in Nat /\ Found(n)' \in Nat
<1>1. lqueue' \in Seq(Events) /\ pqueue' \in Seq(Events) /\ pending' \in Seq(Events)
  BY TypesAre DEF Types
<1>2. Waiting(lqueue', n) \in Nat /\ Waiting(pqueue', n) \in Nat /\ Waiting(pending', n) \in Nat
  BY <1>1, WaitingNat
<1>3. Found(n)' \in Nat
  <2>1. {p \in Posters : posting'[p] = n} \subseteq Posters /\ IsFiniteSet(Posters)
    BY DEF SessionTreeAssumption
  <2> QED
    BY <2>1, FS_Subset, FS_CardinalityType DEF Found
<1> QED
  BY <1>2, <1>3, OwedNext
-----------------------------------------------------------------------------
(***************************************************************************)
(* The refinement of Lifecycle, step by step.                              *)
(***************************************************************************)

(* No session waits for more messages than the program asked for.           *)
OwedInv == \A s \in Nodes : Outstanding(s) <= requests

SameOwed    == \A n \in Nodes : Outstanding(n)' = Outstanding(n)
MoreOwed(s) == \A n \in Nodes : Outstanding(n)' = Outstanding(n) + OneIf(s, n)
LessOwed(s) == \A n \in Nodes : Outstanding(n) = Outstanding(n)' + OneIf(s, n)

AbstractStep == Abstract!Next \/ UNCHANGED Abstract!vars

LEMMA StatusIs ==
    ASSUME TypeOK, NEW s \in Nodes
    PROVE  /\ Status[s] = "new" <=> life[s] = "new"
           /\ Status[s] = "live" <=> s \in Attached /\ stopper[s] = None
           /\ Status[s] = "stopped" <=> s \in Attached /\ stopper[s] # None
           /\ Status[s] = "gone" <=> life[s] = "deleted"
BY DEF TypeOK, Status, Attached

LEMMA QuietStep ==
    ASSUME SessionTreeAssumption, TypeOK, OwedInv,
           UNCHANGED <<life, parent, stopper, requests>>, SameOwed
    PROVE  OwedInv' /\ AbstractStep
<1>1. OwedInv'
  BY DEF OwedInv, SameOwed
<1>2. Status' = Status /\ Owed' = Owed /\ parent' = parent
  BY DEF Status, Owed, SameOwed
<1> QED
  BY <1>1, <1>2 DEF AbstractStep, Abstract!vars

LEMMA RequestedStep ==
    ASSUME SessionTreeAssumption, TypeOK, OwedInv, Request,
           UNCHANGED <<life, parent, stopper>>, SameOwed
    PROVE  OwedInv' /\ AbstractStep
<1>1. OwedInv'
  <2> SUFFICES ASSUME NEW n \in Nodes PROVE Outstanding(n)' <= requests'
    BY DEF OwedInv
  <2>1. Outstanding(n)' = Outstanding(n) /\ Outstanding(n) <= requests /\ Outstanding(n) \in Nat
    BY OwedNow DEF OwedInv, SameOwed
  <2>2. requests \in Nat /\ requests' = requests + 1
    BY DEF Request, TypeOK, SessionTreeAssumption
  <2> QED
    BY <2>1, <2>2
<1>2. Status' = Status /\ Owed' = Owed /\ parent' = parent
  BY DEF Status, Owed, SameOwed
<1> QED
  BY <1>1, <1>2 DEF AbstractStep, Abstract!vars

(* A message is put into a queue for a session of the tree, or a poster has *)
(* found it.                                                                *)
LEMMA AcceptStep ==
    ASSUME SessionTreeAssumption, TypeOK, OwedInv, NEW s \in Attached, Request,
           UNCHANGED <<life, parent, stopper>>, MoreOwed(s)
    PROVE  OwedInv' /\ AbstractStep
<1>1. s \in Nodes /\ requests \in Nat /\ requests < MaxRequests /\ requests' = requests + 1
      /\ MaxRequests \in Nat
  BY DEF Attached, TypeOK, Request, SessionTreeAssumption
<1>2. \A n \in Nodes : Outstanding(n) \in Nat
  BY OwedNow
<1>3. OwedInv'
  <2> SUFFICES ASSUME NEW n \in Nodes PROVE Outstanding(n)' <= requests'
    BY DEF OwedInv
  <2>1. Outstanding(n)' = Outstanding(n) + OneIf(s, n) /\ Outstanding(n) <= requests
    BY DEF OwedInv, MoreOwed
  <2>2. OneIf(s, n) \in {0, 1}
    BY DEF OneIf
  <2> QED
    BY <1>1, <1>2, <2>1, <2>2
<1>4. Status' = Status /\ parent' = parent
  BY DEF Status
<1>5. Owed[s] = Outstanding(s) /\ Owed[s] < MaxRequests
  BY <1>1, <1>2 DEF OwedInv, Owed
<1>6. Owed' = [Owed EXCEPT ![s] = @ + 1]
  <2>1. Owed' = [n \in Nodes |-> Outstanding(n)']
    BY DEF Owed
  <2>2. \A n \in Nodes : Outstanding(n)' = IF n = s THEN Owed[s] + 1 ELSE Owed[n]
    BY <1>1, <1>2 DEF MoreOwed, OneIf, Owed
  <2>3. [Owed EXCEPT ![s] = @ + 1] = [n \in Nodes |-> IF n = s THEN Owed[s] + 1 ELSE Owed[n]]
    BY <1>1 DEF Owed
  <2> QED
    BY <2>1, <2>2, <2>3
<1>7. Status[s] \in {"live", "stopped"}
  BY <1>1, StatusIs
<1>8. Abstract!Accept(s)
  BY <1>4, <1>5, <1>6, <1>7 DEF Abstract!Accept
<1>9. Abstract!Next
  BY <1>1, <1>8 DEF Abstract!Next, Abstract!Nodes, Nodes
<1> QED
  BY <1>3, <1>9 DEF AbstractStep

(* A message is taken from a queue, whatever becomes of it.                 *)
LEMMA ConsumeStep ==
    ASSUME SessionTreeAssumption, TypeOK, TypeOK', OwedInv, NEW s \in Nodes,
           UNCHANGED <<life, parent, stopper, requests>>, LessOwed(s)
    PROVE  OwedInv' /\ AbstractStep
<1>1. \A n \in Nodes : Outstanding(n) \in Nat
  BY OwedNow
<1>2. \A n \in Nodes : Outstanding(n)' \in Nat
  BY OwedNextNat
<1>3. requests \in Nat
  BY DEF TypeOK, SessionTreeAssumption
<1>4. OwedInv'
  <2> SUFFICES ASSUME NEW n \in Nodes PROVE Outstanding(n)' <= requests'
    BY DEF OwedInv
  <2>1. Outstanding(n) = Outstanding(n)' + OneIf(s, n) /\ Outstanding(n) <= requests
    BY DEF OwedInv, LessOwed
  <2>2. OneIf(s, n) \in {0, 1}
    BY DEF OneIf
  <2> QED
    BY <1>1, <1>2, <1>3, <2>1, <2>2
<1>5. Status' = Status /\ parent' = parent
  BY DEF Status
<1>6. Owed[s] > 0
  BY <1>1, <1>2 DEF LessOwed, OneIf, Owed
<1>7. Owed' = [Owed EXCEPT ![s] = @ - 1]
  <2>1. Owed' = [n \in Nodes |-> Outstanding(n)']
    BY DEF Owed
  <2>2. \A n \in Nodes : Outstanding(n)' = IF n = s THEN Owed[s] - 1 ELSE Owed[n]
    BY <1>1, <1>2 DEF LessOwed, OneIf, Owed
  <2>3. [Owed EXCEPT ![s] = @ - 1] = [n \in Nodes |-> IF n = s THEN Owed[s] - 1 ELSE Owed[n]]
    BY DEF Owed
  <2> QED
    BY <2>1, <2>2, <2>3
<1>8. Abstract!Consume(s)
  BY <1>5, <1>6, <1>7 DEF Abstract!Consume, Abstract!Consumable
<1>9. Abstract!Next
  BY <1>8 DEF Abstract!Next, Abstract!Nodes, Nodes
<1> QED
  BY <1>4, <1>9 DEF AbstractStep
LEMMA MsgIs ==
    ASSUME NEW s \in Nodes
    PROVE  /\ Msg(s) \in Events /\ Msg(s).type = "msg" /\ Msg(s).session = s
           /\ \A n \in Nodes : OneIf(Msg(s), Msg(n)) = OneIf(s, n)
           /\ \A n \in Nodes, t \in {"alarm", "delete"} :
                 \A e \in Events : e.type = t => OneIf(e, Msg(n)) = 0
<1>1. \A n \in Nodes : Msg(n) \in Events /\ Msg(n).type = "msg" /\ Msg(n).session = n
  BY EventType DEF Msg
<1> QED
  BY <1>1 DEF OneIf

(* Neither the queues nor what the posters have found is touched.           *)
LEMMA SameQueues ==
    ASSUME UNCHANGED <<queues, posting>>
    PROVE  SameOwed
BY DEF SameOwed, Outstanding, queues

(* A message is put at the end of one of the kernel's own queues.           *)
LEMMA MessageAppended ==
    ASSUME SessionTreeAssumption, TypeOK, TypeOK', NEW s \in Nodes, UNCHANGED <<pqueue, posting>>,
           \/ lqueue' = Append(lqueue, Event("msg", s)) /\ UNCHANGED pending
           \/ pending' = Append(pending, Event("msg", s)) /\ UNCHANGED lqueue
    PROVE  MoreOwed(s)
<1> SUFFICES ASSUME NEW n \in Nodes PROVE Outstanding(n)' = Outstanding(n) + OneIf(s, n)
  BY DEF MoreOwed
<1>1. Msg(s) \in Events /\ OneIf(Msg(s), Msg(n)) = OneIf(s, n)
  BY MsgIs
<1>2. /\ Waiting(Append(lqueue, Msg(s)), n) = Waiting(lqueue, n) + OneIf(Msg(s), Msg(n))
      /\ Waiting(Append(pending, Msg(s)), n) = Waiting(pending, n) + OneIf(Msg(s), Msg(n))
  BY <1>1, QueueTypes, WaitingAppend
<1>3. /\ Outstanding(n) = Waiting(lqueue, n) + Waiting(pqueue, n) + Waiting(pending, n) + Found(n)
      /\ Waiting(lqueue, n) \in Nat /\ Waiting(pqueue, n) \in Nat /\ Waiting(pending, n) \in Nat
      /\ Found(n) \in Nat
  BY OwedNow
<1>4. /\ Outstanding(n)' = Waiting(lqueue', n) + Waiting(pqueue', n) + Waiting(pending', n) + Found(n)'
      /\ Found(n)' = Found(n) /\ Waiting(pqueue', n) = Waiting(pqueue, n)
  BY OwedNext DEF Found
<1>5. OneIf(s, n) \in Nat
  BY DEF OneIf
<1>6. CASE lqueue' = Append(lqueue, Event("msg", s)) /\ UNCHANGED pending
  <2>1. Waiting(lqueue', n) = Waiting(lqueue, n) + OneIf(s, n) /\ Waiting(pending', n) = Waiting(pending, n)
    BY <1>1, <1>2, <1>6 DEF Msg
  <2> QED
    BY <1>3, <1>4, <1>5, <2>1
<1>7. CASE pending' = Append(pending, Event("msg", s)) /\ UNCHANGED lqueue
  <2>1. Waiting(pending', n) = Waiting(pending, n) + OneIf(s, n) /\ Waiting(lqueue', n) = Waiting(lqueue, n)
    BY <1>1, <1>2, <1>7 DEF Msg
  <2> QED
    BY <1>3, <1>4, <1>5, <2>1
<1> QED
  BY <1>6, <1>7

(* What the handlers do that leaves the tree and the stoppers alone.        *)
LEMMA PostLocalStep ==
    ASSUME SessionTreeAssumption, IndInv, OwedInv, TypeOK', NEW to \in Nodes, PostLocal(to)
    PROVE  OwedInv' /\ AbstractStep
<1>1. /\ TypeOK /\ Request /\ UNCHANGED <<life, parent, stopper>> /\ UNCHANGED <<pqueue, posting>>
      /\ \/ lqueue' = Append(lqueue, Event("msg", to)) /\ UNCHANGED pending
         \/ pending' = Append(pending, Event("msg", to)) /\ UNCHANGED lqueue
  BY DEF IndInv, PostLocal, tree, local
<1>2. to \in Attached
  BY CurrentAttached DEF IndInv, TypeOK, PostLocal, Running
<1> QED
  BY <1>1, <1>2, MessageAppended, AcceptStep

LEMMA YieldStep ==
    ASSUME SessionTreeAssumption, IndInv, OwedInv, TypeOK', Yield
    PROVE  OwedInv' /\ AbstractStep
<1>1. /\ TypeOK /\ Request /\ UNCHANGED <<life, parent, stopper>> /\ UNCHANGED <<pqueue, posting>>
      /\ lqueue' = Append(lqueue, Event("msg", Current)) /\ UNCHANGED pending
  BY DEF IndInv, Yield, tree, local
<1>2. Current \in Attached /\ Current \in Nodes
  BY CurrentAttached DEF IndInv, Yield, Running
<1> QED
  BY <1>1, <1>2, MessageAppended, AcceptStep

LEMMA FindTargetStep ==
    ASSUME SessionTreeAssumption, IndInv, OwedInv, TypeOK',
           NEW p \in Posters, NEW s \in Nodes, FindTarget(p, s)
    PROVE  OwedInv' /\ AbstractStep
<1>1. /\ TypeOK /\ Request /\ UNCHANGED <<life, parent, stopper>> /\ UNCHANGED <<lqueue, pqueue, pending>>
      /\ posting[p] = None /\ posting' = [posting EXCEPT ![p] = s] /\ s \in Attached
  BY DEF IndInv, TypeOK, FindTarget, tree, local, queues
<1>2. MoreOwed(s)
  <2> SUFFICES ASSUME NEW n \in Nodes PROVE Outstanding(n)' = Outstanding(n) + OneIf(s, n)
    BY DEF MoreOwed
  <2>1. Found(n)' = Found(n) + OneIf(s, n)
    BY <1>1, FoundStep
  <2>2. /\ Outstanding(n) = Waiting(lqueue, n) + Waiting(pqueue, n) + Waiting(pending, n) + Found(n)
        /\ Waiting(lqueue, n) \in Nat /\ Waiting(pqueue, n) \in Nat /\ Waiting(pending, n) \in Nat
        /\ Found(n) \in Nat
    BY <1>1, OwedNow
  <2>3. Outstanding(n)' = Waiting(lqueue, n) + Waiting(pqueue, n) + Waiting(pending, n) + Found(n)'
    BY <1>1, OwedNext
  <2>4. OneIf(s, n) \in Nat
    BY DEF OneIf
  <2> QED
    BY <2>1, <2>2, <2>3, <2>4
<1> QED
  BY <1>1, <1>2, AcceptStep

LEMMA EnqueueEventStep ==
    ASSUME SessionTreeAssumption, IndInv, OwedInv, TypeOK', NEW p \in Posters, EnqueueEvent(p)
    PROVE  OwedInv' /\ AbstractStep
<1> PICK s : s = posting[p]
  OBVIOUS
<1>1. /\ TypeOK /\ UNCHANGED <<life, parent, stopper, requests>> /\ UNCHANGED <<lqueue, pqueue>>
      /\ posting' = [posting EXCEPT ![p] = None] /\ s \in Nodes
      /\ pending' = Append(pending, Event("msg", s))
  BY DEF IndInv, TypeOK, EnqueueEvent, tree, local
<1>2. SameOwed
  <2> SUFFICES ASSUME NEW n \in Nodes PROVE Outstanding(n)' = Outstanding(n)
    BY DEF SameOwed
  <2>1. Found(n) = Found(n)' + OneIf(s, n)
    BY <1>1, FoundStep
  <2>2. Msg(s) \in Events /\ OneIf(Msg(s), Msg(n)) = OneIf(s, n)
    BY <1>1, MsgIs
  <2>3. Waiting(pending', n) = Waiting(pending, n) + OneIf(Msg(s), Msg(n))
    BY <1>1, <2>2, QueueTypes, WaitingAppend DEF Msg
  <2>4. /\ Outstanding(n) = Waiting(lqueue, n) + Waiting(pqueue, n) + Waiting(pending, n) + Found(n)
        /\ Waiting(lqueue, n) \in Nat /\ Waiting(pqueue, n) \in Nat /\ Waiting(pending, n) \in Nat
        /\ Found(n) \in Nat
    BY <1>1, OwedNow
  <2>5. Outstanding(n)' = Waiting(lqueue, n) + Waiting(pqueue, n) + Waiting(pending', n) + Found(n)'
    BY <1>1, OwedNext
  <2>6. OneIf(s, n) \in {0, 1}
    BY DEF OneIf
  <2>7. Found(n)' = Found(n) - OneIf(s, n)
    <3>1. Found(n)' \in Nat
      BY OwedNextNat
    <3> QED
      BY <2>1, <2>4, <2>6, <3>1
  <2> QED
    BY <2>2, <2>3, <2>4, <2>5, <2>6, <2>7
<1> QED
  BY <1>1, <1>2, QuietStep
LEMMA DeleteAlarmStep ==
    ASSUME SessionTreeAssumption, IndInv, OwedInv, TypeOK', DeleteAlarm
    PROVE  OwedInv' /\ AbstractStep
<1>1. /\ TypeOK /\ UNCHANGED <<life, parent, stopper>> /\ UNCHANGED <<lqueue, pending, posting>>
      /\ pqueue' = Without(pqueue, {Current}) /\ Request
  BY DEF IndInv, DeleteAlarm, tree, local
<1>2. SameOwed
  <2> SUFFICES ASSUME NEW n \in Nodes PROVE Outstanding(n)' = Outstanding(n)
    BY DEF SameOwed
  <2>1. Waiting(pqueue', n) = Waiting(pqueue, n)
    BY <1>1, QueueTypes, WaitingWithout
  <2>2. Outstanding(n) = Waiting(lqueue, n) + Waiting(pqueue, n) + Waiting(pending, n) + Found(n)
    BY <1>1, OwedNow
  <2>3. Outstanding(n)' = Waiting(lqueue, n) + Waiting(pqueue', n) + Waiting(pending, n) + Found(n)
    BY <1>1, OwedNext DEF Found
  <2> QED
    BY <2>1, <2>2, <2>3
<1> QED
  BY <1>1, <1>2, RequestedStep

(* The event that deletes a tree is no message.                             *)
LEMMA QueueDeleteStep ==
    ASSUME SessionTreeAssumption, IndInv, OwedInv, TypeOK', QueueDelete
    PROVE  OwedInv' /\ AbstractStep
<1> PICK r : r = Current
  OBVIOUS
<1>1. /\ TypeOK /\ UNCHANGED <<life, parent, stopper, requests>> /\ UNCHANGED <<lqueue, pqueue, posting>>
      /\ pending' = Append(pending, Event("delete", r)) /\ r \in Nodes
  BY CurrentAttached DEF IndInv, QueueDelete, Stopping, DeleteLast, tree, local
<1>2. SameOwed
  <2> SUFFICES ASSUME NEW n \in Nodes PROVE Outstanding(n)' = Outstanding(n)
    BY DEF SameOwed
  <2>1. Event("delete", r) \in Events /\ OneIf(Event("delete", r), Msg(n)) = 0
    BY <1>1, EventType, MsgIs
  <2>2. Waiting(pending', n) = Waiting(pending, n) + OneIf(Event("delete", r), Msg(n))
    BY <1>1, <2>1, QueueTypes, WaitingAppend
  <2>3. /\ Outstanding(n) = Waiting(lqueue, n) + Waiting(pqueue, n) + Waiting(pending, n) + Found(n)
        /\ Waiting(pending, n) \in Nat
    BY <1>1, OwedNow
  <2>4. Outstanding(n)' = Waiting(lqueue, n) + Waiting(pqueue, n) + Waiting(pending', n) + Found(n)
    BY <1>1, OwedNext DEF Found
  <2>5. Waiting(pending', n) = Waiting(pending, n)
    BY <2>1, <2>2, <2>3
  <2> QED
    BY <2>3, <2>4, <2>5
<1> QED
  BY <1>1, <1>2, QuietStep

(* Taking the next event from its queue.                                    *)
LEMMA TakenOwed ==
    ASSUME SessionTreeAssumption, TypeOK, TypeOK', lqueue \o pqueue # <<>>, Taken,
           UNCHANGED <<pending, posting>>, NEW n \in Nodes
    PROVE  /\ NextEvent \in Events
           /\ Outstanding(n) = Outstanding(n)' + OneIf(NextEvent, Msg(n))
<1>1. /\ lqueue \in Seq(Events) /\ pqueue \in Seq(Events)
      /\ lqueue' \in Seq(Events) /\ pqueue' \in Seq(Events)
  BY QueueTypes, TypesAre DEF Types
<1>2. /\ Outstanding(n) = Waiting(lqueue, n) + Waiting(pqueue, n) + Waiting(pending, n) + Found(n)
      /\ Waiting(lqueue, n) \in Nat /\ Waiting(pqueue, n) \in Nat /\ Waiting(pending, n) \in Nat
      /\ Found(n) \in Nat
  BY OwedNow
<1>3. Outstanding(n)' = Waiting(lqueue', n) + Waiting(pqueue', n) + Waiting(pending, n) + Found(n)
  BY OwedNext DEF Found
<1>4. /\ OneIf(NextEvent, Msg(n)) \in Nat
      /\ Waiting(lqueue', n) \in Nat /\ Waiting(pqueue', n) \in Nat
  BY <1>1, WaitingNat DEF OneIf
<1>5. CASE lqueue # <<>>
  <2>1. NextEvent = Head(lqueue) /\ lqueue' = Tail(lqueue) /\ pqueue' = pqueue
    BY <1>5 DEF NextEvent, Taken, RestQueued
  <2>2. Waiting(lqueue, n) = Waiting(lqueue', n) + OneIf(NextEvent, Msg(n))
    BY <1>1, <1>5, <2>1, WaitingFirst
  <2>3. Waiting(pqueue', n) = Waiting(pqueue, n) /\ NextEvent \in Events
    BY <1>1, <1>5, <2>1
  <2> QED
    BY <1>2, <1>3, <1>4, <2>2, <2>3
<1>6. CASE lqueue = <<>>
  <2>1. NextEvent = Head(pqueue) /\ pqueue' = Tail(pqueue) /\ lqueue' = lqueue
    BY <1>6 DEF NextEvent, Taken, RestQueued
  <2>2. pqueue # <<>>
    BY <1>1, <1>6, ConcatEmptySeq
  <2>3. Waiting(pqueue, n) = Waiting(pqueue', n) + OneIf(NextEvent, Msg(n))
    BY <1>1, <2>1, <2>2, WaitingFirst
  <2>4. Waiting(lqueue', n) = Waiting(lqueue, n) /\ NextEvent \in Events
    BY <1>1, <2>1, <2>2
  <2> QED
    BY <1>2, <1>3, <1>4, <2>3, <2>4
<1> QED
  BY <1>5, <1>6

LEMMA DispatchMsgStep ==
    ASSUME SessionTreeAssumption, IndInv, OwedInv, TypeOK', DispatchMsg
    PROVE  OwedInv' /\ AbstractStep
<1>1. /\ TypeOK /\ UNCHANGED <<life, parent, stopper, requests>> /\ UNCHANGED <<pending, posting>>
      /\ lqueue \o pqueue # <<>> /\ Taken /\ NextEvent.type = "msg"
  BY DEF IndInv, DispatchMsg, HasEvent, tree, local
<1> PICK e : e = NextEvent
  OBVIOUS
<1> PICK s : s = e.session
  OBVIOUS
<1>2. \A n \in Nodes : e \in Events /\ Outstanding(n) = Outstanding(n)' + OneIf(e, Msg(n))
  BY <1>1, TakenOwed
<1>3. Kernel \in Nodes
  BY DEF Nodes
<1>4. e = Msg(s) /\ s \in Nodes
  BY <1>1, <1>2, <1>3, EventIs DEF Msg
<1>5. LessOwed(s)
  BY <1>2, <1>4, MsgIs DEF LessOwed
<1> QED
  BY <1>1, <1>4, <1>5, ConsumeStep

LEMMA DispatchAlarmStep ==
    ASSUME SessionTreeAssumption, IndInv, OwedInv, TypeOK', DispatchAlarm
    PROVE  OwedInv' /\ AbstractStep
<1>1. /\ TypeOK /\ UNCHANGED <<life, parent, stopper, requests>> /\ UNCHANGED <<pending, posting>>
      /\ lqueue \o pqueue # <<>> /\ Taken /\ NextEvent.type = "alarm"
  BY DEF IndInv, DispatchAlarm, HasEvent, tree, local
<1>2. SameOwed
  <2> SUFFICES ASSUME NEW n \in Nodes PROVE Outstanding(n)' = Outstanding(n)
    BY DEF SameOwed
  <2>1. NextEvent \in Events /\ Outstanding(n) = Outstanding(n)' + OneIf(NextEvent, Msg(n))
    BY <1>1, TakenOwed
  <2>2. OneIf(NextEvent, Msg(n)) = 0
    BY <1>1, <2>1, MsgIs
  <2>3. Outstanding(n)' \in Nat
    BY OwedNextNat
  <2> QED
    BY <2>1, <2>2, <2>3
<1> QED
  BY <1>1, <1>2, QuietStep

(* Alarms that expire and what is pending go to the queue.                  *)
LEMMA CollectStep ==
    ASSUME SessionTreeAssumption, IndInv, OwedInv, TypeOK', Collect
    PROVE  OwedInv' /\ AbstractStep
<1>1. /\ TypeOK /\ UNCHANGED <<life, parent, stopper, requests>> /\ UNCHANGED <<lqueue, posting>>
      /\ pqueue = <<>> /\ pending' = <<>> /\ pending \in Seq(Events)
  BY QueueTypes DEF IndInv, Collect, tree, local
<1>2. PICK a \in Seq(Events) : /\ \A e \in ToSet(a) : e.type = "alarm"
                               /\ pqueue' = a \o pending
  BY CollectedAre
<1>3. SameOwed
  <2> SUFFICES ASSUME NEW n \in Nodes PROVE Outstanding(n)' = Outstanding(n)
    BY DEF SameOwed
  <2>1. Msg(n) \notin ToSet(a)
    BY <1>2, MsgIs
  <2>2. Waiting(a, n) = 0
    BY <1>2, <2>1, WaitingNone
  <2>3. Waiting(pqueue', n) = Waiting(a, n) + Waiting(pending, n)
    BY <1>1, <1>2, WaitingConcat
  <2>4. Waiting(pqueue, n) = 0 /\ Waiting(pending', n) = 0
    BY <1>1, WaitingNat
  <2>5. /\ Outstanding(n) = Waiting(lqueue, n) + Waiting(pqueue, n) + Waiting(pending, n) + Found(n)
        /\ Waiting(lqueue, n) \in Nat /\ Waiting(pending, n) \in Nat /\ Found(n) \in Nat
    BY <1>1, OwedNow
  <2>6. Outstanding(n)' = Waiting(lqueue, n) + Waiting(pqueue', n) + Waiting(pending', n) + Found(n)
    BY <1>1, OwedNext DEF Found
  <2> QED
    BY <2>2, <2>3, <2>4, <2>5, <2>6
<1> QED
  BY <1>1, <1>3, QuietStep

(* What Lifecycle calls below a session is what the lists of children say.  *)
LEMMA BelowIs ==
    ASSUME TypeOK, TreeInv, NEW r \in Nodes
    PROVE  Abstract!Below(r) = Descendants(r)
<1>1. \A m \in Nodes : Kids(m) \subseteq Nodes
  BY DEF TypeOK, Kids, ToSet, Nodes
<1>2. Abstract!Nodes = Nodes
  BY DEF Abstract!Nodes, Nodes
<1>3. \A X \in SUBSET Nodes : Abstract!Closed(X) <=> \A m \in X : Kids(m) \subseteq X
  BY <1>1, <1>2 DEF Abstract!Closed, TreeInv
<1>4. \A X \in SUBSET Nodes : (\A m \in X : Kids(m) \subseteq X) <=> (\A m \in X : Kids(m) \cap Nodes \subseteq X)
  BY <1>1
<1>5. Abstract!Below(r) =
        {n \in Nodes : \A X \in SUBSET Nodes : r \in X /\ (\A m \in X : Kids(m) \cap Nodes \subseteq X) => n \in X}
  BY <1>2, <1>3, <1>4 DEF Abstract!Below
<1> QED
  BY <1>5 DEF Descendants, Reached

(* start_session attaches the session below one that is live, ...           *)
LEMMA AttachStep ==
    ASSUME SessionTreeAssumption, IndInv, OwedInv, NEW s \in Sessions, NEW p \in Nodes,
           StartSession(s, p), MayHaveChildren(p)
    PROVE  OwedInv' /\ AbstractStep
<1>1. /\ UNCHANGED <<stopper, requests>> /\ UNCHANGED <<queues, posting>>
      /\ life[s] = "new" /\ life[p] = "attached" /\ stopper[p] = None
      /\ life' = [life EXCEPT ![s] = "attached"] /\ parent' = [parent EXCEPT ![s] = p]
      /\ s \in Nodes
  BY DEF StartSession, MayHaveChildren, Nodes
<1>2. SameOwed
  BY <1>1, SameQueues
<1>3. OwedInv' /\ Owed' = Owed
  BY <1>1, <1>2 DEF OwedInv, Owed, SameOwed
<1>4. TypeOK /\ stopper[s] = None
  BY <1>1 DEF IndInv, StopperInv
<1>5. Status[s] = "new" /\ Status[p] = "live"
  BY <1>1, <1>4, StatusIs DEF Attached
<1>6. Status' = [Status EXCEPT ![s] = "live"]
  <2>1. \A n \in Nodes : n # s => life'[n] = life[n]
    BY <1>1, <1>4 DEF TypeOK
  <2>2. life'[s] = "attached"
    BY <1>1, <1>4 DEF TypeOK
  <2> QED
    BY <1>1, <1>4, <2>1, <2>2 DEF Status
<1>7. Abstract!Start(s, p)
  BY <1>1, <1>3, <1>5, <1>6 DEF Abstract!Start, Abstract!MayHaveChildren
<1>8. Abstract!Next
  BY <1>7 DEF Abstract!Next, Abstract!Nodes, Nodes
<1> QED
  BY <1>3, <1>8 DEF AbstractStep

(* ... or deletes it.                                                       *)
LEMMA RefuseStep ==
    ASSUME SessionTreeAssumption, IndInv, OwedInv, NEW s \in Sessions, NEW p \in Nodes,
           StartSession(s, p), ~ MayHaveChildren(p)
    PROVE  OwedInv' /\ AbstractStep
<1>1. /\ UNCHANGED <<parent, stopper, requests>> /\ UNCHANGED <<queues, posting>>
      /\ life[s] = "new" /\ life' = [life EXCEPT ![s] = "deleted"] /\ s \in Nodes
  BY DEF StartSession, Nodes
<1>2. SameOwed
  BY <1>1, SameQueues
<1>3. OwedInv' /\ Owed' = Owed
  BY <1>1, <1>2 DEF OwedInv, Owed, SameOwed
<1>4. TypeOK
  BY DEF IndInv
<1>5. Status[s] = "new"
  BY <1>1, <1>4, StatusIs
<1>6. Status' = [Status EXCEPT ![s] = "gone"]
  <2>1. \A n \in Nodes : n # s => life'[n] = life[n]
    BY <1>1, <1>4 DEF TypeOK
  <2>2. life'[s] = "deleted"
    BY <1>1, <1>4 DEF TypeOK
  <2> QED
    BY <1>1, <1>4, <2>1, <2>2 DEF Status
<1>7. Abstract!Refuse(s)
  BY <1>1, <1>3, <1>5, <1>6 DEF Abstract!Refuse
<1>8. Abstract!Next
  BY <1>7 DEF Abstract!Next
<1> QED
  BY <1>3, <1>8 DEF AbstractStep

(* stop_session_tree marks all that is live in the tree: whoever is left    *)
(* out of the mark, because one above it was stopped before, was stopped    *)
(* with that one.                                                           *)
LEMMA StopSessionStep ==
    ASSUME SessionTreeAssumption, IndInv, OwedInv, NEW r \in Sessions, StopSession(r)
    PROVE  OwedInv' /\ AbstractStep
<1>1. /\ UNCHANGED <<life, parent, requests>> /\ UNCHANGED <<queues, posting>>
      /\ r \in Attached /\ stopper[r] = None /\ stopper' = Marks(r) /\ r \in Nodes
  BY DEF StopSession, tree, Attached, Nodes
<1>2. SameOwed
  BY <1>1, SameQueues
<1>3. OwedInv' /\ Owed' = Owed
  BY <1>1, <1>2 DEF OwedInv, Owed, SameOwed
<1>4. TypeOK /\ TreeInv /\ StopperInv /\ None \notin Nodes
  BY DEF IndInv, SessionTreeAssumption, Nodes
<1>5. PICK M \in SUBSET (Attached \cap Sessions) :
              /\ r \in M
              /\ M \subseteq Descendants(r)
              /\ \A n \in M : stopper[n] = None /\ (n = r \/ parent[n] \in M)
              /\ \A n \in M : \A c \in Kids(n) : stopper[c] = None => c \in M
              /\ Marks(r) = [n \in Nodes |-> IF n \in M THEN r ELSE stopper[n]]
  BY <1>1, <1>4, MarksAre
<1>6. \A n \in Descendants(r) : stopper[n] = None => n \in M
  <2> DEFINE X == M \cup {n \in Attached : stopper[n] # None}
  <2>1. X \in SUBSET Nodes /\ r \in X
    BY <1>5 DEF Attached
  <2>2. \A m \in X : Kids(m) \subseteq X
    <3> SUFFICES ASSUME NEW m \in X, NEW c \in Kids(m) PROVE c \in X
      OBVIOUS
    <3>1. c \in Sessions /\ c \in Attached /\ parent[c] = m
      BY <1>4, <2>1, ChildAttached
    <3>2. CASE m \in M
      BY <1>5, <3>1, <3>2
    <3>3. CASE m \in Attached /\ stopper[m] # None
      BY <1>4, <3>1, <3>3 DEF StopperInv, SessionTreeAssumption
    <3> QED
      BY <3>2, <3>3
  <2>3. Descendants(r) \subseteq X
    <3> HIDE DEF X
    <3> QED
      BY <1>1, <2>1, <2>2, DescendantsLeast
  <2> QED
    BY <2>3
<1>7. Descendants(r) \subseteq Attached
  BY <1>1, <1>4, DescendantsAttached
<1>8. Status[r] = "live"
  BY <1>1, <1>4, StatusIs
<1>9. Status' = [s \in Nodes |-> IF s \in Descendants(r) /\ Status[s] = "live" THEN "stopped"
                                                                             ELSE Status[s]]
  <2>1. ASSUME NEW s \in Nodes
        PROVE  /\ s \in M <=> s \in Descendants(r) /\ Status[s] = "live"
               /\ stopper'[s] = IF s \in M THEN r ELSE stopper[s]
    BY <1>1, <1>4, <1>5, <1>6, <1>7, StatusIs
  <2>2. \A s \in M : life[s] = "attached"
    BY <1>5 DEF Attached
  <2> DEFINE new(s) == CASE life'[s] = "new"     -> "new"
                         [] life'[s] = "deleted" -> "gone"
                         [] OTHER -> IF stopper'[s] = None THEN "live" ELSE "stopped"
  <2>3. Status' = [s \in Nodes |-> new(s)]
    BY DEF Status
  <2>4. \A s \in Nodes : s \in M => new(s) = "stopped"
    BY <1>1, <1>4, <2>1, <2>2
  <2>5. \A s \in Nodes : s \notin M => new(s) = Status[s]
    BY <1>1, <2>1 DEF Status
  <2> HIDE DEF new
  <2> QED
    BY <2>1, <2>3, <2>4, <2>5
<1>10. Abstract!Stop(r)
  <2>1. Abstract!Below(r) = Descendants(r) /\ Abstract!Nodes = Nodes
    BY <1>1, <1>4, BelowIs DEF Abstract!Nodes, Nodes
  <2> QED
    BY <1>1, <1>3, <1>8, <1>9, <2>1 DEF Abstract!Stop
<1>11. Abstract!Next
  BY <1>10 DEF Abstract!Next
<1> QED
  BY <1>3, <1>11 DEF AbstractStep

(* destroy() deletes a session and what is below it, all of it stopped and  *)
(* no message on its way to any of it.                                      *)
LEMMA DispatchDeleteStep ==
    ASSUME SessionTreeAssumption, IndInv, OwedInv, TypeOK', DispatchDelete
    PROVE  OwedInv' /\ AbstractStep
<1>1. PICK r \in Sessions \cap Attached :
              /\ r = NextEvent.session /\ stopper[r] = r
              /\ stack = <<>> /\ lqueue = <<>> /\ RestQueued = Tail(pqueue)
              /\ Tail(pqueue) \in Seq(Events)
              /\ pqueue = <<Event("delete", r)>> \o Tail(pqueue)
              /\ ToSet(pqueue) = {Event("delete", r)} \cup ToSet(Tail(pqueue))
              /\ \A e \in ToSet(Tail(pqueue)) \cup ToSet(pending) : e.session \notin Descendants(r)
              /\ Descendants(r) = {s \in Attached : stopper[s] = r}
              /\ \A p \in Posters : posting[p] \notin Descendants(r)
  BY DeletedTree DEF DispatchDelete, Destroyed
<1> PICK gone : gone = Descendants(r)
  OBVIOUS
<1>2. /\ UNCHANGED <<stopper, requests>> /\ UNCHANGED <<lqueue, pending, posting>>
      /\ pqueue' = Without(Tail(pqueue), gone)
      /\ life' = [s \in Nodes |-> IF s \in gone THEN "deleted" ELSE life[s]]
      /\ parent' = [s \in Nodes |-> IF s \in gone THEN None ELSE parent[s]]
  BY <1>1 DEF DispatchDelete, Destroyed, local
<1>3. TypeOK /\ TreeInv /\ r \in Nodes /\ r # None
  BY <1>1 DEF IndInv, Attached, Nodes, SessionTreeAssumption
<1>4. Tail(pqueue) \in Seq(Events) /\ pending \in Seq(Events) /\ Event("delete", r) \in Events
  BY <1>1, <1>3, QueueTypes, EventType
<1>5. ASSUME NEW n \in Nodes
      PROVE  /\ Outstanding(n)' = Outstanding(n)
             /\ n \in gone => Outstanding(n) = 0
  <2>1. Waiting(pqueue', n) = Waiting(Tail(pqueue), n)
    BY <1>2, <1>4, WaitingWithout
  <2>2. Waiting(pqueue, n) = Waiting(Tail(pqueue), n)
    <3>1. <<Event("delete", r)>> \in Seq(Events)
      BY <1>4
    <3>2. Waiting(<<Event("delete", r)>> \o Tail(pqueue), n) =
            Waiting(<<Event("delete", r)>>, n) + Waiting(Tail(pqueue), n)
      BY <1>4, <3>1, WaitingConcat
    <3>3. Msg(n) # Event("delete", r)
      BY <1>3, MsgIs, EventType
    <3>4. Msg(n) \notin ToSet(<<Event("delete", r)>>)
      BY <3>3, SetOne
    <3>5. Waiting(<<Event("delete", r)>>, n) = 0
      BY <3>1, <3>4, WaitingNone
    <3>6. Waiting(Tail(pqueue), n) \in Nat
      BY <1>4, WaitingNat
    <3>7. Waiting(pqueue, n) = Waiting(<<Event("delete", r)>> \o Tail(pqueue), n)
      BY <1>1
    <3> QED
      BY <3>2, <3>5, <3>6, <3>7
  <2>3. /\ Outstanding(n) = Waiting(lqueue, n) + Waiting(pqueue, n) + Waiting(pending, n) + Found(n)
        /\ Waiting(lqueue, n) \in Nat /\ Waiting(pqueue, n) \in Nat /\ Waiting(pending, n) \in Nat
        /\ Found(n) \in Nat
    BY <1>3, OwedNow
  <2>4. Outstanding(n)' = Waiting(lqueue, n) + Waiting(pqueue', n) + Waiting(pending, n) + Found(n)
    BY <1>2, OwedNext DEF Found
  <2>5. Outstanding(n)' = Outstanding(n)
    BY <2>1, <2>2, <2>3, <2>4
  <2>6. ASSUME n \in gone PROVE Outstanding(n) = 0
    <3>1. Msg(n).session = n
      BY MsgIs
    <3>2. Msg(n) \notin ToSet(Tail(pqueue)) /\ Msg(n) \notin ToSet(pending)
      BY <1>1, <2>6, <3>1
    <3>3. Waiting(Tail(pqueue), n) = 0 /\ Waiting(pending, n) = 0
      BY <1>4, <3>2, WaitingNone
    <3>4. Waiting(lqueue, n) = 0
      BY <1>1, <1>4, WaitingNat
    <3>5. Found(n) = 0
      <4>1. {p \in Posters : posting[p] = n} = {}
        BY <1>1, <2>6
      <4> QED
        BY <4>1, FS_EmptySet DEF Found
    <3> QED
      BY <2>2, <2>3, <3>3, <3>4, <3>5
  <2> QED
    BY <2>5, <2>6
<1>6. OwedInv' /\ Owed' = Owed
  BY <1>2, <1>5 DEF OwedInv, Owed
<1>7. \A s \in gone : s \in Nodes /\ Status[s] = "stopped" /\ Owed[s] = 0
  BY <1>1, <1>3, <1>5, StatusIs DEF Owed, Attached
<1>8. Status' = [s \in Nodes |-> IF s \in gone THEN "gone" ELSE Status[s]]
  <2> DEFINE new(s) == CASE life'[s] = "new"     -> "new"
                         [] life'[s] = "deleted" -> "gone"
                         [] OTHER -> IF stopper'[s] = None THEN "live" ELSE "stopped"
  <2>1. Status' = [s \in Nodes |-> new(s)]
    BY DEF Status
  <2>2. \A s \in Nodes : s \in gone => new(s) = "gone"
    BY <1>2
  <2>3. \A s \in Nodes : s \notin gone => new(s) = Status[s]
    BY <1>2 DEF Status
  <2> HIDE DEF new
  <2> QED
    BY <2>1, <2>2, <2>3
<1>9. Abstract!Delete(r)
  <2>1. Abstract!Below(r) = gone /\ Abstract!Nodes = Nodes
    BY <1>3, BelowIs DEF Abstract!Nodes, Nodes
  <2> QED
    BY <1>2, <1>6, <1>7, <1>8, <2>1 DEF Abstract!Delete, Abstract!Settled
<1>10. Abstract!Next
  BY <1>9 DEF Abstract!Next
<1> QED
  BY <1>6, <1>10 DEF AbstractStep

(* What else the kernel's thread does is hidden.                            *)
LEMMA HiddenStep ==
    ASSUME SessionTreeAssumption, IndInv, OwedInv,
           \/ State \/ CreateAlarm \/ (\E on \in Nodes : Call(on))
           \/ CallStop \/ RemoveSids \/ HandlerReturn
    PROVE  OwedInv' /\ AbstractStep
<1>1. TypeOK /\ UNCHANGED <<life, parent, stopper>> /\ UNCHANGED <<queues, posting>>
  BY DEF IndInv, State, CreateAlarm, Call, CallStop, RemoveSids, HandlerReturn, tree, local, queues
<1>2. SameOwed
  BY <1>1, SameQueues
<1>3. Request \/ UNCHANGED requests
  BY DEF State, CreateAlarm, Call, CallStop, RemoveSids, HandlerReturn
<1> QED
  BY <1>1, <1>2, <1>3, QuietStep, RequestedStep

LEMMA InitRefines ==
    ASSUME SessionTreeAssumption, Init
    PROVE  OwedInv /\ Abstract!Init
<1>1. IndInv /\ TypeOK
  BY InitInv DEF IndInv
<1>2. \A n \in Nodes : Outstanding(n) = 0
  <2> SUFFICES ASSUME NEW n \in Nodes PROVE Outstanding(n) = 0
    OBVIOUS
  <2>1. lqueue = <<>> /\ pqueue = <<>> /\ pending = <<>> /\ <<>> \in Seq(Events)
    BY DEF Init
  <2>2. /\ Waiting(lqueue, n) = 0 /\ Waiting(pqueue, n) = 0 /\ Waiting(pending, n) = 0
    BY <2>1, WaitingNat
  <2>3. Found(n) = 0
    <3>1. {p \in Posters : posting[p] = n} = {}
      BY DEF Init, SessionTreeAssumption, Nodes
    <3> QED
      BY <3>1, FS_EmptySet DEF Found
  <2>4. Outstanding(n) = Waiting(lqueue, n) + Waiting(pqueue, n) + Waiting(pending, n) + Found(n)
    BY <1>1, OwedNow
  <2> QED
    BY <2>2, <2>3, <2>4
<1>3. Owed = [s \in Nodes |-> 0] /\ OwedInv
  BY <1>2 DEF Owed, OwedInv, Init
<1>4. Status = [s \in Nodes |-> IF s = Kernel THEN "live" ELSE "new"]
  BY DEF Status, Init
<1>5. parent = [s \in Nodes |-> None] /\ Abstract!Nodes = Nodes
  BY DEF Init, Abstract!Nodes, Nodes
<1> QED
  BY <1>3, <1>4, <1>5 DEF Abstract!Init

LEMMA NextRefines ==
    ASSUME SessionTreeAssumption, IndInv, TypeOK', OwedInv, Next
    PROVE  OwedInv' /\ AbstractStep
<1> DEFINE Done == OwedInv' /\ AbstractStep
<1>1. ASSUME NEW s \in Sessions, NEW p \in Nodes, StartSession(s, p) PROVE Done
  BY <1>1, AttachStep, RefuseStep
<1>2. ASSUME NEW r \in Sessions, StopSession(r) PROVE Done
  BY <1>2, StopSessionStep
<1>3. ASSUME NEW n \in Nodes, PostLocal(n) PROVE Done
  BY <1>3, PostLocalStep
<1>4. ASSUME NEW n \in Nodes, Call(n) PROVE Done
  BY <1>4, HiddenStep
<1>5. ASSUME NEW p \in Posters, EnqueueEvent(p) PROVE Done
  BY <1>5, EnqueueEventStep
<1>6. ASSUME NEW p \in Posters, NEW n \in Nodes, FindTarget(p, n) PROVE Done
  BY <1>6, FindTargetStep
<1>7. State \/ CreateAlarm \/ CallStop \/ RemoveSids \/ HandlerReturn => Done
  BY HiddenStep
<1>8. (Yield => Done) /\ (DeleteAlarm => Done) /\ (QueueDelete => Done)
  BY YieldStep, DeleteAlarmStep, QueueDeleteStep
<1>9. DispatchMsg \/ DispatchAlarm \/ DispatchDelete \/ Collect => Done
  BY DispatchMsgStep, DispatchAlarmStep, DispatchDeleteStep, CollectStep
<1> HIDE DEF Done
<1> Done
  BY <1>1, <1>2, <1>3, <1>4, <1>5, <1>6, <1>7, <1>8, <1>9 DEF Next, UserCode, StopTree, Loop
<1> QED
  BY DEF Done

(* The messages on their way to a session, those a poster has found it for  *)
(* included, are at most what the program asked for.                        *)
LEMMA OwedBounded == Spec => []OwedInv
<1>1. Init => OwedInv
  BY InitRefines, SessionTreeAssumption
<1>2. IndInv /\ IndInv' /\ OwedInv /\ [Next]_vars => OwedInv'
  <2> SUFFICES ASSUME IndInv, IndInv', OwedInv, [Next]_vars PROVE OwedInv'
    OBVIOUS
  <2>1. CASE Next
    BY <2>1, NextRefines, SessionTreeAssumption DEF IndInv
  <2>2. CASE UNCHANGED vars
    <3>1. requests' = requests /\ \A n \in Nodes : Outstanding(n)' = Outstanding(n)
      BY <2>2 DEF vars, queues, Outstanding
    <3> QED
      BY <3>1 DEF OwedInv
  <2> QED
    BY <2>1, <2>2
<1> QED
  BY <1>1, <1>2, Invariance, PTL DEF Spec

(* Seen from a program, the kernel does what Lifecycle promises: every      *)
(* start, refusal, stop, post, dispatch and deletion is one of its steps    *)
(* and all the rest is hidden.  A tree stops at once, however its stop is   *)
(* nested in others, and is deleted in one step that finds all of it        *)
(* stopped and no message on its way to any of it.                          *)
THEOREM Refinement == Spec => Abstract!Init /\ [][Abstract!Next]_(Abstract!vars)
<1>1. Init => Abstract!Init
  BY InitRefines, SessionTreeAssumption
<1>2. IndInv /\ IndInv' /\ OwedInv /\ [Next]_vars => [Abstract!Next]_(Abstract!vars)
  <2> SUFFICES ASSUME IndInv, IndInv', OwedInv, [Next]_vars PROVE [Abstract!Next]_(Abstract!vars)
    OBVIOUS
  <2>1. CASE Next
    BY <2>1, NextRefines, SessionTreeAssumption DEF IndInv, AbstractStep
  <2>2. CASE UNCHANGED vars
    <3>1. Status' = Status /\ parent' = parent /\ Owed' = Owed
      BY <2>2 DEF vars, tree, local, queues, Status, Owed, Outstanding
    <3> QED
      BY <3>1 DEF Abstract!vars
  <2> QED
    BY <2>1, <2>2
<1> QED
  BY <1>1, <1>2, Invariance, OwedBounded, PTL DEF Spec
=============================================================================
