-------------------------- MODULE MigrationProofs --------------------------
(***************************************************************************)
(* Proofs about Migration, for any number of threads, kernels, messages    *)
(* and moves: a kernel is in one place at a time, its handlers run only    *)
(* there, and what is posted to it arrives.                                *)
(***************************************************************************)
EXTENDS Migration, FilterProofs

(***************************************************************************)
(* What the queues contain.                                                *)
(***************************************************************************)
Plain(K) == [type : {"msg"}, kernel : K, msg : Nat] \cup [type : {"export"}, kernel : K]

Event == Plain(Kernels) \cup
         [type : {"import"}, kernel : Kernels,
          lqueue : Seq(Plain(Kernels)), pqueue : Seq(Plain(Kernels))]

Own(k) == {e \in Event : e.kernel = k}

(* An import event that brings only what belongs to its kernel.             *)
Carriers(k) ==
    [type : {"import"}, kernel : {k}, lqueue : Seq(Plain({k})), pqueue : Seq(Plain({k}))]

Share(q, k) == Keep(q, Own(k))

HomeType ==
    /\ thread \in [Kernels -> Threads]
    /\ target \in [Kernels -> Threads \cup {None}]
    /\ pc \in [Threads -> {"taking", "handling", "waiting", "checking", "asking", "stopped"}]
    /\ current \in [Threads -> Kernels \cup {None}]
    /\ list_kernel \in [Threads -> SUBSET Kernels]
    /\ lqueue \in [Threads -> Seq(Event)]
    /\ pqueue \in [Threads -> Seq(Event)]
    /\ pending \in [Threads -> Seq(Event)]
    /\ hop \in [Kernels -> Nat]
    /\ posted \in Seq([kernel : Kernels, lane : {"shared", "local"}, hop : Nat])

(***************************************************************************)
(* The three ways in which a kernel and a thread can stand to each other:  *)
(* the thread has nothing of it; the kernel has arrived there; or an       *)
(* import event, before anything else of the kernel, is on its way to the  *)
(* head of the thread's queue.                                             *)
(***************************************************************************)
Away(k, t) ==
    /\ k \notin list_kernel[t]
    /\ Share(lqueue[t], k) = <<>>
    /\ Share(pqueue[t], k) = <<>>
    /\ Share(pending[t], k) = <<>>

Arrived(k, t) ==
    /\ k \in list_kernel[t]
    /\ Share(lqueue[t], k) \in Seq(Plain({k}))
    /\ Share(pqueue[t], k) \in Seq(Plain({k}))
    /\ Share(pending[t], k) \in Seq(Plain({k}))

Brings(q, k) == \E c \in Carriers(k), r \in Seq(Plain({k})) : q = <<c>> \o r

Expected(k, t) ==
    /\ k \notin list_kernel[t]
    /\ Share(lqueue[t], k) = <<>>
    /\ \/ Brings(Share(pqueue[t], k), k) /\ Share(pending[t], k) \in Seq(Plain({k}))
       \/ Share(pqueue[t], k) = <<>> /\ Brings(Share(pending[t], k), k)

Placed ==
    \A k \in Kernels :
        /\ Arrived(k, thread[k]) \/ Expected(k, thread[k])
        /\ \A t \in Threads \ {thread[k]} : Away(k, t)

(* A waiting thread has nothing queued, and a thread has a current kernel   *)
(* exactly while it runs a handler.                                         *)
Phases ==
    \A t \in Threads :
        /\ pc[t] = "waiting" => lqueue[t] = <<>> /\ pqueue[t] = <<>>
        /\ pc[t] = "handling" <=> current[t] # None

IndInv == HomeType /\ Phases /\ RunsAtHome /\ Placed
-----------------------------------------------------------------------------
(***************************************************************************)
(* Facts about queues.                                                     *)
(***************************************************************************)
LEMMA ConsFacts ==
    ASSUME NEW E, NEW e \in E, NEW s \in Seq(E)
    PROVE  /\ <<e>> \o s \in Seq(E) /\ <<e>> \o s # <<>>
           /\ Head(<<e>> \o s) = e /\ Tail(<<e>> \o s) = s
OBVIOUS

(* The parts of a queue that begins with a given event.                     *)
LEMMA ConsParts ==
    ASSUME NEW E, NEW e \in E, NEW s \in Seq(E), NEW S, <<e>> \o s \in Seq(S)
    PROVE  e \in S /\ s \in Seq(S)
<1>1. /\ <<e>> \o s # <<>> /\ Head(<<e>> \o s) = e /\ Tail(<<e>> \o s) = s
  BY ConsFacts, Zenon
<1> DEFINE c == <<e>> \o s
<1>2. c \in Seq(S) /\ c # <<>>
  BY <1>1
<1> HIDE DEF c
<1>3. Head(c) \in S /\ Tail(c) \in Seq(S)
  BY <1>2, HeadTailProperties, Zenon
<1>4. QED
  BY <1>1, <1>3, Zenon DEF c

LEMMA PlainOwn ==
    ASSUME NEW k \in Kernels
    PROVE  /\ Plain({k}) \subseteq Own(k) /\ Own(k) \subseteq Event
           /\ Carriers(k) \subseteq Own(k)
           /\ Plain({k}) \cap Carriers(k) = {}
<1>1. Plain({k}) \subseteq Plain(Kernels)
  BY DEF Plain
<1>2. Plain({k}) \subseteq Own(k)
  BY <1>1 DEF Own, Event, Plain
<1>3. Seq(Plain({k})) \subseteq Seq(Plain(Kernels))
  BY <1>1, SeqMonotonic
<1>4. ASSUME NEW c \in Carriers(k) PROVE c \in Own(k)
  BY <1>3 DEF Own, Event, Carriers
<1>5. ASSUME NEW c \in Carriers(k) PROVE c \notin Plain({k})
  BY DEF Carriers, Plain
<1>6. QED
  BY <1>2, <1>4, <1>5, Zenon DEF Own

LEMMA OwnApart ==
    ASSUME NEW k \in Kernels, NEW j \in Kernels, j # k
    PROVE  Own(k) \cap Own(j) = {}
BY DEF Own

(* What the loops over the queues select by is_event_of().                  *)
LEMMA OfShare ==
    ASSUME NEW q \in Seq(Event), NEW k \in Kernels
    PROVE  Of(q, k) = Share(q, k) /\ NotOf(q, k) = Keep(q, Event \ Own(k))
<1>1. ToSet(q) = Range(q) /\ Range(q) \subseteq Event
  BY RangeOfSeq, Zenon DEF ToSet, Range
<1>2. q \in Seq(Range(q))
  BY SeqOfRange, Zenon
<1>3. Range(q) \cap Belonging(q, k) = Range(q) \cap Own(k)
  BY <1>1 DEF Belonging, Own
<1>4. Range(q) \cap (ToSet(q) \ Belonging(q, k)) = Range(q) \cap (Event \ Own(k))
  BY <1>1 DEF Belonging, Own
<1>5. Keep(q, Belonging(q, k)) = Keep(q, Own(k))
  <2> DEFINE E == Range(q)
             S == Belonging(q, k)
             T == Own(k)
  <2>1. q \in Seq(E) /\ E \cap S = E \cap T
    BY <1>2, <1>3
  <2> HIDE DEF E, S, T
  <2>2. Keep(q, S) = Keep(q, T)
    BY <2>1, KeepSame
  <2>3. QED
    BY <2>2 DEF S, T
<1>6. Keep(q, ToSet(q) \ Belonging(q, k)) = Keep(q, Event \ Own(k))
  <2> DEFINE E == Range(q)
             S == ToSet(q) \ Belonging(q, k)
             T == Event \ Own(k)
  <2>1. q \in Seq(E) /\ E \cap S = E \cap T
    BY <1>2, <1>4
  <2> HIDE DEF E, S, T
  <2>2. Keep(q, S) = Keep(q, T)
    BY <2>1, KeepSame
  <2>3. QED
    BY <2>2 DEF S, T
<1>7. QED
  BY <1>5, <1>6, Zenon DEF Of, NotOf, Share

(* The share of a kernel in a queue that another kernel has left, or it.    *)
LEMMA ShareOfRest ==
    ASSUME NEW q \in Seq(Event), NEW k \in Kernels
    PROVE  /\ NotOf(q, k) \in Seq(Event)
           /\ Share(NotOf(q, k), k) = <<>>
           /\ \A j \in Kernels \ {k} : Share(NotOf(q, k), j) = Share(q, j)
<1>1. NotOf(q, k) = Keep(q, Event \ Own(k))
  BY OfShare
<1>2. NotOf(q, k) \in Seq(Event)
  BY <1>1, KeepIsSeq, Zenon
<1> DEFINE rest == Event \ Own(k)
<1>0. \A j : Share(NotOf(q, k), j) = Keep(q, rest \cap Own(j))
  <2> SUFFICES ASSUME NEW j PROVE Share(NotOf(q, k), j) = Keep(q, rest \cap Own(j))
    OBVIOUS
  <2>1. NotOf(q, k) = Keep(q, rest)
    BY <1>1
  <2> HIDE DEF rest
  <2>2. Keep(Keep(q, rest), Own(j)) = Keep(q, rest \cap Own(j))
    BY KeepKeep
  <2>3. QED
    BY <2>1, <2>2, Zenon DEF Share
<1>3. Share(NotOf(q, k), k) = <<>>
  <2>1. Share(NotOf(q, k), k) = Keep(q, (Event \ Own(k)) \cap Own(k))
    BY <1>0
  <2>2. Event \cap ((Event \ Own(k)) \cap Own(k)) = {}
    OBVIOUS
  <2>3. QED
    BY <2>1, <2>2, KeepNone, Zenon
<1>4. ASSUME NEW j \in Kernels \ {k} PROVE Share(NotOf(q, k), j) = Share(q, j)
  <2>1. Share(NotOf(q, k), j) = Keep(q, (Event \ Own(k)) \cap Own(j))
    BY <1>0
  <2>2. (Event \ Own(k)) \cap Own(j) = Own(j)
    BY OwnApart DEF Own
  <2>3. QED
    BY <2>1, <2>2, Zenon DEF Share
<1>5. QED
  BY <1>2, <1>3, <1>4

(* The shares in two queues in a row, and behind a new event.               *)
LEMMA ShareConcat ==
    ASSUME NEW q \in Seq(Event), NEW r \in Seq(Event), NEW k
    PROVE  q \o r \in Seq(Event) /\ Share(q \o r, k) = Share(q, k) \o Share(r, k)
<1>1. q \o r \in Seq(Event)
  BY ConcatProperties, Zenon
<1>2. Keep(q \o r, Own(k)) = Keep(q, Own(k)) \o Keep(r, Own(k))
  BY KeepConcat
<1>3. QED
  BY <1>1, <1>2, Zenon DEF Share

LEMMA ShareAppend ==
    ASSUME NEW q \in Seq(Event), NEW e \in Event, NEW k
    PROVE  /\ Append(q, e) \in Seq(Event)
           /\ Share(Append(q, e), k) = IF e \in Own(k) THEN Append(Share(q, k), e) ELSE Share(q, k)
BY KeepAppend DEF Share

LEMMA ShareFirst ==
    ASSUME NEW q \in Seq(Event), q # <<>>, NEW k
    PROVE  Share(q, k) = IF Head(q) \in Own(k) THEN <<Head(q)>> \o Share(Tail(q), k)
                                               ELSE Share(Tail(q), k)
BY KeepFirst, Zenon DEF Share

LEMMA ShareCons ==
    ASSUME NEW q \in Seq(Event), NEW e \in Event, NEW k
    PROVE  /\ Cons(e, q) \in Seq(Event)
           /\ Share(Cons(e, q), k) = IF e \in Own(k) THEN <<e>> \o Share(q, k) ELSE Share(q, k)
<1>1. /\ <<e>> \o q \in Seq(Event) /\ <<e>> \o q # <<>>
      /\ Head(<<e>> \o q) = e /\ Tail(<<e>> \o q) = q
  BY ConsFacts, Zenon
<1>2. Share(<<e>> \o q, k) = IF e \in Own(k) THEN <<e>> \o Share(q, k) ELSE Share(q, k)
  BY <1>1, ShareFirst, Zenon
<1>3. QED
  BY <1>1, <1>2, Zenon DEF Cons

LEMMA ShareType ==
    ASSUME NEW q \in Seq(Event), NEW k
    PROVE  Share(q, k) \in Seq(Event)
BY KeepIsSeq, Zenon DEF Share

(* The share of a queue that belongs to one kernel.                         *)
LEMMA ShareOfPlain ==
    ASSUME NEW k \in Kernels, NEW q \in Seq(Plain({k}))
    PROVE  /\ q \in Seq(Event) /\ Share(q, k) = q
           /\ \A j \in Kernels \ {k} : Share(q, j) = <<>>
<1>1. q \in Seq(Own(k)) /\ q \in Seq(Event)
  BY PlainOwn, SeqMonotonic, Zenon
<1>2. Share(q, k) = q
  BY <1>1, KeepAll, Zenon DEF Share
<1>3. ASSUME NEW j \in Kernels \ {k} PROVE Share(q, j) = <<>>
  <2>1. Own(k) \cap Own(j) = {}
    BY OwnApart
  <2>2. QED
    BY <1>1, <2>1, KeepNone, Zenon DEF Share
<1>4. QED
  BY <1>1, <1>2, <1>3
-----------------------------------------------------------------------------
(***************************************************************************)
(* Taking an event.                                                        *)
(***************************************************************************)

(* An event at the head of a queue belongs to the queue's share of its      *)
(* kernel, and the shares of the others stay.                               *)
LEMMA FirstOfShare ==
    ASSUME NEW q \in Seq(Event), q # <<>>
    PROVE  /\ Head(q) \in Event /\ Head(q).kernel \in Kernels /\ Tail(q) \in Seq(Event)
           /\ Share(q, Head(q).kernel) = <<Head(q)>> \o Share(Tail(q), Head(q).kernel)
           /\ Share(q, Head(q).kernel) # <<>>
           /\ \A j \in Kernels \ {Head(q).kernel} : Share(Tail(q), j) = Share(q, j)
<1> DEFINE h == Head(q)
           k == h.kernel
           r == Tail(q)
<1>1. h \in Event /\ r \in Seq(Event)
  BY HeadTailProperties
<1>2. k \in Kernels /\ h \in Own(k)
  BY <1>1 DEF Own, Event, Plain
<1>3. \A j \in Kernels \ {k} : h \notin Own(j)
  BY DEF Own
<1>4. \A j : Share(q, j) = IF h \in Own(j) THEN <<h>> \o Share(r, j) ELSE Share(r, j)
  BY ShareFirst, Zenon
<1>5. Share(q, k) = <<h>> \o Share(r, k)
  BY <1>2, <1>4, Zenon
<1>6. Share(r, k) \in Seq(Event)
  BY <1>1, ShareType, Zenon
<1>7. Share(q, k) # <<>>
  <2> HIDE DEF h, r
  <2>1. <<h>> \o Share(r, k) # <<>>
    BY <1>1, <1>6, ConsFacts, Zenon
  <2>2. QED
    BY <1>5, <2>1, Zenon
<1>8. \A j \in Kernels \ {k} : Share(r, j) = Share(q, j)
  BY <1>3, <1>4, Zenon
<1>9. QED
  BY <1>1, <1>2, <1>5, <1>7, <1>8, Zenon

LEMMA SomethingOwned ==
    ASSUME IndInv, NEW t \in Threads, NEW k \in Kernels,
           Share(lqueue[t], k) # <<>> \/ Share(pqueue[t], k) # <<>> \/ Share(pending[t], k) # <<>>
    PROVE  /\ thread[k] = t
           /\ Arrived(k, t) \/ Expected(k, t)
BY Zenon DEF IndInv, Placed, Away

LEMMA TakenEvent ==
    ASSUME IndInv, NEW t \in Threads, NEW type, Taking(t, type),
           NEW k, k = NextEvent(t).kernel
    PROVE  /\ NextEvent(t) \in Event /\ k \in Kernels /\ thread[k] = t
           /\ RestLocal(t) \in Seq(Event) /\ RestQueued(t) \in Seq(Event)
           /\ \A j \in Kernels \ {k} :
                 /\ Share(RestLocal(t), j) = Share(lqueue[t], j)
                 /\ Share(RestQueued(t), j) = Share(pqueue[t], j)
           /\ Share(RestQueued(t), k) \in Seq(Plain({k}))
           /\ Share(pending[t], k) \in Seq(Plain({k}))
           /\ \/ /\ type = "import" /\ Expected(k, t) /\ NextEvent(t) \in Carriers(k)
                 /\ Share(RestLocal(t), k) = <<>>
              \/ /\ type # "import" /\ Arrived(k, t) /\ NextEvent(t) \in Plain({k})
                 /\ Share(RestLocal(t), k) \in Seq(Plain({k}))
<1> DEFINE ev == NextEvent(t)
<1>1. /\ lqueue[t] \in Seq(Event) /\ pqueue[t] \in Seq(Event) /\ pending[t] \in Seq(Event)
      /\ lqueue[t] # <<>> \/ pqueue[t] # <<>>
      /\ ev.type = type
  BY DEF IndInv, HomeType, Taking
<1>2. \A e \in Plain({k}) : e.type # "import"
  BY DEF Plain
<1>3. \A e \in Carriers(k) : e.type = "import"
  BY DEF Carriers
<1>4. CASE lqueue[t] # <<>>
  <2>1. ev = Head(lqueue[t]) /\ RestLocal(t) = Tail(lqueue[t]) /\ RestQueued(t) = pqueue[t]
    BY <1>4 DEF NextEvent, RestLocal, RestQueued
  <2>2. /\ ev \in Event /\ k \in Kernels /\ RestLocal(t) \in Seq(Event)
        /\ Share(lqueue[t], k) = <<ev>> \o Share(RestLocal(t), k)
        /\ Share(lqueue[t], k) # <<>>
        /\ \A j \in Kernels \ {k} : Share(RestLocal(t), j) = Share(lqueue[t], j)
    <3> DEFINE q == lqueue[t]
    <3>1. q \in Seq(Event) /\ q # <<>> /\ ev = Head(q) /\ k = Head(q).kernel
          /\ RestLocal(t) = Tail(q)
      BY <1>1, <1>4, <2>1
    <3> HIDE DEF q, ev
    <3>2. QED
      BY <3>1, FirstOfShare, Zenon DEF q
  <2>3. thread[k] = t /\ (Arrived(k, t) \/ Expected(k, t))
    BY <2>2, SomethingOwned, Zenon
  <2>4. Arrived(k, t)
    BY <2>2, <2>3, Zenon DEF Expected
  <2>5. Share(RestLocal(t), k) \in Seq(Event)
    BY <2>2, ShareType, Zenon
  <2>6. <<ev>> \o Share(RestLocal(t), k) \in Seq(Plain({k}))
    BY <2>2, <2>4, Zenon DEF Arrived
  <2> HIDE DEF ev
  <2>7. ev \in Plain({k}) /\ Share(RestLocal(t), k) \in Seq(Plain({k}))
    BY <2>2, <2>5, <2>6, ConsParts, Zenon
  <2>8. type # "import"
    BY <1>1, <1>2, <2>7, Zenon
  <2>9. /\ Share(RestQueued(t), k) \in Seq(Plain({k}))
        /\ Share(pending[t], k) \in Seq(Plain({k}))
    BY <2>1, <2>4, Zenon DEF Arrived
  <2>10. QED
    BY <1>1, <2>1, <2>2, <2>3, <2>4, <2>7, <2>8, <2>9, Zenon DEF ev
<1>5. CASE lqueue[t] = <<>>
  <2>1. /\ ev = Head(pqueue[t]) /\ RestLocal(t) = <<>> /\ RestQueued(t) = Tail(pqueue[t])
        /\ pqueue[t] # <<>>
    BY <1>1, <1>5 DEF NextEvent, RestLocal, RestQueued
  <2>2. /\ ev \in Event /\ k \in Kernels /\ RestQueued(t) \in Seq(Event)
        /\ Share(pqueue[t], k) = <<ev>> \o Share(RestQueued(t), k)
        /\ Share(pqueue[t], k) # <<>>
        /\ \A j \in Kernels \ {k} : Share(RestQueued(t), j) = Share(pqueue[t], j)
    <3> DEFINE q == pqueue[t]
    <3>1. q \in Seq(Event) /\ q # <<>> /\ ev = Head(q) /\ k = Head(q).kernel
          /\ RestQueued(t) = Tail(q)
      BY <1>1, <2>1
    <3> HIDE DEF q, ev
    <3>2. QED
      BY <3>1, FirstOfShare, Zenon DEF q
  <2>3. thread[k] = t /\ (Arrived(k, t) \/ Expected(k, t))
    BY <2>2, SomethingOwned, Zenon
  <2>4. Share(RestQueued(t), k) \in Seq(Event)
    BY <2>2, ShareType, Zenon
  <2>5. /\ \A j : Share(<<>>, j) = <<>>
        /\ <<>> \in Seq(Event) /\ <<>> \in Seq(Plain({k}))
    BY KeepEmpty, EmptySeq DEF Share
  <2> HIDE DEF ev
  <2>6. CASE Arrived(k, t)
    <3>1. <<ev>> \o Share(RestQueued(t), k) \in Seq(Plain({k}))
      BY <2>2, <2>6, Zenon DEF Arrived
    <3>2. ev \in Plain({k}) /\ Share(RestQueued(t), k) \in Seq(Plain({k}))
      BY <2>2, <2>4, <3>1, ConsParts, Zenon
    <3>3. type # "import" /\ Share(pending[t], k) \in Seq(Plain({k}))
      BY <1>1, <1>2, <2>6, <3>2, Zenon DEF Arrived
    <3>4. QED
      BY <1>1, <1>5, <2>1, <2>2, <2>3, <2>5, <2>6, <3>2, <3>3, Zenon DEF ev
  <2>7. CASE Expected(k, t)
    <3>1. Brings(Share(pqueue[t], k), k) /\ Share(pending[t], k) \in Seq(Plain({k}))
      BY <2>2, <2>7, Zenon DEF Expected
    <3>2. PICK c \in Carriers(k), r \in Seq(Plain({k})) : Share(pqueue[t], k) = <<c>> \o r
      BY <3>1, Zenon DEF Brings
    <3>3. c \in Event /\ r \in Seq(Event)
      BY <2>2, PlainOwn, ShareOfPlain, Zenon
    <3>4. ev = c /\ Share(RestQueued(t), k) = r
      <4> DEFINE s == Share(RestQueued(t), k)
      <4>1. s \in Seq(Event) /\ ev \in Event /\ <<ev>> \o s = <<c>> \o r
        BY <2>2, <2>4, <3>2
      <4> HIDE DEF s
      <4>2. Head(<<ev>> \o s) = ev /\ Tail(<<ev>> \o s) = s
        BY <4>1, ConsFacts, Zenon
      <4>3. Head(<<c>> \o r) = c /\ Tail(<<c>> \o r) = r
        BY <3>3, ConsFacts, Zenon
      <4>4. QED
        BY <4>1, <4>2, <4>3, Zenon DEF s
    <3>5. type = "import"
      BY <1>1, <1>3, <3>4, Zenon
    <3>6. QED
      BY <1>1, <1>5, <2>1, <2>2, <2>3, <2>5, <2>7, <3>1, <3>2, <3>4, <3>5, Zenon DEF ev
  <2>8. QED
    BY <2>3, <2>6, <2>7, Zenon
<1>6. QED
  BY <1>4, <1>5

(* The two cases by themselves.                                             *)
LEMMA TakenPlain ==
    ASSUME IndInv, NEW t \in Threads, NEW type, type # "import", Taking(t, type),
           NEW k, k = NextEvent(t).kernel
    PROVE  /\ k \in Kernels /\ thread[k] = t /\ Arrived(k, t)
           /\ RestLocal(t) \in Seq(Event) /\ RestQueued(t) \in Seq(Event)
           /\ \A j \in Kernels \ {k} :
                 /\ Share(RestLocal(t), j) = Share(lqueue[t], j)
                 /\ Share(RestQueued(t), j) = Share(pqueue[t], j)
           /\ Share(RestLocal(t), k) \in Seq(Plain({k}))
           /\ Share(RestQueued(t), k) \in Seq(Plain({k}))
           /\ Share(pending[t], k) \in Seq(Plain({k}))
<1>1. /\ k \in Kernels /\ thread[k] = t
      /\ RestLocal(t) \in Seq(Event) /\ RestQueued(t) \in Seq(Event)
  BY TakenEvent, ZenonT(40)
<1>2. \A j \in Kernels \ {k} :
         /\ Share(RestLocal(t), j) = Share(lqueue[t], j)
         /\ Share(RestQueued(t), j) = Share(pqueue[t], j)
  BY TakenEvent, ZenonT(40)
<1>3. Arrived(k, t) /\ Share(RestLocal(t), k) \in Seq(Plain({k}))
  BY TakenEvent, ZenonT(40)
<1>4. /\ Share(RestQueued(t), k) \in Seq(Plain({k}))
      /\ Share(pending[t], k) \in Seq(Plain({k}))
  BY TakenEvent, ZenonT(40)
<1>5. QED
  BY <1>1, <1>2, <1>3, <1>4, Zenon


LEMMA TakenImport ==
    ASSUME IndInv, NEW t \in Threads, Taking(t, "import"),
           NEW k, k = NextEvent(t).kernel
    PROVE  /\ k \in Kernels /\ thread[k] = t /\ Expected(k, t)
           /\ NextEvent(t) \in Carriers(k)
           /\ RestLocal(t) \in Seq(Event) /\ RestQueued(t) \in Seq(Event)
           /\ \A j \in Kernels \ {k} :
                 /\ Share(RestLocal(t), j) = Share(lqueue[t], j)
                 /\ Share(RestQueued(t), j) = Share(pqueue[t], j)
           /\ Share(RestLocal(t), k) = <<>>
           /\ Share(RestQueued(t), k) \in Seq(Plain({k}))
           /\ Share(pending[t], k) \in Seq(Plain({k}))
<1> DEFINE type == "import"
<1>0. Taking(t, type) /\ type = "import"
  OBVIOUS
<1> HIDE DEF type
<1>1. /\ k \in Kernels /\ thread[k] = t
      /\ RestLocal(t) \in Seq(Event) /\ RestQueued(t) \in Seq(Event)
  BY <1>0, TakenEvent, ZenonT(40)
<1>2. \A j \in Kernels \ {k} :
         /\ Share(RestLocal(t), j) = Share(lqueue[t], j)
         /\ Share(RestQueued(t), j) = Share(pqueue[t], j)
  BY <1>0, TakenEvent, ZenonT(40)
<1>3. Expected(k, t) /\ NextEvent(t) \in Carriers(k) /\ Share(RestLocal(t), k) = <<>>
  BY <1>0, TakenEvent, ZenonT(40)
<1>4. /\ Share(RestQueued(t), k) \in Seq(Plain({k}))
      /\ Share(pending[t], k) \in Seq(Plain({k}))
  BY <1>0, TakenEvent, ZenonT(40)
<1>5. QED
  BY <1>1, <1>2, <1>3, <1>4, Zenon

-----------------------------------------------------------------------------
(***************************************************************************)
(* Steps that concern one kernel at one thread.                            *)
(***************************************************************************)
SameFor(k, t) ==
    /\ k \in list_kernel'[t] <=> k \in list_kernel[t]
    /\ Share(lqueue'[t], k) = Share(lqueue[t], k)
    /\ Share(pqueue'[t], k) = Share(pqueue[t], k)
    /\ Share(pending'[t], k) = Share(pending[t], k)

LEMMA SameStays ==
    ASSUME NEW k, NEW t, SameFor(k, t)
    PROVE  /\ Away(k, t) => Away(k, t)'
           /\ Arrived(k, t) => Arrived(k, t)'
           /\ Expected(k, t) => Expected(k, t)'
BY Zenon DEF SameFor, Away, Arrived, Expected

LEMMA PlacedFrame ==
    ASSUME IndInv, NEW k \in Kernels, NEW t \in Threads, thread[k] = t, thread' = thread,
           \A j \in Kernels, u \in Threads : j # k \/ u # t => SameFor(j, u),
           Arrived(k, t)' \/ Expected(k, t)'
    PROVE  Placed'
<1>1. thread \in [Kernels -> Threads] /\ Placed
  BY DEF IndInv, HomeType
<1>2. ASSUME NEW j \in Kernels
      PROVE  Arrived(j, thread[j])' \/ Expected(j, thread[j])'
  <2>1. PICK u \in Threads : u = thread[j]
    BY <1>1
  <2>2. u = thread'[j]
    BY <2>1
  <2>3. Arrived(j, u)' \/ Expected(j, u)'
    <3>1. CASE j = k
      BY <2>1, <3>1
    <3>2. CASE j # k
      <4>1. SameFor(j, u) /\ (Arrived(j, u) \/ Expected(j, u))
        BY <1>1, <2>1, <3>2 DEF Placed
      <4>2. QED
        BY <4>1, SameStays, Zenon
    <3>3. QED
      BY <3>1, <3>2
  <2>4. QED
    BY <2>2, <2>3, Zenon DEF Arrived, Expected
<1>3. ASSUME NEW j \in Kernels, NEW u \in Threads, u # thread[j]
      PROVE  Away(j, u)'
  <2>1. SameFor(j, u) /\ Away(j, u)
    BY <1>1, <1>3 DEF Placed
  <2>2. QED
    BY <2>1, SameStays, Zenon
<1>4. thread' = thread
  OBVIOUS
<1>5. QED
  BY <1>2, <1>3, <1>4, Zenon DEF Placed

(* A message, or a request to move, joins what belongs to a kernel.         *)
LEMMA BringsMore ==
    ASSUME NEW k \in Kernels, NEW q \in Seq(Event), Brings(q, k), NEW m \in Plain({k})
    PROVE  Brings(Append(q, m), k)
<1>1. PICK c \in Carriers(k), r \in Seq(Plain({k})) : q = <<c>> \o r
  BY Zenon DEF Brings
<1>2. c \in Event /\ r \in Seq(Event) /\ m \in Event
  BY PlainOwn, ShareOfPlain, Zenon
<1>3. Append(<<c>> \o r, m) = <<c>> \o Append(r, m)
  BY <1>2
<1>4. Append(r, m) \in Seq(Plain({k}))
  OBVIOUS
<1>5. QED
  BY <1>1, <1>3, <1>4, Zenon DEF Brings

LEMMA MsgPlain ==
    ASSUME HomeType, NEW k \in Kernels
    PROVE  /\ Msg(k, Len(posted) + 1) \in Plain({k}) /\ Export(k) \in Plain({k})
           /\ Msg(k, Len(posted) + 1) \in Own(k) /\ Export(k) \in Own(k)
           /\ Msg(k, Len(posted) + 1) \in Event /\ Export(k) \in Event
<1>1. Len(posted) \in Nat
  BY LenProperties DEF HomeType
<1>2. Msg(k, Len(posted) + 1) \in Plain({k}) /\ Export(k) \in Plain({k})
  BY <1>1 DEF Msg, Export, Plain
<1>3. QED
  BY <1>2, PlainOwn

LEMMA RecordType ==
    ASSUME HomeType, NEW k \in Kernels, NEW lane \in {"shared", "local"}, Record(k, lane)
    PROVE  /\ posted' \in Seq([kernel : Kernels, lane : {"shared", "local"}, hop : Nat])
           /\ hop' = hop
           /\ Len(posted') = Len(posted) + 1
<1> DEFINE rec == [kernel |-> k, lane |-> lane, hop |-> hop[k]]
           Rec == [kernel : Kernels, lane : {"shared", "local"}, hop : Nat]
<1>1. rec \in Rec
  BY DEF HomeType
<1>2. posted \in Seq(Rec) /\ posted' = Append(posted, rec) /\ hop' = hop
  BY DEF HomeType, Record
<1> HIDE DEF rec, Rec
<1>3. posted' \in Seq(Rec) /\ Len(posted') = Len(posted) + 1
  BY <1>1, <1>2
<1>4. QED
  BY <1>2, <1>3 DEF Rec

LEMMA PostSharedKeepsInv ==
    ASSUME IndInv, NEW k \in Kernels, PostShared(k), NEW t \in Threads, t = thread[k],
           NEW m, m = Msg(k, Len(posted) + 1)
    PROVE  IndInv'
<1>1. /\ thread' = thread /\ target' = target /\ pc' = pc /\ current' = current
      /\ list_kernel' = list_kernel /\ lqueue' = lqueue /\ pqueue' = pqueue
      /\ Record(k, "shared")
      /\ pending' = [pending EXCEPT ![t] = Append(@, Msg(k, Len(posted')))]
  BY DEF PostShared, glob
<1>2. t \in Threads /\ pending \in [Threads -> Seq(Event)]
  BY DEF IndInv, HomeType
<1>3. m \in Plain({k}) /\ m \in Own(k) /\ m \in Event
  BY MsgPlain DEF IndInv
<1>4. /\ posted' \in Seq([kernel : Kernels, lane : {"shared", "local"}, hop : Nat])
      /\ hop' = hop /\ Len(posted') = Len(posted) + 1
  BY <1>1, RecordType DEF IndInv
<1>5. pending' = [pending EXCEPT ![t] = Append(@, m)]
  BY <1>1, <1>4
<1>6. pending'[t] = Append(pending[t], m) /\ \A u \in Threads \ {t} : pending'[u] = pending[u]
  BY <1>2, <1>5
<1>7. /\ Append(pending[t], m) \in Seq(Event)
      /\ \A j : Share(Append(pending[t], m), j) =
             IF m \in Own(j) THEN Append(Share(pending[t], j), m) ELSE Share(pending[t], j)
  <2> DEFINE q == pending[t]
  <2>1. q \in Seq(Event) /\ m \in Event
    BY <1>2, <1>3
  <2> HIDE DEF q
  <2>2. \A j : /\ Append(q, m) \in Seq(Event)
               /\ Share(Append(q, m), j) = IF m \in Own(j) THEN Append(Share(q, j), m)
                                                           ELSE Share(q, j)
    BY <2>1, ShareAppend, Zenon
  <2>3. QED
    BY <2>2, Zenon DEF q
<1>8. HomeType'
  <2>1. pending' \in [Threads -> Seq(Event)]
    BY <1>2, <1>5, <1>7
  <2>2. QED
    BY <1>1, <1>4, <2>1 DEF IndInv, HomeType
<1>9. RunsAtHome' /\ Phases'
  BY <1>1 DEF IndInv, RunsAtHome, Phases
<1>10. \A j \in Kernels \ {k} : m \notin Own(j)
  BY <1>3, OwnApart, Zenon
<1>11. \A j \in Kernels, u \in Threads : j # k \/ u # t => SameFor(j, u)
  BY <1>1, <1>6, <1>7, <1>10, Zenon DEF SameFor
<1>12. Arrived(k, t)' \/ Expected(k, t)'
  <2>1. Share(pending'[t], k) = Append(Share(pending[t], k), m)
    BY <1>3, <1>6, <1>7, Zenon
  <2>2. CASE Arrived(k, t)
    <3>1. Share(pending[t], k) \in Seq(Plain({k}))
      BY <2>2 DEF Arrived
    <3>2. Append(Share(pending[t], k), m) \in Seq(Plain({k}))
      BY <1>3, <3>1
    <3>3. QED
      BY <1>1, <2>1, <2>2, <3>2, Zenon DEF Arrived
  <2>3. CASE Expected(k, t)
    <3>1. Share(pending[t], k) \in Seq(Plain({k})) =>
             Append(Share(pending[t], k), m) \in Seq(Plain({k}))
      BY <1>3
    <3>2. Share(pending[t], k) \in Seq(Event)
      BY <1>2, ShareType
    <3>3. Brings(Share(pending[t], k), k) => Brings(Append(Share(pending[t], k), m), k)
      BY <1>3, <3>2, BringsMore, Zenon
    <3>4. QED
      BY <1>1, <2>1, <2>3, <3>1, <3>3, Zenon DEF Expected
  <2>4. Arrived(k, t) \/ Expected(k, t)
    BY Zenon DEF IndInv, Placed
  <2>5. QED
    BY <2>2, <2>3, <2>4
<1>13. Placed'
  BY <1>1, <1>11, <1>12, PlacedFrame, Zenon
<1>14. QED
  BY <1>8, <1>9, <1>13 DEF IndInv

(* The kernel whose handler runs has arrived at the thread.                 *)
LEMMA CurrentArrived ==
    ASSUME IndInv, NEW t \in Threads, pc[t] = "handling", NEW k, k = current[t]
    PROVE  k \in Kernels /\ thread[k] = t /\ Arrived(k, t)
<1>1. k # None /\ k \in Kernels /\ thread[k] = t /\ k \in list_kernel[t]
  BY DEF IndInv, HomeType, Phases, RunsAtHome
<1>2. Arrived(k, t) \/ Expected(k, t)
  BY <1>1, Zenon DEF IndInv, Placed
<1>3. QED
  BY <1>1, <1>2, Zenon DEF Expected

LEMMA PostLocalKeepsInv ==
    ASSUME IndInv, NEW t \in Threads, PostLocal(t), NEW k, k = current[t],
           NEW m, m = Msg(k, Len(posted) + 1)
    PROVE  IndInv'
<1>1. /\ thread' = thread /\ target' = target /\ pc' = pc /\ current' = current
      /\ list_kernel' = list_kernel /\ pending' = pending /\ pqueue' = pqueue
      /\ pc[t] = "handling" /\ Record(k, "local")
      /\ lqueue' = [lqueue EXCEPT ![thread[k]] = Append(@, Msg(k, Len(posted')))]
  BY DEF PostLocal, glob
<1>2. k \in Kernels /\ thread[k] = t /\ Arrived(k, t)
  BY <1>1, CurrentArrived, Zenon
<1>3. m \in Plain({k}) /\ m \in Own(k) /\ m \in Event
  BY <1>2, MsgPlain DEF IndInv
<1>4. /\ posted' \in Seq([kernel : Kernels, lane : {"shared", "local"}, hop : Nat])
      /\ hop' = hop /\ Len(posted') = Len(posted) + 1
  BY <1>1, <1>2, RecordType DEF IndInv
<1>5. lqueue \in [Threads -> Seq(Event)] /\ lqueue[t] \in Seq(Event)
  BY DEF IndInv, HomeType
<1>6. /\ lqueue' = [lqueue EXCEPT ![t] = Append(@, m)]
      /\ lqueue'[t] = Append(lqueue[t], m)
      /\ \A u \in Threads \ {t} : lqueue'[u] = lqueue[u]
  BY <1>1, <1>2, <1>4, <1>5
<1>7. /\ Append(lqueue[t], m) \in Seq(Event)
      /\ \A j : Share(Append(lqueue[t], m), j) =
             IF m \in Own(j) THEN Append(Share(lqueue[t], j), m) ELSE Share(lqueue[t], j)
  BY <1>3, <1>5, ShareAppend, Zenon
<1>8. HomeType'
  <2>1. lqueue' \in [Threads -> Seq(Event)]
    BY <1>5, <1>6, <1>7
  <2>2. QED
    BY <1>1, <1>4, <2>1 DEF IndInv, HomeType
<1>9. RunsAtHome' /\ Phases'
  <2>1. \A u \in Threads : pc[u] = "waiting" => lqueue'[u] = lqueue[u]
    BY <1>1, <1>6
  <2>2. QED
    BY <1>1, <2>1 DEF IndInv, RunsAtHome, Phases
<1>10. \A j \in Kernels \ {k} : m \notin Own(j)
  BY <1>2, <1>3, OwnApart, Zenon
<1>11. \A j \in Kernels, u \in Threads : j # k \/ u # t => SameFor(j, u)
  BY <1>1, <1>6, <1>7, <1>10, Zenon DEF SameFor
<1>12. Arrived(k, t)'
  <2>1. Share(lqueue'[t], k) = Append(Share(lqueue[t], k), m)
    BY <1>3, <1>6, <1>7, Zenon
  <2>2. Share(lqueue[t], k) \in Seq(Plain({k}))
    BY <1>2 DEF Arrived
  <2>3. Append(Share(lqueue[t], k), m) \in Seq(Plain({k}))
    BY <1>3, <2>2
  <2>4. QED
    BY <1>1, <1>2, <2>1, <2>3, Zenon DEF Arrived
<1>13. Placed'
  BY <1>1, <1>2, <1>11, <1>12, PlacedFrame, Zenon
<1>14. QED
  BY <1>8, <1>9, <1>13 DEF IndInv

LEMMA MoveToThreadKeepsInv ==
    ASSUME MigrationAssumption, IndInv, NEW t \in Threads, NEW to \in Threads, MoveToThread(t, to),
           NEW k, k = current[t], NEW e, e = Export(k)
    PROVE  IndInv'
<1>1. /\ thread' = thread /\ pc' = pc /\ current' = current /\ pc[t] = "handling"
      /\ list_kernel' = list_kernel /\ pending' = pending /\ pqueue' = pqueue
      /\ hop' = hop /\ posted' = posted
      /\ target' = [target EXCEPT ![k] = IF to = thread[k] THEN None ELSE to]
      /\ lqueue' = lqueue \/ lqueue' = [lqueue EXCEPT ![t] = Cons(e, @)]
  BY DEF MoveToThread, glob
<1>2. k \in Kernels /\ thread[k] = t /\ Arrived(k, t)
  BY <1>1, CurrentArrived, Zenon
<1>3. e \in Plain({k}) /\ e \in Own(k) /\ e \in Event
  BY <1>2, MsgPlain DEF IndInv
<1>4. target' \in [Kernels -> Threads \cup {None}]
  BY <1>1, <1>2 DEF IndInv, HomeType
<1>5. lqueue \in [Threads -> Seq(Event)] /\ lqueue[t] \in Seq(Event)
  BY DEF IndInv, HomeType
<1>6. CASE lqueue' = lqueue
  <2>1. HomeType' /\ RunsAtHome' /\ Phases'
    BY <1>1, <1>4, <1>6 DEF IndInv, HomeType, RunsAtHome, Phases
  <2>2. Placed'
    BY <1>1, <1>6, Zenon DEF IndInv, Placed, Arrived, Expected, Away
  <2>3. QED
    BY <2>1, <2>2 DEF IndInv
<1>7. CASE lqueue' = [lqueue EXCEPT ![t] = Cons(e, @)]
  <2>1. /\ lqueue'[t] = Cons(e, lqueue[t])
        /\ \A u \in Threads \ {t} : lqueue'[u] = lqueue[u]
    BY <1>5, <1>7
  <2>2. /\ Cons(e, lqueue[t]) \in Seq(Event)
        /\ \A j : Share(Cons(e, lqueue[t]), j) =
               IF e \in Own(j) THEN <<e>> \o Share(lqueue[t], j) ELSE Share(lqueue[t], j)
    BY <1>3, <1>5, ShareCons, Zenon
  <2>3. HomeType'
    <3>1. lqueue' \in [Threads -> Seq(Event)]
      BY <1>5, <1>7, <2>2
    <3>2. QED
      BY <1>1, <1>4, <3>1 DEF IndInv, HomeType
  <2>4. RunsAtHome' /\ Phases'
    <3>1. \A u \in Threads : pc[u] = "waiting" => lqueue'[u] = lqueue[u]
      BY <1>1, <2>1
    <3>2. QED
      BY <1>1, <3>1 DEF IndInv, RunsAtHome, Phases
  <2>5. \A j \in Kernels \ {k} : e \notin Own(j)
    BY <1>2, <1>3, OwnApart, Zenon
  <2>6. \A j \in Kernels, u \in Threads : j # k \/ u # t => SameFor(j, u)
    BY <1>1, <2>1, <2>2, <2>5, Zenon DEF SameFor
  <2>7. Arrived(k, t)'
    <3>1. Share(lqueue'[t], k) = <<e>> \o Share(lqueue[t], k)
      BY <1>3, <2>1, <2>2, Zenon
    <3>2. Share(lqueue[t], k) \in Seq(Plain({k}))
      BY <1>2 DEF Arrived
    <3>3. <<e>> \o Share(lqueue[t], k) \in Seq(Plain({k}))
      BY <1>3, <3>2, ConsFacts, Zenon
    <3>4. QED
      BY <1>1, <1>2, <3>1, <3>3, Zenon DEF Arrived
  <2>8. Placed'
    BY <1>1, <1>2, <2>6, <2>7, PlacedFrame, Zenon
  <2>9. QED
    BY <2>3, <2>4, <2>8 DEF IndInv
<1>8. QED
  BY <1>1, <1>6, <1>7, Zenon
-----------------------------------------------------------------------------
(***************************************************************************)
(* Steps of the loop.                                                      *)
(***************************************************************************)

(* An event that brings no kernel is taken from the head of the queue.      *)
LEMMA PlainTaken ==
    ASSUME IndInv, NEW t \in Threads, NEW type, type # "import", Taking(t, type),
           NEW k, k = NextEvent(t).kernel,
           thread' = thread, list_kernel' = list_kernel, pending' = pending,
           lqueue' = [lqueue EXCEPT ![t] = RestLocal(t)],
           pqueue' = [pqueue EXCEPT ![t] = RestQueued(t)]
    PROVE  /\ k \in Kernels /\ thread[k] = t /\ k \in list_kernel[t]
           /\ lqueue' \in [Threads -> Seq(Event)] /\ pqueue' \in [Threads -> Seq(Event)]
           /\ \A u \in Threads \ {t} : lqueue'[u] = lqueue[u] /\ pqueue'[u] = pqueue[u]
           /\ Placed'
<1>1. /\ k \in Kernels /\ thread[k] = t /\ Arrived(k, t)
      /\ RestLocal(t) \in Seq(Event) /\ RestQueued(t) \in Seq(Event)
      /\ \A j \in Kernels \ {k} :
             /\ Share(RestLocal(t), j) = Share(lqueue[t], j)
             /\ Share(RestQueued(t), j) = Share(pqueue[t], j)
      /\ Share(RestLocal(t), k) \in Seq(Plain({k}))
      /\ Share(RestQueued(t), k) \in Seq(Plain({k}))
      /\ Share(pending[t], k) \in Seq(Plain({k}))
  BY TakenPlain
<1>2. /\ lqueue'[t] = RestLocal(t) /\ pqueue'[t] = RestQueued(t)
      /\ \A u \in Threads \ {t} : lqueue'[u] = lqueue[u] /\ pqueue'[u] = pqueue[u]
      /\ lqueue' \in [Threads -> Seq(Event)] /\ pqueue' \in [Threads -> Seq(Event)]
  BY <1>1 DEF IndInv, HomeType
<1>3. \A j \in Kernels, u \in Threads : j # k \/ u # t => SameFor(j, u)
  BY <1>1, <1>2, Zenon DEF SameFor
<1>4. Arrived(k, t)'
  BY <1>1, <1>2, Zenon DEF Arrived
<1>5. Placed'
  BY <1>1, <1>3, <1>4, PlacedFrame, Zenon
<1>6. QED
  BY <1>1, <1>2, <1>5, Zenon DEF Arrived

LEMMA DispatchMsgKeepsInv ==
    ASSUME MigrationAssumption, IndInv, NEW t \in Threads, DispatchMsg(t),
           NEW k, k = NextEvent(t).kernel
    PROVE  IndInv'
<1>1. /\ thread' = thread /\ target' = target /\ list_kernel' = list_kernel
      /\ pending' = pending /\ hop' = hop /\ posted' = posted
      /\ Taking(t, "msg")
      /\ current' = [current EXCEPT ![t] = k] /\ pc' = [pc EXCEPT ![t] = "handling"]
      /\ lqueue' = [lqueue EXCEPT ![t] = RestLocal(t)]
      /\ pqueue' = [pqueue EXCEPT ![t] = RestQueued(t)]
  BY DEF DispatchMsg, glob
<1>2. /\ k \in Kernels /\ thread[k] = t /\ k \in list_kernel[t]
      /\ lqueue' \in [Threads -> Seq(Event)] /\ pqueue' \in [Threads -> Seq(Event)]
      /\ \A u \in Threads \ {t} : lqueue'[u] = lqueue[u] /\ pqueue'[u] = pqueue[u]
      /\ Placed'
  <2>1. "msg" # "import"
    OBVIOUS
  <2>2. QED
    BY <1>1, <2>1, PlainTaken
<1>3. HomeType
  BY DEF IndInv
<1>4. HomeType'
  BY <1>1, <1>2, <1>3 DEF HomeType
<1>5. k # None
  BY <1>2 DEF MigrationAssumption
<1>6. /\ current'[t] = k /\ pc'[t] = "handling"
      /\ \A u \in Threads \ {t} : current'[u] = current[u] /\ pc'[u] = pc[u]
  BY <1>1, <1>3 DEF HomeType
<1>7. RunsAtHome'
  BY <1>1, <1>2, <1>6 DEF IndInv, RunsAtHome
<1>8. Phases'
  BY <1>2, <1>5, <1>6 DEF IndInv, Phases
<1>9. QED
  BY <1>2, <1>4, <1>7, <1>8 DEF IndInv

(* What belongs to a kernel goes behind a queue.                            *)
LEMMA ShareJoined ==
    ASSUME NEW k \in Kernels, NEW q \in Seq(Event), Share(q, k) \in Seq(Plain({k})),
           NEW r \in Seq(Plain({k}))
    PROVE  /\ q \o r \in Seq(Event) /\ Share(q \o r, k) \in Seq(Plain({k}))
           /\ Share(q \o r, k) = Share(q, k) \o r
           /\ \A j \in Kernels \ {k} : Share(q \o r, j) = Share(q, j)
<1>1. r \in Seq(Event) /\ Share(r, k) = r /\ \A j \in Kernels \ {k} : Share(r, j) = <<>>
  BY ShareOfPlain
<1>2. q \o r \in Seq(Event) /\ \A j : Share(q \o r, j) = Share(q, j) \o Share(r, j)
  BY <1>1, ShareConcat
<1>3. Share(q \o r, k) \in Seq(Plain({k})) /\ Share(q \o r, k) = Share(q, k) \o r
  <2>1. Share(q \o r, k) = Share(q, k) \o r
    BY <1>1, <1>2
  <2> DEFINE P == Plain({k})
             s == Share(q, k)
  <2>2. s \in Seq(P) /\ r \in Seq(P)
    OBVIOUS
  <2> HIDE DEF P, s
  <2>3. s \o r \in Seq(P)
    BY <2>2, ConcatProperties, Zenon
  <2>4. QED
    BY <2>1, <2>3 DEF P, s
<1>4. ASSUME NEW j \in Kernels \ {k} PROVE Share(q \o r, j) = Share(q, j)
  <2>1. Share(q \o r, j) = Share(q, j) \o <<>>
    BY <1>1, <1>2
  <2> DEFINE s == Share(q, j)
  <2>2. s \in Seq(Event)
    BY ShareType
  <2> HIDE DEF s
  <2>3. s \o <<>> = s
    BY <2>2, ConcatEmptySeq, Zenon
  <2>4. QED
    BY <2>1, <2>3 DEF s
<1>5. QED
  BY <1>2, <1>3, <1>4

Joined(t, k, lq, pq) ==
    /\ Share(lqueue'[t], k) = lq
    /\ Share(pqueue'[t], k) = Share(RestQueued(t), k) \o pq

SameElsewhere(k, t) ==
    \A j \in Kernels, u \in Threads : j # k \/ u # t => SameFor(j, u)

(* The kernel arrives, with what it brings behind what is queued already.   *)
LEMMA ImportMoves ==
    ASSUME IndInv, NEW t \in Threads, DispatchImport(t),
           NEW k, k = NextEvent(t).kernel, NEW lq, lq = NextEvent(t).lqueue,
           NEW pq, pq = NextEvent(t).pqueue
    PROVE  /\ k \in Kernels /\ thread[k] = t /\ k \in list_kernel'[t]
           /\ \A u \in Threads : list_kernel[u] \subseteq list_kernel'[u]
           /\ list_kernel' \in [Threads -> SUBSET Kernels]
           /\ lqueue' \in [Threads -> Seq(Event)] /\ pqueue' \in [Threads -> Seq(Event)]
           /\ \A u \in Threads \ {t} : lqueue'[u] = lqueue[u] /\ pqueue'[u] = pqueue[u]
           /\ SameElsewhere(k, t)
           /\ Joined(t, k, lq, pq)
           /\ Arrived(k, t)'
<1>1. /\ pending' = pending
      /\ pc[t] = "taking" /\ Taking(t, "import")
      /\ list_kernel' = [list_kernel EXCEPT ![t] = @ \cup {k}]
      /\ lqueue' = [lqueue EXCEPT ![t] = RestLocal(t) \o lq]
      /\ pqueue' = [pqueue EXCEPT ![t] = RestQueued(t) \o pq]
  BY DEF DispatchImport, Taking
<1>2. /\ k \in Kernels /\ thread[k] = t /\ NextEvent(t) \in Carriers(k)
      /\ RestLocal(t) \in Seq(Event) /\ RestQueued(t) \in Seq(Event)
      /\ \A j \in Kernels \ {k} :
             /\ Share(RestLocal(t), j) = Share(lqueue[t], j)
             /\ Share(RestQueued(t), j) = Share(pqueue[t], j)
      /\ Share(RestLocal(t), k) = <<>>
      /\ Share(RestQueued(t), k) \in Seq(Plain({k}))
      /\ Share(pending[t], k) \in Seq(Plain({k}))
  <2>1. Taking(t, "import")
    BY <1>1
  <2>2. QED
    BY <2>1, TakenImport, ZenonT(40)
<1>3. lq \in Seq(Plain({k})) /\ pq \in Seq(Plain({k}))
  BY <1>2 DEF Carriers
<1>4. Share(RestLocal(t), k) \in Seq(Plain({k}))
  BY <1>2, EmptySeq, Zenon
<1>5. /\ RestLocal(t) \o lq \in Seq(Event) /\ Share(RestLocal(t) \o lq, k) \in Seq(Plain({k}))
      /\ Share(RestLocal(t) \o lq, k) = <<>> \o lq
      /\ \A j \in Kernels \ {k} : Share(RestLocal(t) \o lq, j) = Share(lqueue[t], j)
  <2> DEFINE q == RestLocal(t)
  <2>1. q \in Seq(Event) /\ Share(q, k) \in Seq(Plain({k}))
    BY <1>2, <1>4
  <2>2. \A j \in Kernels \ {k} : Share(q, j) = Share(lqueue[t], j)
    BY <1>2
  <2> HIDE DEF q
  <2>3. /\ q \o lq \in Seq(Event) /\ Share(q \o lq, k) \in Seq(Plain({k}))
        /\ Share(q \o lq, k) = Share(q, k) \o lq
        /\ \A j \in Kernels \ {k} : Share(q \o lq, j) = Share(q, j)
    BY <1>2, <1>3, <2>1, ShareJoined
  <2>4. /\ q \o lq \in Seq(Event) /\ Share(q \o lq, k) \in Seq(Plain({k}))
        /\ \A j \in Kernels \ {k} : Share(q \o lq, j) = Share(lqueue[t], j)
    BY <2>2, <2>3, Zenon
  <2>5. Share(q, k) = <<>> => Share(q \o lq, k) = <<>> \o lq
    BY <2>3
  <2>6. QED
    BY <1>2, <2>4, <2>5 DEF q
<1>6. /\ RestQueued(t) \o pq \in Seq(Event) /\ Share(RestQueued(t) \o pq, k) \in Seq(Plain({k}))
      /\ Share(RestQueued(t) \o pq, k) = Share(RestQueued(t), k) \o pq
      /\ \A j \in Kernels \ {k} : Share(RestQueued(t) \o pq, j) = Share(pqueue[t], j)
  <2> DEFINE q == RestQueued(t)
  <2>1. q \in Seq(Event) /\ Share(q, k) \in Seq(Plain({k}))
    BY <1>2
  <2>2. \A j \in Kernels \ {k} : Share(q, j) = Share(pqueue[t], j)
    BY <1>2
  <2> HIDE DEF q
  <2>3. /\ q \o pq \in Seq(Event) /\ Share(q \o pq, k) \in Seq(Plain({k}))
        /\ Share(q \o pq, k) = Share(q, k) \o pq
        /\ \A j \in Kernels \ {k} : Share(q \o pq, j) = Share(q, j)
    BY <1>2, <1>3, <2>1, ShareJoined
  <2>4. /\ q \o pq \in Seq(Event) /\ Share(q \o pq, k) \in Seq(Plain({k}))
        /\ \A j \in Kernels \ {k} : Share(q \o pq, j) = Share(pqueue[t], j)
    BY <2>2, <2>3, Zenon
  <2>5. Share(q \o pq, k) = Share(q, k) \o pq
    BY <2>3
  <2>6. QED
    BY <2>4, <2>5 DEF q
<1> DEFINE ql == RestLocal(t) \o lq
           qp == RestQueued(t) \o pq
<1>7. HomeType
  BY DEF IndInv
<1>8. /\ lqueue'[t] = ql /\ pqueue'[t] = qp
      /\ \A u \in Threads \ {t} : lqueue'[u] = lqueue[u] /\ pqueue'[u] = pqueue[u]
      /\ lqueue' \in [Threads -> Seq(Event)] /\ pqueue' \in [Threads -> Seq(Event)]
  <2>1. /\ lqueue' = [lqueue EXCEPT ![t] = ql] /\ pqueue' = [pqueue EXCEPT ![t] = qp]
        /\ ql \in Seq(Event) /\ qp \in Seq(Event)
    BY <1>1, <1>5, <1>6
  <2> HIDE DEF ql, qp
  <2>2. QED
    BY <1>7, <2>1 DEF HomeType
<1>9. /\ list_kernel' \in [Threads -> SUBSET Kernels]
      /\ list_kernel'[t] = list_kernel[t] \cup {k}
      /\ \A u \in Threads \ {t} : list_kernel'[u] = list_kernel[u]
  BY <1>1, <1>2, <1>7 DEF HomeType
<1>10. SameElsewhere(k, t)
  <2>1. \A j \in Kernels, u \in Threads :
            j # k \/ u # t => (j \in list_kernel'[u] <=> j \in list_kernel[u])
    BY <1>9
  <2> HIDE DEF ql, qp
  <2>2. /\ \A j \in Kernels \ {k} : Share(ql, j) = Share(lqueue[t], j)
        /\ \A j \in Kernels \ {k} : Share(qp, j) = Share(pqueue[t], j)
    BY <1>5, <1>6, Zenon DEF ql, qp
  <2>3. QED
    BY <1>1, <1>8, <2>1, <2>2, Zenon DEF SameFor, SameElsewhere
<1>11. Arrived(k, t)'
  <2> HIDE DEF ql, qp
  <2>1. Share(ql, k) \in Seq(Plain({k})) /\ Share(qp, k) \in Seq(Plain({k}))
    BY <1>5, <1>6, Zenon DEF ql, qp
  <2>2. k \in list_kernel'[t]
    BY <1>9
  <2>3. QED
    BY <1>1, <1>2, <1>8, <2>1, <2>2, Zenon DEF Arrived
<1>12. <<>> \o lq = lq
  BY <1>3, ConcatEmptySeq, Zenon
<1>13. Joined(t, k, lq, pq)
  BY <1>5, <1>6, <1>8, <1>12 DEF Joined
<1>14. \A u \in Threads : list_kernel[u] \subseteq list_kernel'[u]
  BY <1>9
<1> HIDE DEF ql, qp
<1> QED
  BY <1>2, <1>8, <1>9, <1>10, <1>11, <1>13, <1>14

LEMMA DispatchImportKeepsInv ==
    ASSUME IndInv, NEW t \in Threads, DispatchImport(t),
           NEW k, k = NextEvent(t).kernel, NEW lq, lq = NextEvent(t).lqueue,
           NEW pq, pq = NextEvent(t).pqueue
    PROVE  IndInv'
<1>1. /\ thread' = thread /\ target' = target /\ pc' = pc /\ current' = current
      /\ pending' = pending /\ hop' = hop /\ posted' = posted /\ pc[t] = "taking"
  BY DEF DispatchImport, Taking, glob, ghost
<1>2. k \in Kernels /\ thread[k] = t
  BY ImportMoves, ZenonT(40)
<1>3. /\ list_kernel' \in [Threads -> SUBSET Kernels]
      /\ lqueue' \in [Threads -> Seq(Event)] /\ pqueue' \in [Threads -> Seq(Event)]
  BY ImportMoves, ZenonT(40)
<1>4. \A u \in Threads \ {t} : lqueue'[u] = lqueue[u] /\ pqueue'[u] = pqueue[u]
  BY ImportMoves, ZenonT(40)
<1>5. \A u \in Threads : list_kernel[u] \subseteq list_kernel'[u]
  BY ImportMoves, ZenonT(40)
<1>6. SameElsewhere(k, t)
  BY ImportMoves, ZenonT(40)
<1>7. Arrived(k, t)'
  BY ImportMoves, ZenonT(40)
<1>8. HomeType'
  BY <1>1, <1>3 DEF IndInv, HomeType
<1>9. RunsAtHome'
  BY <1>1, <1>5 DEF IndInv, HomeType, RunsAtHome
<1>10. Phases'
  BY <1>1, <1>4 DEF IndInv, Phases
<1>11. Placed'
  BY <1>1, <1>2, <1>6, <1>7, PlacedFrame, Zenon DEF SameElsewhere
<1> QED
  BY <1>8, <1>9, <1>10, <1>11 DEF IndInv

(* What an exported kernel takes along belongs to it.                       *)
LEMMA TakenAlongCarries ==
    ASSUME IndInv, NEW t \in Threads, Taking(t, "export"), NEW k, k = NextEvent(t).kernel
    PROVE  /\ TakenAlong(t, k) \in Carriers(k)
           /\ TakenAlong(t, k) \in Event /\ TakenAlong(t, k) \in Own(k)
           /\ \A j \in Kernels \ {k} : TakenAlong(t, k) \notin Own(j)
<1> DEFINE lo == RestLocal(t)
           sh == RestQueued(t)
           pe == pending[t]
           P  == Plain({k})
<1>1. /\ k \in Kernels /\ lo \in Seq(Event) /\ sh \in Seq(Event)
      /\ Share(lo, k) \in Seq(P) /\ Share(sh, k) \in Seq(P) /\ Share(pe, k) \in Seq(P)
  <2>1. "export" # "import"
    OBVIOUS
  <2>2. QED
    BY <2>1, TakenPlain
<1>2. pe \in Seq(Event)
  BY DEF IndInv, HomeType
<1>3. TakenAlong(t, k) = Import(k, Of(lo, k), Of(sh, k) \o Of(pe, k))
  BY DEF TakenAlong
<1> HIDE DEF lo, sh, pe, P
<1>4. Of(lo, k) \in Seq(P) /\ Of(sh, k) \in Seq(P) /\ Of(pe, k) \in Seq(P)
  BY <1>1, <1>2, OfShare
<1>5. Of(sh, k) \o Of(pe, k) \in Seq(P)
  BY <1>4, ConcatProperties, Zenon
<1>6. TakenAlong(t, k) \in Carriers(k)
  BY <1>3, <1>4, <1>5 DEF Import, Carriers, P
<1>7. TakenAlong(t, k) \in Own(k)
  BY <1>1, <1>6, PlainOwn
<1>8. TakenAlong(t, k) \in Event
  BY <1>7 DEF Own
<1>9. \A j \in Kernels \ {k} : TakenAlong(t, k) \notin Own(j)
  BY <1>1, <1>7, OwnApart, Zenon
<1>10. QED
  BY <1>6, <1>7, <1>8, <1>9, Zenon

(* Of k there is just c in q.                                               *)
Only(c, q, k) == Share(q, k) = <<c>> \o <<>>

(* Nothing else changes when k leaves t for another thread.                 *)
OthersSame(k, t, to) ==
    \A j \in Kernels, u \in Threads : j # k \/ (u # t /\ u # to) => SameFor(j, u)

LEMMA PlacedMoved ==
    ASSUME IndInv, NEW k \in Kernels, NEW t \in Threads, thread[k] = t,
           NEW to \in Threads \ {t}, thread' = [thread EXCEPT ![k] = to],
           OthersSame(k, t, to),
           Away(k, t)', Expected(k, to)'
    PROVE  Placed'
<1>1. /\ thread \in [Kernels -> Threads] /\ Placed
      /\ \A j \in Kernels, u \in Threads : j # k \/ (u # t /\ u # to) => SameFor(j, u)
  BY DEF IndInv, HomeType, OthersSame
<1>2. thread'[k] = to /\ \A j \in Kernels \ {k} : thread'[j] = thread[j]
  BY <1>1
<1>3. ASSUME NEW j \in Kernels, NEW u \in Threads, u = thread'[j]
      PROVE  Arrived(j, u)' \/ Expected(j, u)'
  <2>1. CASE j = k
    BY <1>2, <1>3, <2>1
  <2>2. CASE j # k
    <3>1. SameFor(j, u) /\ (Arrived(j, u) \/ Expected(j, u))
      BY <1>1, <1>2, <1>3, <2>2 DEF Placed
    <3>2. QED
      BY <3>1, SameStays, Zenon
  <2>3. QED
    BY <2>1, <2>2
<1>4. ASSUME NEW j \in Kernels, NEW u \in Threads, u # thread'[j]
      PROVE  Away(j, u)'
  <2>1. CASE j = k /\ u = t
    BY <2>1
  <2>2. CASE j # k \/ u # t
    <3>1. SameFor(j, u) /\ Away(j, u)
      BY <1>1, <1>2, <1>4, <2>2 DEF Placed
    <3>2. QED
      BY <3>1, SameStays, Zenon
  <2>3. QED
    BY <2>1, <2>2
<1>5. ASSUME NEW j \in Kernels
      PROVE  (Arrived(j, thread[j]) \/ Expected(j, thread[j]))'
  <2>1. PICK u \in Threads : u = thread'[j]
    BY <1>1, <1>2
  <2>2. Arrived(j, u)' \/ Expected(j, u)'
    BY <1>3, <2>1
  <2>3. QED
    BY <2>1, <2>2, Zenon DEF Arrived, Expected
<1>6. QED
  BY <1>4, <1>5, Zenon DEF Placed

(* The kernel leaves: everything of it goes to the head of what is pending  *)
(* on the thread it moves to.                                               *)
LEMMA ExportMoves ==
    ASSUME IndInv, NEW t \in Threads, NEW to \in Threads \ {t}, Taking(t, "export"),
           NEW k, k = NextEvent(t).kernel, NEW c, c = TakenAlong(t, k),
           list_kernel' = [list_kernel EXCEPT ![t] = list_kernel[t] \ {k}],
           lqueue' = [lqueue EXCEPT ![t] = NotOf(RestLocal(t), k)],
           pqueue' = [pqueue EXCEPT ![t] = NotOf(RestQueued(t), k)],
           pending' = [pending EXCEPT ![t] = NotOf(@, k), ![to] = Cons(c, @)]
    PROVE  /\ k \in Kernels /\ thread[k] = t
           /\ lqueue' \in [Threads -> Seq(Event)] /\ pqueue' \in [Threads -> Seq(Event)]
           /\ pending' \in [Threads -> Seq(Event)]
           /\ \A u \in Threads \ {t} : lqueue'[u] = lqueue[u] /\ pqueue'[u] = pqueue[u]
           /\ \A u \in Threads \ {t} : list_kernel'[u] = list_kernel[u]
           /\ OthersSame(k, t, to)
           /\ Away(k, t)'
           /\ k \notin list_kernel'[to]
           /\ Share(lqueue'[to], k) = <<>> /\ Share(pqueue'[to], k) = <<>>
           /\ Only(c, pending'[to], k)
           /\ Expected(k, to)'
<1> DEFINE lo == RestLocal(t)
           sh == RestQueued(t)
           pe == pending[t]
           po == pending[to]
<1>1. HomeType /\ pc[t] = "taking"
  BY DEF IndInv, Taking
<1>2. /\ k \in Kernels /\ thread[k] = t
      /\ lo \in Seq(Event) /\ sh \in Seq(Event)
      /\ \A j \in Kernels \ {k} : Share(lo, j) = Share(lqueue[t], j)
                               /\ Share(sh, j) = Share(pqueue[t], j)
  <2>1. "export" # "import"
    OBVIOUS
  <2>2. QED
    BY <2>1, TakenPlain
<1>3. /\ c \in Carriers(k) /\ c \in Event /\ c \in Own(k)
      /\ \A j \in Kernels \ {k} : c \notin Own(j)
  BY TakenAlongCarries, ZenonT(40)
<1>4. pe \in Seq(Event) /\ po \in Seq(Event)
  BY <1>1 DEF HomeType
<1>5. /\ lqueue'[t] = NotOf(lo, k) /\ pqueue'[t] = NotOf(sh, k)
      /\ pending'[t] = NotOf(pe, k) /\ pending'[to] = Cons(c, po)
      /\ \A u \in Threads \ {t} : lqueue'[u] = lqueue[u] /\ pqueue'[u] = pqueue[u]
      /\ \A u \in Threads \ {t, to} : pending'[u] = pending[u]
      /\ list_kernel'[t] = list_kernel[t] \ {k}
      /\ \A u \in Threads \ {t} : list_kernel'[u] = list_kernel[u]
  BY <1>1 DEF HomeType
<1> HIDE DEF lo, sh, pe, po
<1>6. /\ NotOf(lo, k) \in Seq(Event) /\ Share(NotOf(lo, k), k) = <<>>
      /\ NotOf(sh, k) \in Seq(Event) /\ Share(NotOf(sh, k), k) = <<>>
      /\ NotOf(pe, k) \in Seq(Event) /\ Share(NotOf(pe, k), k) = <<>>
  BY <1>2, <1>4, ShareOfRest, Zenon
<1>7. \A j \in Kernels \ {k} : /\ Share(NotOf(lo, k), j) = Share(lo, j)
                             /\ Share(NotOf(sh, k), j) = Share(sh, j)
                             /\ Share(NotOf(pe, k), j) = Share(pe, j)
  <2>1. \A j \in Kernels \ {k} : Share(NotOf(lo, k), j) = Share(lo, j)
    BY <1>2, ShareOfRest
  <2>2. \A j \in Kernels \ {k} : Share(NotOf(sh, k), j) = Share(sh, j)
    BY <1>2, ShareOfRest
  <2>3. \A j \in Kernels \ {k} : Share(NotOf(pe, k), j) = Share(pe, j)
    BY <1>2, <1>4, ShareOfRest
  <2>4. QED
    BY <2>1, <2>2, <2>3, Zenon
<1>8. /\ Cons(c, po) \in Seq(Event)
      /\ \A j : Share(Cons(c, po), j) =
             IF c \in Own(j) THEN <<c>> \o Share(po, j) ELSE Share(po, j)
  <2>1. \A j : /\ Cons(c, po) \in Seq(Event)
               /\ Share(Cons(c, po), j) = IF c \in Own(j) THEN <<c>> \o Share(po, j)
                                                         ELSE Share(po, j)
    BY <1>3, <1>4, ShareCons, Zenon
  <2>2. QED
    BY <2>1, Zenon
<1>9. lqueue' \in [Threads -> Seq(Event)] /\ pqueue' \in [Threads -> Seq(Event)]
  BY <1>1, <1>6 DEF HomeType, lo, sh
<1>10. pending' \in [Threads -> Seq(Event)]
  <2>1. DOMAIN pending' = Threads /\ pending' = [u \in Threads |-> pending'[u]]
    BY <1>1 DEF HomeType
  <2>2. \A u \in Threads : pending'[u] \in Seq(Event)
    BY <1>1, <1>5, <1>6, <1>8 DEF HomeType
  <2>3. QED
    BY <2>1, <2>2, Zenon
<1>11. OthersSame(k, t, to)
  <2>1. ASSUME NEW j \in Kernels, NEW u \in Threads, j # k \/ (u # t /\ u # to)
        PROVE  SameFor(j, u)
    <3>1. j \in list_kernel'[u] <=> j \in list_kernel[u]
      BY <1>5, <2>1
    <3>2. Share(lqueue'[u], j) = Share(lqueue[u], j) /\ Share(pqueue'[u], j) = Share(pqueue[u], j)
      <4>1. CASE u = t
        BY <1>2, <1>5, <1>7, <2>1, <4>1
      <4>2. CASE u # t
        BY <1>5, <4>2
      <4>3. QED
        BY <4>1, <4>2
    <3>3. Share(pending'[u], j) = Share(pending[u], j)
      <4>1. CASE u = t
        <5>1. Share(NotOf(pe, k), j) = Share(pe, j)
          BY <1>7, <2>1, <4>1
        <5>2. QED
          BY <1>5, <4>1, <5>1 DEF pe
      <4>2. CASE u = to
        <5>1. Share(Cons(c, po), j) = Share(po, j)
          BY <1>3, <1>8, <2>1, <4>2
        <5>2. QED
          BY <1>5, <4>2, <5>1 DEF po
      <4>3. CASE u \notin {t, to}
        BY <1>5, <4>3
      <4>4. QED
        BY <4>1, <4>2, <4>3
    <3>4. QED
      BY <3>1, <3>2, <3>3 DEF SameFor
  <2>2. QED
    BY <2>1, Zenon DEF OthersSame
<1>12. Away(k, t)'
  <2>1. k \notin list_kernel'[t]
    BY <1>5
  <2>2. QED
    BY <1>5, <1>6, <2>1, Zenon DEF Away
<1>13. /\ k \notin list_kernel'[to]
       /\ Share(lqueue'[to], k) = <<>> /\ Share(pqueue'[to], k) = <<>>
       /\ Only(c, pending'[to], k)
  <2>1. Away(k, to)
    BY <1>2 DEF IndInv, Placed
  <2> QED
    BY <1>3, <1>5, <1>8, <2>1 DEF Away, Only, po
<1>14. Expected(k, to)'
  <2>1. <<>> \in Seq(Plain({k}))
    BY EmptySeq
  <2>2. Brings(<<c>> \o <<>>, k)
    BY <1>3, <2>1, Zenon DEF Brings
  <2> QED
    BY <1>13, <2>2, Zenon DEF Expected, Only
<1> QED
  BY <1>2, <1>5, <1>9, <1>10, <1>11, <1>12, <1>13, <1>14

LEMMA ExportKeepsInv ==
    ASSUME IndInv, NEW t \in Threads, NEW to \in Threads \ {t}, Taking(t, "export"),
           NEW k, k = NextEvent(t).kernel, NEW c, c = TakenAlong(t, k),
           target' = [target EXCEPT ![k] = None],
           thread' = [thread EXCEPT ![k] = to],
           hop' = [hop EXCEPT ![k] = @ + 1],
           list_kernel' = [list_kernel EXCEPT ![t] = list_kernel[t] \ {k}],
           lqueue' = [lqueue EXCEPT ![t] = NotOf(RestLocal(t), k)],
           pqueue' = [pqueue EXCEPT ![t] = NotOf(RestQueued(t), k)],
           pending' = [pending EXCEPT ![t] = NotOf(@, k), ![to] = Cons(c, @)],
           pc' = pc, current' = current, posted' = posted
    PROVE  IndInv'
<1>1. HomeType /\ pc[t] = "taking"
  BY DEF IndInv, Taking
<1>2. k \in Kernels /\ thread[k] = t /\ Away(k, t)'
  <2>1. k \in Kernels /\ thread[k] = t
    BY TakenPlain
  <2>2. Away(k, t)'
    BY ExportMoves, ZenonT(40)
  <2> QED
    BY <2>1, <2>2
<1>0. Expected(k, to)'
  BY ExportMoves, ZenonT(40)
<1>3. /\ lqueue' \in [Threads -> Seq(Event)] /\ pqueue' \in [Threads -> Seq(Event)]
      /\ pending' \in [Threads -> Seq(Event)]
  BY ExportMoves, ZenonT(40)
<1>4. \A u \in Threads \ {t} : lqueue'[u] = lqueue[u] /\ pqueue'[u] = pqueue[u]
  BY ExportMoves, ZenonT(40)
<1>5. \A u \in Threads \ {t} : list_kernel'[u] = list_kernel[u]
  BY ExportMoves, ZenonT(40)
<1>6. OthersSame(k, t, to)
  BY ExportMoves, ZenonT(40)
<1>7. HomeType'
  <2>1. target' \in [Kernels -> Threads \cup {None}] /\ thread' \in [Kernels -> Threads]
    <3>1. /\ target \in [Kernels -> Threads \cup {None}] /\ thread \in [Kernels -> Threads]
          /\ to \in Threads
      BY <1>1 DEF HomeType
    <3>2. /\ target' = [target EXCEPT ![k] = None] /\ thread' = [thread EXCEPT ![k] = to]
      OBVIOUS
    <3>3. QED
      BY <3>1, <3>2
  <2>2. hop' \in [Kernels -> Nat]
    <3>1. k \in Kernels /\ hop \in [Kernels -> Nat] /\ hop' = [hop EXCEPT ![k] = @ + 1]
      BY <1>1, <1>2 DEF HomeType
    <3>2. QED
      BY <3>1
  <2>3. list_kernel' \in [Threads -> SUBSET Kernels]
    BY <1>1 DEF HomeType
  <2>4. QED
    BY <1>1, <1>3, <2>1, <2>2, <2>3, Zenon DEF HomeType
<1>8. RunsAtHome'
  <2>1. ASSUME NEW u \in Threads, current'[u] # None
        PROVE  thread'[current'[u]] = u /\ current'[u] \in list_kernel'[u]
    <3>1. current[u] # None /\ current[u] \in Kernels /\ current' = current
      BY <1>1, <2>1 DEF HomeType
    <3>2. u # t /\ thread[current[u]] = u /\ current[u] \in list_kernel[u]
      BY <1>1, <3>1 DEF IndInv, Phases, RunsAtHome
    <3>3. current[u] # k
      BY <1>2, <3>2
    <3>4. QED
      BY <1>1, <1>5, <3>1, <3>2, <3>3 DEF HomeType
  <2>2. QED
    BY <2>1, Zenon DEF RunsAtHome
<1>9. Phases'
  BY <1>1, <1>4 DEF IndInv, Phases
<1>10. Placed'
  BY <1>0, <1>2, <1>6, PlacedMoved, ZenonT(40)
<1>11. QED
  BY <1>7, <1>8, <1>9, <1>10 DEF IndInv

LEMMA DispatchExportKeepsInv ==
    ASSUME IndInv, NEW t \in Threads, DispatchExport(t),
           NEW k, k = NextEvent(t).kernel, NEW to, to = target[k]
    PROVE  IndInv'
<1>1. /\ pc' = pc /\ current' = current /\ posted' = posted /\ Taking(t, "export")
      /\ target' = [target EXCEPT ![k] = None]
  BY DEF DispatchExport
<1>2. CASE to \in Threads \ {t} /\ tid_map[to] = "in"
  <2> DEFINE c == TakenAlong(t, k)
  <2>1. /\ thread' = [thread EXCEPT ![k] = to]
        /\ hop' = [hop EXCEPT ![k] = @ + 1]
        /\ list_kernel' = [list_kernel EXCEPT ![t] = list_kernel[t] \ {k}]
        /\ lqueue' = [lqueue EXCEPT ![t] = NotOf(RestLocal(t), k)]
        /\ pqueue' = [pqueue EXCEPT ![t] = NotOf(RestQueued(t), k)]
        /\ pending' = [pending EXCEPT ![t] = NotOf(@, k), ![to] = Cons(c, @)]
    BY <1>2 DEF DispatchExport, KernelsLeft, Found
  <2>2. c = TakenAlong(t, k)
    OBVIOUS
  <2> HIDE DEF c
  <2>3. QED
    BY <1>1, <1>2, <2>1, <2>2, ExportKeepsInv
<1>3. CASE ~(to \in Threads \ {t} /\ tid_map[to] = "in")
  <2>1. /\ thread' = thread /\ hop' = hop /\ list_kernel' = list_kernel /\ pending' = pending
        /\ lqueue' = [lqueue EXCEPT ![t] = RestLocal(t)]
        /\ pqueue' = [pqueue EXCEPT ![t] = RestQueued(t)]
    BY <1>3 DEF DispatchExport, Found
  <2>2. /\ lqueue' \in [Threads -> Seq(Event)] /\ pqueue' \in [Threads -> Seq(Event)]
        /\ \A u \in Threads \ {t} : lqueue'[u] = lqueue[u] /\ pqueue'[u] = pqueue[u]
        /\ Placed'
    <3>1. "export" # "import"
      OBVIOUS
    <3>2. QED
      BY <1>1, <2>1, <3>1, PlainTaken
  <2>3. HomeType' /\ RunsAtHome'
    BY <1>1, <2>1, <2>2 DEF IndInv, HomeType, RunsAtHome
  <2>4. Phases'
    BY <1>1, <2>2 DEF IndInv, Phases, Taking
  <2>5. QED
    BY <2>2, <2>3, <2>4 DEF IndInv
<1>4. QED
  BY <1>2, <1>3

(* A step that moves no kernel and no event, only the thread's pc.          *)
LEMMA PcKeepsInv ==
    ASSUME IndInv, NEW t \in Threads, pc[t] # "handling",
           NEW p \in {"taking", "waiting", "checking", "asking", "stopped"},
           p = "waiting" => lqueue[t] = <<>> /\ pqueue[t] = <<>>,
           pc' = [pc EXCEPT ![t] = p],
           thread' = thread, target' = target, current' = current, list_kernel' = list_kernel,
           lqueue' = lqueue, pqueue' = pqueue, pending' = pending, hop' = hop, posted' = posted
    PROVE  IndInv'
<1>1. HomeType' /\ pc'[t] = p /\ \A u \in Threads \ {t} : pc'[u] = pc[u]
  BY DEF IndInv, HomeType
<1>2. RunsAtHome'
  BY DEF IndInv, RunsAtHome
<1>3. Phases'
  BY <1>1 DEF IndInv, Phases
<1>4. Placed'
  BY Zenon DEF IndInv, Placed, Away, Arrived, Expected
<1>5. QED
  BY <1>1, <1>2, <1>3, <1>4 DEF IndInv

LEMMA HandlerReturnKeepsInv ==
    ASSUME MigrationAssumption, IndInv, NEW t \in Threads, HandlerReturn(t)
    PROVE  IndInv'
<1>1. /\ thread' = thread /\ target' = target /\ list_kernel' = list_kernel
      /\ lqueue' = lqueue /\ pqueue' = pqueue /\ pending' = pending
      /\ hop' = hop /\ posted' = posted
      /\ pc' = [pc EXCEPT ![t] = "taking"] /\ current' = [current EXCEPT ![t] = None]
  BY DEF HandlerReturn, CurrentAfter, glob, queues, ghost
<1>2. HomeType
  BY DEF IndInv
<1>3. HomeType'
  BY <1>1, <1>2 DEF HomeType
<1>4. /\ pc'[t] = "taking" /\ current'[t] = None
      /\ \A u \in Threads \ {t} : pc'[u] = pc[u] /\ current'[u] = current[u]
  BY <1>1, <1>2 DEF HomeType
<1>5. RunsAtHome' /\ Phases'
  BY <1>1, <1>4 DEF IndInv, RunsAtHome, Phases
<1>6. Placed'
  BY <1>1, Zenon DEF IndInv, Placed, Away, Arrived, Expected
<1>7. QED
  BY <1>3, <1>5, <1>6 DEF IndInv

(* What was pending becomes the queue: an import event stays in front of    *)
(* everything else of its kernel.                                           *)
LEMMA CollectKeepsInv ==
    ASSUME IndInv, NEW t \in Threads, CollectPending(t)
    PROVE  IndInv'
<1>1. /\ thread' = thread /\ target' = target /\ list_kernel' = list_kernel
      /\ current' = current /\ lqueue' = lqueue /\ hop' = hop /\ posted' = posted
      /\ pqueue' = [pqueue EXCEPT ![t] = pending[t]]
      /\ pending' = [pending EXCEPT ![t] = <<>>]
      /\ pc' = [pc EXCEPT ![t] = "taking"]
      /\ MayCollect(t)
  BY DEF CollectPending, glob, ghost
<1>2. lqueue[t] = <<>> /\ pqueue[t] = <<>> /\ pc[t] # "handling"
  BY <1>1 DEF IndInv, Phases, MayCollect
<1>3. HomeType /\ Placed
  BY DEF IndInv
<1>4. /\ pqueue'[t] = pending[t] /\ pending'[t] = <<>> /\ pc'[t] = "taking"
      /\ \A u \in Threads \ {t} : pqueue'[u] = pqueue[u] /\ pending'[u] = pending[u]
                               /\ pc'[u] = pc[u]
  BY <1>1, <1>3 DEF HomeType
<1>5. HomeType'
  <2>1. <<>> \in Seq(Event)
    BY EmptySeq
  <2>2. QED
    BY <1>1, <1>3, <2>1 DEF HomeType
<1>6. RunsAtHome' /\ Phases'
  BY <1>1, <1>2, <1>4 DEF IndInv, RunsAtHome, Phases
<1>7. ASSUME NEW j \in Kernels, NEW u \in Threads
      PROVE  /\ Away(j, u) => Away(j, u)'
             /\ Arrived(j, u) \/ Expected(j, u) => Arrived(j, u)' \/ Expected(j, u)'
  <2>1. CASE u # t
    <3>1. SameFor(j, u)
      BY <1>1, <1>4, <2>1 DEF SameFor
    <3>2. QED
      BY <3>1, SameStays, Zenon
  <2>2. CASE u = t
    <3>1. /\ Share(pqueue[t], j) = <<>> /\ Share(pending'[t], j) = <<>>
          /\ <<>> \in Seq(Plain({j})) /\ Share(pqueue'[t], j) = Share(pending[t], j)
      BY <1>2, <1>4, KeepEmpty, EmptySeq DEF Share
    <3>2. ~ Brings(Share(pqueue[t], j), j)
      <4>1. SUFFICES ASSUME NEW c \in Carriers(j), NEW r \in Seq(Plain({j})), <<>> = <<c>> \o r
                     PROVE  FALSE
        BY <3>1, Zenon DEF Brings
      <4>2. c \in Event /\ r \in Seq(Event)
        BY PlainOwn, ShareOfPlain, Zenon
      <4>3. <<c>> \o r # <<>>
        BY <4>2, ConsFacts, Zenon
      <4>4. QED
        BY <4>1, <4>3
    <3>3. Away(j, t) => Away(j, t)'
      BY <1>1, <3>1, Zenon DEF Away
    <3>4. Arrived(j, t) => Arrived(j, t)'
      BY <1>1, <3>1, Zenon DEF Arrived
    <3>5. Expected(j, t) => Expected(j, t)'
      BY <1>1, <3>1, <3>2, Zenon DEF Expected
    <3>6. QED
      BY <2>2, <3>3, <3>4, <3>5, Zenon
  <2>3. QED
    BY <2>1, <2>2
<1>8. Placed'
  <2>1. thread \in [Kernels -> Threads]
    BY <1>3 DEF HomeType
  <2>2. ASSUME NEW j \in Kernels PROVE (Arrived(j, thread[j]) \/ Expected(j, thread[j]))'
    <3>1. PICK u \in Threads : u = thread[j] /\ u = thread'[j]
      BY <1>1, <2>1
    <3>2. Arrived(j, u) \/ Expected(j, u)
      BY <1>3, <3>1, Zenon DEF Placed
    <3>3. Arrived(j, u)' \/ Expected(j, u)'
      BY <1>7, <3>2, Zenon
    <3>4. QED
      BY <3>1, <3>3, Zenon DEF Arrived, Expected
  <2>3. ASSUME NEW j \in Kernels, NEW u \in Threads, u # thread'[j] PROVE Away(j, u)'
    <3>1. Away(j, u)
      BY <1>1, <1>3, <2>3 DEF Placed
    <3>2. QED
      BY <1>7, <3>1, Zenon
  <2>4. QED
    BY <2>2, <2>3, Zenon DEF Placed
<1>9. QED
  BY <1>5, <1>6, <1>8 DEF IndInv
-----------------------------------------------------------------------------
(***************************************************************************)
(* The invariant.                                                          *)
(***************************************************************************)
LEMMA InitHome == MigrationAssumption /\ Init => IndInv
<1> SUFFICES ASSUME MigrationAssumption, Init PROVE IndInv
  OBVIOUS
<1>1. PICK k \in Kernels : current = [t \in Threads |-> IF t = Main THEN k ELSE None]
  BY Zenon DEF Init
<1>2. None \notin Threads /\ None \notin Kernels /\ Main \in Threads
  BY DEF MigrationAssumption, Threads
<1>3. <<>> \in Seq(Event)
  BY EmptySeq
<1>4. HomeType
  <2>1. /\ thread \in [Kernels -> Threads] /\ target \in [Kernels -> Threads \cup {None}]
        /\ current \in [Threads -> Kernels \cup {None}]
        /\ list_kernel \in [Threads -> SUBSET Kernels] /\ hop \in [Kernels -> Nat]
    BY <1>1, <1>2 DEF Init
  <2>2. pc \in [Threads -> {"taking", "handling", "waiting", "checking", "asking", "stopped"}]
    BY DEF Init
  <2>3. /\ lqueue \in [Threads -> Seq(Event)] /\ pqueue \in [Threads -> Seq(Event)]
        /\ pending \in [Threads -> Seq(Event)]
    BY <1>3 DEF Init
  <2>4. posted \in Seq([kernel : Kernels, lane : {"shared", "local"}, hop : Nat])
    BY EmptySeq DEF Init
  <2>5. QED
    BY <2>1, <2>2, <2>3, <2>4, Zenon DEF HomeType
<1>5. RunsAtHome
  BY <1>1, <1>2 DEF Init, RunsAtHome
<1>6. Phases
  BY <1>1, <1>2 DEF Init, Phases
<1>7. Placed
  <2>1. \A t \in Threads : lqueue[t] = <<>> /\ pqueue[t] = <<>> /\ pending[t] = <<>>
    BY DEF Init
  <2>2. \A j \in Kernels : Share(<<>>, j) = <<>> /\ <<>> \in Seq(Plain({j}))
    BY KeepEmpty, EmptySeq DEF Share
  <2>3. \A j \in Kernels : thread[j] = Main /\ j \in list_kernel[Main]
    BY <1>2 DEF Init
  <2>4. \A j \in Kernels, t \in Threads \ {Main} : j \notin list_kernel[t]
    BY DEF Init
  <2>5. \A j \in Kernels : Arrived(j, Main)
    BY <1>2, <2>1, <2>2, <2>3, Zenon DEF Arrived
  <2>6. \A j \in Kernels, t \in Threads \ {Main} : Away(j, t)
    BY <2>1, <2>2, <2>4 DEF Away
  <2>7. QED
    BY <2>3, <2>5, <2>6 DEF Placed
<1>8. QED
  BY <1>4, <1>5, <1>6, <1>7 DEF IndInv

LEMMA NextKeepsHome == MigrationAssumption /\ IndInv /\ [Next]_vars => IndInv'
<1> SUFFICES ASSUME MigrationAssumption, IndInv, [Next]_vars PROVE IndInv'
  OBVIOUS
<1>1. ASSUME NEW k \in Kernels, PostShared(k) PROVE IndInv'
  <2>1. PICK t \in Threads : t = thread[k]
    BY DEF IndInv, HomeType
  <2>2. QED
    BY <1>1, <2>1, PostSharedKeepsInv, Zenon
<1>2. ASSUME NEW t \in Threads, Handler(t) PROVE IndInv'
  <2>1. CASE PostLocal(t)
    BY <2>1, PostLocalKeepsInv, Zenon
  <2>2. CASE \E to \in Threads : MoveToThread(t, to)
    BY <2>2, MoveToThreadKeepsInv, Zenon
  <2>3. QED
    BY <1>2, <2>1, <2>2, Zenon DEF Handler
<1>3. ASSUME NEW t \in Threads, Loop(t) PROVE IndInv'
  <2>1. CASE DispatchMsg(t)
    BY <2>1, DispatchMsgKeepsInv, Zenon
  <2>2. CASE DispatchExport(t)
    BY <2>2, DispatchExportKeepsInv, Zenon
  <2>3. CASE DispatchImport(t)
    BY <2>3, DispatchImportKeepsInv, Zenon
  <2>4. CASE HandlerReturn(t)
    BY <2>4, HandlerReturnKeepsInv, Zenon
  <2>5. CASE CollectPending(t)
    BY <2>5, CollectKeepsInv, Zenon
  <2>6. CASE Idle(t)
    <3> DEFINE p == IF quit_enabled[t] /\ list_kernel[t] = {} /\ t \in WithPred
                    THEN "checking" ELSE "waiting"
    <3>1. /\ pc[t] # "handling" /\ pc' = [pc EXCEPT ![t] = p]
          /\ lqueue[t] = <<>> /\ pqueue[t] = <<>>
          /\ p \in {"taking", "waiting", "checking", "asking", "stopped"}
          /\ thread' = thread /\ target' = target /\ current' = current
          /\ list_kernel' = list_kernel /\ lqueue' = lqueue /\ pqueue' = pqueue
          /\ pending' = pending /\ hop' = hop /\ posted' = posted
      BY <2>6 DEF Idle, glob, queues, ghost
    <3> HIDE DEF p
    <3>2. QED
      BY <3>1, PcKeepsInv
  <2>7. CASE QuitCheck(t)
    <3> DEFINE p == IF GotSystemEvent(t) THEN "taking" ELSE "asking"
    <3>1. /\ pc[t] # "handling" /\ pc' = [pc EXCEPT ![t] = p] /\ p # "waiting"
          /\ p \in {"taking", "waiting", "checking", "asking", "stopped"}
          /\ thread' = thread /\ target' = target /\ current' = current
          /\ list_kernel' = list_kernel /\ lqueue' = lqueue /\ pqueue' = pqueue
          /\ pending' = pending /\ hop' = hop /\ posted' = posted
      BY <2>7 DEF QuitCheck, queues, ghost
    <3> HIDE DEF p
    <3>2. QED
      BY <3>1, PcKeepsInv
  <2>8. CASE \E quit \in Answers : QuitAnswer(t, quit)
    <3>1. PICK quit \in Answers : QuitAnswer(t, quit)
      BY <2>8
    <3> DEFINE p == IF quit THEN "stopped" ELSE "taking"
    <3>2. /\ pc[t] # "handling" /\ pc' = [pc EXCEPT ![t] = p] /\ p # "waiting"
          /\ p \in {"taking", "waiting", "checking", "asking", "stopped"}
          /\ thread' = thread /\ target' = target /\ current' = current
          /\ list_kernel' = list_kernel /\ lqueue' = lqueue /\ pqueue' = pqueue
          /\ pending' = pending /\ hop' = hop /\ posted' = posted
      BY <3>1 DEF QuitAnswer, queues, ghost
    <3> HIDE DEF p
    <3>3. QED
      BY <3>2, PcKeepsInv
  <2>9. QED
    BY <1>3, <2>1, <2>2, <2>3, <2>4, <2>5, <2>6, <2>7, <2>8, Zenon DEF Loop
<1>4. CASE RunAgain
  <2> DEFINE p == "taking"
             t == Main
  <2>1. /\ t \in Threads
        /\ pc[t] # "handling" /\ pc' = [pc EXCEPT ![t] = p] /\ p # "waiting"
        /\ p \in {"taking", "waiting", "checking", "asking", "stopped"}
        /\ thread' = thread /\ target' = target /\ current' = current
        /\ list_kernel' = list_kernel /\ lqueue' = lqueue /\ pqueue' = pqueue
        /\ pending' = pending /\ hop' = hop /\ posted' = posted
    BY <1>4 DEF RunAgain, queues, ghost, Threads
  <2> HIDE DEF p, t
  <2>2. QED
    BY <2>1, PcKeepsInv
<1>5. CASE UNCHANGED vars
  <2>1. /\ thread' = thread /\ target' = target /\ pc' = pc /\ current' = current
        /\ list_kernel' = list_kernel /\ lqueue' = lqueue /\ pqueue' = pqueue
        /\ pending' = pending /\ hop' = hop /\ posted' = posted
    BY <1>5 DEF vars, glob, queues, ghost
  <2>2. HomeType' /\ Phases' /\ RunsAtHome'
    BY <2>1 DEF IndInv, HomeType, Phases, RunsAtHome
  <2>3. Placed'
    BY <2>1, Zenon DEF IndInv, Placed, Away, Arrived, Expected
  <2>4. QED
    BY <2>2, <2>3 DEF IndInv
<1>6. QED
  BY <1>1, <1>2, <1>3, <1>4, <1>5, Zenon DEF Next

THEOREM HomeInductive == Spec => []IndInv
<1>1. MigrationAssumption
  BY MigrationAssumption
<1>2. QED
  BY <1>1, InitHome, NextKeepsHome, PTL DEF Spec

(* RunsAtHome: a handler runs only on the thread its kernel is assigned to  *)
(* and has arrived at, whatever has been posted and moved meanwhile.        *)
THEOREM HandlersAtHome == Spec => []RunsAtHome
<1>1. IndInv => RunsAtHome
  BY DEF IndInv
<1>2. QED
  BY <1>1, HomeInductive, PTL
-----------------------------------------------------------------------------
(***************************************************************************)
(* Counting the import events of a kernel.                                 *)
(***************************************************************************)
Imports(k) == {e \in Own(k) : e.type = "import"}

LEMMA ImportsInShare ==
    ASSUME NEW k \in Kernels, NEW q \in Seq(Event)
    PROVE  /\ Keep(q, Imports(k)) = Keep(Share(q, k), Imports(k))
           /\ Share(q, k) \in Seq(Plain({k})) => Keep(q, Imports(k)) = <<>>
           /\ Brings(Share(q, k), k) => Len(Keep(q, Imports(k))) = 1
<1> DEFINE M == Imports(k)
<1>1. Own(k) \cap M = M /\ Plain({k}) \cap M = {} /\ Carriers(k) \subseteq M
  <2>1. \A e \in Plain({k}) : e.type # "import"
    BY DEF Plain
  <2>2. \A e \in Carriers(k) : e.type = "import"
    BY DEF Carriers
  <2>3. QED
    BY <2>1, <2>2, PlainOwn DEF Imports
<1> HIDE DEF M
<1>2. Keep(q, M) = Keep(Share(q, k), M)
  <2>1. Keep(Keep(q, Own(k)), M) = Keep(q, Own(k) \cap M)
    BY KeepKeep
  <2>2. QED
    BY <1>1, <2>1 DEF Share
<1>3. ASSUME NEW r \in Seq(Plain({k})) PROVE Keep(r, M) = <<>>
  BY <1>1, KeepNone, Zenon
<1>4. ASSUME NEW c \in Carriers(k), NEW r \in Seq(Plain({k})), Share(q, k) = <<c>> \o r
      PROVE  Len(Keep(Share(q, k), M)) = 1
  <2>1. c \in Event /\ r \in Seq(Event) /\ c \in M
    BY <1>1, PlainOwn, ShareOfPlain, Zenon
  <2>2. /\ <<c>> \o r \in Seq(Event) /\ <<c>> \o r # <<>>
        /\ Head(<<c>> \o r) = c /\ Tail(<<c>> \o r) = r
    BY <2>1, ConsFacts, Zenon
  <2> DEFINE w == <<c>> \o r
  <2>3. w \in Seq(Event) /\ w # <<>> /\ Head(w) = c /\ Tail(w) = r
    BY <2>2
  <2> HIDE DEF w
  <2>4. Keep(w, M) = IF Head(w) \in M THEN <<Head(w)>> \o Keep(Tail(w), M) ELSE Keep(Tail(w), M)
    BY <2>3, KeepFirst, Zenon
  <2>5. Keep(w, M) = <<c>> \o <<>>
    BY <1>3, <2>1, <2>3, <2>4
  <2>6. Len(<<c>> \o <<>>) = 1
    OBVIOUS
  <2>7. QED
    BY <1>4, <2>5, <2>6 DEF w
<1>5. Brings(Share(q, k), k) => Len(Keep(q, M)) = 1
  BY <1>2, <1>4, Zenon DEF Brings
<1>6. Share(q, k) \in Seq(Plain({k})) => Keep(q, M) = <<>>
  BY <1>2, <1>3, Zenon
<1>7. QED
  BY <1>2, <1>5, <1>6 DEF M

LEMMA ImportsCounted ==
    ASSUME HomeType, NEW t \in Threads, NEW k \in Kernels
    PROVE  /\ IsFiniteSet(ImportsOf(t, k))
           /\ Cardinality(ImportsOf(t, k)) = Len(Keep(lqueue[t], Imports(k)))
                   + Len(Keep(pqueue[t], Imports(k))) + Len(Keep(pending[t], Imports(k)))
<1> DEFINE M == Imports(k)
           l == lqueue[t]
           p == pqueue[t]
           w == pending[t]
           q == EventQueue(t)
<1>1. l \in Seq(Event) /\ p \in Seq(Event) /\ w \in Seq(Event)
  BY DEF HomeType
<1>2. q = (l \o p) \o w
  BY DEF EventQueue
<1> HIDE DEF l, p, w, q
<1>3. l \o p \in Seq(Event) /\ q \in Seq(Event)
  BY <1>1, <1>2, ConcatProperties, Zenon
<1>4. ImportsOf(t, k) = {i \in 1 .. Len(q) : q[i] \in M}
  <2>1. DOMAIN q = 1 .. Len(q) /\ \A i \in DOMAIN q : q[i] \in Event
    BY <1>3
  <2>2. ImportsOf(t, k) = {i \in DOMAIN q : q[i].type = "import" /\ q[i].kernel = k}
    BY DEF ImportsOf, q
  <2>3. \A i \in DOMAIN q : q[i].type = "import" /\ q[i].kernel = k <=> q[i] \in M
    BY <2>1 DEF Imports, Own
  <2>4. QED
    BY <2>1, <2>2, <2>3
<1> HIDE DEF M
<1>5. Cardinality(ImportsOf(t, k)) = Len(Keep(q, M))
  BY <1>3, <1>4, KeepCount, Zenon
<1>6. Keep(q, M) = (Keep(l, M) \o Keep(p, M)) \o Keep(w, M)
  <2>1. Keep(l \o p, M) = Keep(l, M) \o Keep(p, M)
    BY <1>1, KeepConcat
  <2>2. Keep((l \o p) \o w, M) = Keep(l \o p, M) \o Keep(w, M)
    <3> DEFINE lp == l \o p
    <3>1. lp \in Seq(Event) /\ w \in Seq(Event)
      BY <1>1, <1>3
    <3> HIDE DEF lp
    <3>2. Keep(lp \o w, M) = Keep(lp, M) \o Keep(w, M)
      BY <3>1, KeepConcat
    <3>3. QED
      BY <3>2 DEF lp
  <2>3. QED
    BY <1>2, <2>1, <2>2
<1>7. Keep(l, M) \in Seq(Event) /\ Keep(p, M) \in Seq(Event) /\ Keep(w, M) \in Seq(Event)
  BY <1>1, KeepIsSeq, Zenon
<1>8. Len(Keep(q, M)) = Len(Keep(l, M)) + Len(Keep(p, M)) + Len(Keep(w, M))
  <2> DEFINE a == Keep(l, M)
             b == Keep(p, M)
             c == Keep(w, M)
  <2>1. a \in Seq(Event) /\ b \in Seq(Event) /\ c \in Seq(Event)
    BY <1>7
  <2>2. Keep(q, M) = (a \o b) \o c
    BY <1>6
  <2> HIDE DEF a, b, c
  <2>3. Len((a \o b) \o c) = Len(a) + Len(b) + Len(c)
    BY <2>1
  <2>4. QED
    BY <2>2, <2>3 DEF a, b, c
<1>9. IsFiniteSet(ImportsOf(t, k))
  <2>1. Len(q) \in Nat
    BY <1>3, LenProperties
  <2>2. IsFiniteSet(1 .. Len(q))
    BY <2>1, FS_Interval
  <2>3. ImportsOf(t, k) \subseteq 1 .. Len(q)
    BY <1>4
  <2>4. QED
    BY <2>2, <2>3, FS_Subset
<1>10. QED
  BY <1>5, <1>8, <1>9 DEF M, l, p, w

LEMMA HomeImpliesOneHome == IndInv => OneHome
<1> SUFFICES ASSUME IndInv PROVE OneHome
  OBVIOUS
<1>1. HomeType /\ Placed
  BY DEF IndInv
<1>2. ASSUME NEW k \in Kernels, NEW t \in Threads
      PROVE  /\ Away(k, t) => ImportsOf(t, k) = {}
             /\ Arrived(k, t) => Cardinality(ImportsOf(t, k)) = 0
             /\ Expected(k, t) => Cardinality(ImportsOf(t, k)) = 1
  <2> DEFINE l == Keep(lqueue[t], Imports(k))
             p == Keep(pqueue[t], Imports(k))
             w == Keep(pending[t], Imports(k))
  <2>1. /\ IsFiniteSet(ImportsOf(t, k))
        /\ Cardinality(ImportsOf(t, k)) = Len(l) + Len(p) + Len(w)
    BY <1>1, ImportsCounted, Zenon
  <2>2. /\ lqueue[t] \in Seq(Event) /\ pqueue[t] \in Seq(Event) /\ pending[t] \in Seq(Event)
        /\ <<>> \in Seq(Plain({k}))
    BY <1>1, EmptySeq DEF HomeType
  <2>3. /\ Share(lqueue[t], k) \in Seq(Plain({k})) => l = <<>>
        /\ Share(pqueue[t], k) \in Seq(Plain({k})) => p = <<>>
        /\ Share(pending[t], k) \in Seq(Plain({k})) => w = <<>>
    BY <2>2, ImportsInShare, Zenon
  <2>4. /\ Brings(Share(pqueue[t], k), k) => Len(p) = 1
        /\ Brings(Share(pending[t], k), k) => Len(w) = 1
    BY <2>2, ImportsInShare, Zenon
  <2> HIDE DEF l, p, w
  <2>5. Len(<<>>) = 0
    OBVIOUS
  <2>6. Away(k, t) \/ Arrived(k, t) => l = <<>> /\ p = <<>> /\ w = <<>>
    BY <2>2, <2>3, Zenon DEF Away, Arrived
  <2>7. Expected(k, t) => l = <<>> /\ ((Len(p) = 1 /\ w = <<>>) \/ (p = <<>> /\ Len(w) = 1))
    BY <2>2, <2>3, <2>4, Zenon DEF Expected
  <2>8. Away(k, t) \/ Arrived(k, t) => Cardinality(ImportsOf(t, k)) = 0
    BY <2>1, <2>5, <2>6
  <2>9. Expected(k, t) => Cardinality(ImportsOf(t, k)) = 1
    <3>1. Expected(k, t) => \/ Len(l) = 0 /\ Len(p) = 1 /\ Len(w) = 0
                            \/ Len(l) = 0 /\ Len(p) = 0 /\ Len(w) = 1
      BY <2>5, <2>7, Zenon
    <3> DEFINE a == Len(l)
               b == Len(p)
               c == Len(w)
               n == Cardinality(ImportsOf(t, k))
    <3>2. n = a + b + c
      BY <2>1
    <3>3. Expected(k, t) => (a = 0 /\ b = 1 /\ c = 0) \/ (a = 0 /\ b = 0 /\ c = 1)
      BY <3>1
    <3> HIDE DEF a, b, c, n
    <3>4. (a = 0 /\ b = 1 /\ c = 0) \/ (a = 0 /\ b = 0 /\ c = 1) => n = 1
      BY <3>2
    <3>5. QED
      BY <3>3, <3>4, Zenon DEF n
  <2>10. Cardinality(ImportsOf(t, k)) = 0 => ImportsOf(t, k) = {}
    BY <2>1, FS_EmptySet
  <2>11. QED
    BY <2>8, <2>9, <2>10
<1>3. ASSUME NEW k \in Kernels
      PROVE  /\ \A t \in Threads \ {thread[k]} : k \notin list_kernel[t] /\ ImportsOf(t, k) = {}
             /\ Cardinality(ImportsOf(thread[k], k)) = (IF k \in list_kernel[thread[k]] THEN 0 ELSE 1)
  <2>1. thread[k] \in Threads
    BY <1>1 DEF HomeType
  <2>2. ASSUME NEW t \in Threads \ {thread[k]}
        PROVE  k \notin list_kernel[t] /\ ImportsOf(t, k) = {}
    <3>1. Away(k, t)
      BY <1>1 DEF Placed
    <3>2. QED
      BY <1>2, <3>1 DEF Away
  <2>3. Arrived(k, thread[k]) \/ Expected(k, thread[k])
    BY <1>1 DEF Placed
  <2>4. Cardinality(ImportsOf(thread[k], k)) = (IF k \in list_kernel[thread[k]] THEN 0 ELSE 1)
    BY <1>2, <2>1, <2>3 DEF Arrived, Expected
  <2>5. QED
    BY <2>2, <2>4
<1>4. QED
  BY <1>3, Zenon DEF OneHome

(* OneHome: a kernel is always in exactly one place, the list of the thread *)
(* it is assigned to or the one import event on its way there.              *)
THEOREM AlwaysOneHome == Spec => []OneHome
<1>1. QED
  BY HomeInductive, HomeImpliesOneHome, PTL

-----------------------------------------------------------------------------
(***************************************************************************)
(* Delivery: every message posted to a kernel is dispatched at most once,  *)
(* none is lost on the way, and they are dispatched in the order in which  *)
(* they were posted, lane by lane and stay by stay.                        *)
(***************************************************************************)

(***************************************************************************)
(* What is on its way to a kernel, in the order in which it will be taken. *)
(* The shares of the kernel in its thread's queues are l, p and w; here is *)
(* whether it has arrived.  If it has not, the import event is the first   *)
(* of p, or of w, and what it brings goes behind what has been collected.  *)
(***************************************************************************)
LocalFlow(here, l, p, w) ==
    IF here THEN l ELSE IF p # <<>> THEN Head(p).lqueue ELSE Head(w).lqueue

SharedFlow(here, l, p, w) ==
    IF here THEN p \o w
    ELSE IF p # <<>> THEN (Tail(p) \o Head(p).pqueue) \o w
    ELSE Tail(w) \o Head(w).pqueue

(* The messages in q are those numbered in N; two of one stay are in the    *)
(* order of their numbers.                                                  *)
InLine(q, k, N, stay) ==
    /\ q \in Seq(Plain({k}))
    /\ \A n \in Nat : Msg(k, n) \in ToSet(q) <=> n \in N
    /\ \A m, n \in Nat : Before(q, Msg(k, m), Msg(k, n)) /\ stay[m] = stay[n] => m < n

AnyStay == [n \in Nat |-> 0]    \* in the local lane

(* The messages of the shared lane that travel with the kernel, before it   *)
(* is collected, are of an earlier stay.                                    *)
Flows(k, here, l, p, w, locals, shareds, stay, now) ==
    /\ InLine(LocalFlow(here, l, p, w), k, locals, AnyStay)
    /\ InLine(SharedFlow(here, l, p, w), k, shareds, stay)
    /\ ~ here /\ p = <<>> =>
          \A n \in Nat : Msg(k, n) \in ToSet(Head(w).pqueue) => stay[n] < now

Due(k, lane) == {n \in DOMAIN posted \ done : posted[n].kernel = k /\ posted[n].lane = lane}

Stay == [n \in DOMAIN posted |-> posted[n].hop]

Delivered(k, t) ==
    Flows(k, k \in list_kernel[t],
          Share(lqueue[t], k), Share(pqueue[t], k), Share(pending[t], k),
          Due(k, "local"), Due(k, "shared"), Stay, hop[k])

AllDelivered == \A k \in Kernels, t \in Threads : thread[k] = t => Delivered(k, t)

DeliveryBooks ==
    /\ \A n \in DOMAIN posted : posted[n].hop <= hop[posted[n].kernel]
    /\ done \subseteq DOMAIN posted
    /\ PostOrderKept

DeliveryInv == AllDelivered /\ DeliveryBooks

(* A request to move counts as long as the export is not done.              *)
Requested(k) == IF target[k] = None THEN 0 ELSE 1

CountInv ==
    /\ tid_map \in [Threads -> {"in", "disabled", "out"}]
    /\ quit_enabled \in [Threads -> BOOLEAN]
    /\ moves \in 0 .. MaxMoves
    /\ \A k \in Kernels : hop[k] + Requested(k) <= moves
-----------------------------------------------------------------------------
(***************************************************************************)
(* Messages in line.                                                       *)
(***************************************************************************)
LEMMA MsgFacts ==
    ASSUME NEW k
    PROVE  /\ \A n \in Nat : Msg(k, n) \in Plain({k}) /\ Msg(k, n).type = "msg" /\ Msg(k, n).msg = n
           /\ \A m, n \in Nat : Msg(k, m) = Msg(k, n) => m = n
           /\ \A e \in Plain({k}) : e.type = "msg" => e.msg \in Nat /\ e = Msg(k, e.msg)
<1>1. \A n \in Nat : Msg(k, n) \in Plain({k}) /\ Msg(k, n).type = "msg" /\ Msg(k, n).msg = n
  BY DEF Msg, Plain
<1>2. \A e \in Plain({k}) : e.type = "msg" => e.msg \in Nat /\ e = Msg(k, e.msg)
  BY DEF Msg, Plain
<1>3. \A m, n \in Nat : Msg(k, m) = Msg(k, n) => m = n
  BY <1>1, Zenon
<1> QED
  BY <1>1, <1>2, <1>3, Zenon

LEMMA SetCons ==
    ASSUME NEW E, NEW e \in E, NEW s \in Seq(E)
    PROVE  /\ ToSet(<<e>> \o s) = {e} \cup ToSet(s)
           /\ \A a, b : Before(<<e>> \o s, a, b) <=> Before(s, a, b) \/ (a = e /\ b \in ToSet(s))
<1> DEFINE one == <<e>>
<1>1. one \in Seq(E) /\ ToSet(one) = {e} /\ \A a, b : ~ Before(one, a, b)
  BY SetOne
<1> HIDE DEF one
<1>2. /\ ToSet(one \o s) = ToSet(one) \cup ToSet(s)
      /\ \A a, b : Before(one \o s, a, b) <=>
            \/ Before(one, a, b) \/ Before(s, a, b)
            \/ a \in ToSet(one) /\ b \in ToSet(s)
  BY <1>1, SetConcat, Zenon
<1>3. QED
  BY <1>1, <1>2 DEF one

(* An event that is no message comes and goes.                              *)
LEMMA LineOther ==
    ASSUME NEW k, NEW e \in Plain({k}), e.type # "msg", NEW s \in Seq(Plain({k})),
           NEW N, NEW stay
    PROVE  InLine(<<e>> \o s, k, N, stay) <=> InLine(s, k, N, stay)
<1> DEFINE q == <<e>> \o s
           P == Plain({k})
<1>1. q \in Seq(P)
  BY ConsFacts, Zenon
<1>2. /\ ToSet(q) = {e} \cup ToSet(s)
      /\ \A a, b : Before(q, a, b) <=> Before(s, a, b) \/ (a = e /\ b \in ToSet(s))
  BY SetCons, Zenon
<1>3. \A n \in Nat : Msg(k, n) # e
  BY MsgFacts
<1> HIDE DEF q
<1>4. \A n \in Nat : Msg(k, n) \in ToSet(q) <=> Msg(k, n) \in ToSet(s)
  BY <1>2, <1>3
<1>5. \A m, n \in Nat : Before(q, Msg(k, m), Msg(k, n)) <=> Before(s, Msg(k, m), Msg(k, n))
  BY <1>2, <1>3
<1>6. InLine(q, k, N, stay) <=> InLine(s, k, N, stay)
  BY <1>1, <1>4, <1>5, Zenon DEF InLine, P
<1> QED
  BY <1>6 DEF q

(* The first message goes, and was the oldest of its stay.                  *)
LEMMA LineTake ==
    ASSUME NEW k, NEW n \in Nat, NEW s \in Seq(Plain({k})), NEW N, NEW stay,
           InLine(<<Msg(k, n)>> \o s, k, N, stay)
    PROVE  /\ n \in N /\ InLine(s, k, N \ {n}, stay)
           /\ \A m \in Nat : m \in N /\ m # n /\ stay[m] = stay[n] => n < m
<1> DEFINE e == Msg(k, n)
           q == <<e>> \o s
<1>1. /\ e \in Plain({k})
      /\ \A m \in Nat : Msg(k, m) = e => m = n
  BY MsgFacts, Zenon
<1>2. /\ ToSet(q) = {e} \cup ToSet(s)
      /\ \A a, b : Before(q, a, b) <=> Before(s, a, b) \/ (a = e /\ b \in ToSet(s))
  BY <1>1, SetCons, Zenon
<1>3. /\ \A m \in Nat : Msg(k, m) \in ToSet(q) <=> m \in N
      /\ \A l, m \in Nat : Before(q, Msg(k, l), Msg(k, m)) /\ stay[l] = stay[m] => l < m
  BY DEF InLine
<1>4. n \in N
  BY <1>2, <1>3
<1>5. \A m \in Nat : Msg(k, m) \in ToSet(s) /\ stay[n] = stay[m] => n < m
  BY <1>2, <1>3, Zenon
<1>6. e \notin ToSet(s)
  <2>1. ~ (n < n)
    OBVIOUS
  <2> QED
    BY <1>5, <2>1, Zenon
<1>7. \A m \in Nat : Msg(k, m) \in ToSet(s) <=> m \in N \ {n}
  BY <1>1, <1>2, <1>3, <1>6
<1>8. \A l, m \in Nat : Before(s, Msg(k, l), Msg(k, m)) /\ stay[l] = stay[m] => l < m
  BY <1>2, <1>3, Zenon
<1>9. InLine(s, k, N \ {n}, stay)
  BY <1>7, <1>8, Zenon DEF InLine
<1>10. \A m \in Nat : m \in N /\ m # n /\ stay[m] = stay[n] => n < m
  BY <1>5, <1>7, Zenon
<1> QED
  BY <1>4, <1>9, <1>10, Zenon

(* A new message goes behind q and in front of r, whose messages are of     *)
(* other stays.                                                             *)
LEMMA LineInsert ==
    ASSUME NEW k, NEW n \in Nat, NEW q \in Seq(Plain({k})), NEW r \in Seq(Plain({k})),
           NEW N \in SUBSET Nat, NEW stay, NEW then,
           InLine(q \o r, k, N, stay),
           \A m \in N : m < n /\ then[m] = stay[m],
           \A m \in Nat : Msg(k, m) \in ToSet(r) => then[m] # then[n]
    PROVE  InLine(Append(q, Msg(k, n)) \o r, k, N \cup {n}, then)
<1> DEFINE e == Msg(k, n)
           P == Plain({k})
           a == Append(q, e)
           old == q \o r
           new == a \o r
<1>1. /\ e \in P
      /\ \A m \in Nat : Msg(k, m) = e => m = n
  BY MsgFacts, Zenon
<1>2. q \in Seq(P) /\ r \in Seq(P)
  OBVIOUS
<1> HIDE DEF e, P
<1>3. a \in Seq(P) /\ new \in Seq(P)
  <2>1. a \in Seq(P)
    BY <1>1, <1>2
  <2> HIDE DEF a
  <2> QED
    BY <1>2, <2>1
<1>4. /\ ToSet(a) = ToSet(q) \cup {e}
      /\ \A x, y : Before(a, x, y) <=> Before(q, x, y) \/ (x \in ToSet(q) /\ y = e)
  BY <1>1, <1>2, SetAppend
<1>5. /\ ToSet(old) = ToSet(q) \cup ToSet(r)
      /\ \A x, y : Before(old, x, y) <=>
            \/ Before(q, x, y) \/ Before(r, x, y) \/ (x \in ToSet(q) /\ y \in ToSet(r))
  BY <1>2, SetConcat
<1>6. /\ ToSet(new) = ToSet(a) \cup ToSet(r)
      /\ \A x, y : Before(new, x, y) <=>
            \/ Before(a, x, y) \/ Before(r, x, y) \/ (x \in ToSet(a) /\ y \in ToSet(r))
  <2> HIDE DEF a
  <2> QED
    BY <1>2, <1>3, SetConcat
<1>7. /\ \A m \in Nat : Msg(k, m) \in ToSet(old) <=> m \in N
      /\ \A l, m \in Nat : Before(old, Msg(k, l), Msg(k, m)) /\ stay[l] = stay[m] => l < m
  BY DEF InLine
<1> HIDE DEF a, old, new
<1>8. \A m \in Nat : Msg(k, m) \in ToSet(new) <=> m \in N \cup {n}
  BY <1>1, <1>4, <1>5, <1>6, <1>7 DEF e
<1>9. \A l, m \in Nat : Before(old, Msg(k, l), Msg(k, m)) => l \in N /\ m \in N
  <2>1. \A x, y : Before(old, x, y) => x \in ToSet(old) /\ y \in ToSet(old)
    BY DEF Before, ToSet
  <2> QED
    BY <1>7, <2>1, Zenon
<1>10. ASSUME NEW l \in Nat, NEW m \in Nat, Before(new, Msg(k, l), Msg(k, m)), then[l] = then[m]
       PROVE  l < m
  <2>1. CASE Before(old, Msg(k, l), Msg(k, m))
    <3>1. l \in N /\ m \in N
      BY <1>9, <2>1, Zenon
    <3>2. stay[l] = stay[m]
      BY <1>10, <3>1
    <3> QED
      BY <1>7, <2>1, <3>2, Zenon
  <2>2. CASE Msg(k, l) \in ToSet(q) /\ Msg(k, m) = e
    <3>1. l \in N /\ m = n
      BY <1>1, <1>5, <1>7, <2>2
    <3> QED
      BY <3>1
  <2>3. CASE Msg(k, l) = e /\ Msg(k, m) \in ToSet(r)
    <3>1. l = n /\ then[m] # then[n]
      BY <1>1, <2>3
    <3> QED
      BY <1>10, <3>1
  <2>4. \/ Before(old, Msg(k, l), Msg(k, m))
        \/ Msg(k, l) \in ToSet(q) /\ Msg(k, m) = e
        \/ Msg(k, l) = e /\ Msg(k, m) \in ToSet(r)
    <3> DEFINE x == Msg(k, l)
               y == Msg(k, m)
    <3>1. Before(new, x, y)
      BY <1>10
    <3> HIDE DEF x, y
    <3>2. \/ Before(old, x, y)
          \/ x \in ToSet(q) /\ y = e
          \/ x = e /\ y \in ToSet(r)
      BY <1>4, <1>5, <1>6, <3>1
    <3> QED
      BY <3>2 DEF x, y
  <2> QED
    BY <2>1, <2>2, <2>3, <2>4, Zenon
<1>11. InLine(new, k, N \cup {n}, then)
  BY <1>3, <1>8, <1>10, Zenon DEF InLine, P
<1> QED
  BY <1>11 DEF new, a, e

LEMMA LineAppend ==
    ASSUME NEW k, NEW n \in Nat, NEW q \in Seq(Plain({k})),
           NEW N \in SUBSET Nat, NEW stay, NEW then,
           InLine(q, k, N, stay),
           \A m \in N : m < n /\ then[m] = stay[m]
    PROVE  InLine(Append(q, Msg(k, n)), k, N \cup {n}, then)
<1> DEFINE P == Plain({k})
           e == Msg(k, n)
           a == Append(q, e)
<1>1. e \in P
  BY MsgFacts
<1>2. q \in Seq(P) /\ a \in Seq(P)
  <2> HIDE DEF e, P
  <2> QED
    BY <1>1 DEF P
<1> HIDE DEF P, a
<1>3. q \o <<>> = q /\ a \o <<>> = a
  BY <1>2, ConcatEmptySeq, Zenon
<1>4. <<>> \in Seq(P) /\ \A x : x \notin ToSet(<<>>)
  BY EmptySeq, SetEmpty
<1>5. InLine(q \o <<>>, k, N, stay)
  BY <1>3, Zenon
<1> DEFINE r == <<>>
<1>6. r \in Seq(P) /\ InLine(q \o r, k, N, stay)
      /\ \A m \in Nat : Msg(k, m) \in ToSet(r) => then[m] # then[n]
  BY <1>4, <1>5
<1> HIDE DEF r
<1>7. InLine(Append(q, Msg(k, n)) \o r, k, N \cup {n}, then)
  BY <1>2, <1>6, LineInsert DEF P
<1> QED
  BY <1>3, <1>7 DEF a, r

(* Only the stays of those in line count.                                   *)
LEMMA LineStays ==
    ASSUME NEW k, NEW q, NEW N, NEW stay, NEW then, InLine(q, k, N, stay),
           \A m \in N : then[m] = stay[m]
    PROVE  InLine(q, k, N, then)
<1>1. \A x, y : Before(q, x, y) => x \in ToSet(q) /\ y \in ToSet(q)
  BY DEF Before, ToSet
<1>2. \A l, m \in Nat : Before(q, Msg(k, l), Msg(k, m)) => l \in N /\ m \in N
  BY <1>1, Zenon DEF InLine
<1> QED
  BY <1>2, Zenon DEF InLine
-----------------------------------------------------------------------------
(***************************************************************************)
(* What each step does to the flows of a kernel.                           *)
(***************************************************************************)
Shape(k, here, l, p, w) ==
    IF here THEN l \in Seq(Plain({k})) /\ p \in Seq(Plain({k})) /\ w \in Seq(Plain({k}))
    ELSE /\ l = <<>>
         /\ \/ Brings(p, k) /\ w \in Seq(Plain({k}))
            \/ p = <<>> /\ Brings(w, k)

LEMMA BringsParts ==
    ASSUME NEW k \in Kernels, NEW q, Brings(q, k)
    PROVE  /\ q # <<>> /\ q \in Seq(Event)
           /\ q = <<Head(q)>> \o Tail(q) /\ Head(q) \in Carriers(k) /\ Tail(q) \in Seq(Plain({k}))
           /\ Head(q).lqueue \in Seq(Plain({k})) /\ Head(q).pqueue \in Seq(Plain({k}))
<1>1. PICK c \in Carriers(k), r \in Seq(Plain({k})) : q = <<c>> \o r
  BY Zenon DEF Brings
<1>2. c \in Event /\ r \in Seq(Event)
  BY PlainOwn, ShareOfPlain, Zenon
<1>3. <<c>> \o r \in Seq(Event) /\ <<c>> \o r # <<>> /\ Head(<<c>> \o r) = c /\ Tail(<<c>> \o r) = r
  BY <1>2, ConsFacts, Zenon
<1>4. q \in Seq(Event) /\ q # <<>> /\ Head(q) = c /\ Tail(q) = r
  BY <1>1, <1>3, Zenon
<1>5. c.lqueue \in Seq(Plain({k})) /\ c.pqueue \in Seq(Plain({k}))
  BY DEF Carriers
<1> QED
  BY <1>1, <1>4, <1>5, Zenon

(* The messages in a flow are those due.                                    *)
LEMMA FlowTypes ==
    ASSUME NEW k \in Kernels, NEW here \in BOOLEAN, NEW l, NEW p, NEW w, Shape(k, here, l, p, w)
    PROVE  /\ LocalFlow(here, l, p, w) \in Seq(Plain({k}))
           /\ SharedFlow(here, l, p, w) \in Seq(Plain({k}))
           /\ ~ here /\ p = <<>> => \A x \in ToSet(Head(w).pqueue) : x \in ToSet(SharedFlow(here, l, p, w))
<1> DEFINE P == Plain({k})
<1>1. CASE here
  BY <1>1, ConcatProperties DEF Shape, LocalFlow, SharedFlow
<1>2. CASE ~ here /\ Brings(p, k) /\ w \in Seq(P)
  <2> DEFINE a == Tail(p)
             b == Head(p).pqueue
  <2>1. p # <<>> /\ a \in Seq(P) /\ b \in Seq(P) /\ Head(p).lqueue \in Seq(P)
    BY <1>2, BringsParts, Zenon
  <2> HIDE DEF P
  <2>2. LocalFlow(here, l, p, w) = Head(p).lqueue /\ SharedFlow(here, l, p, w) = (a \o b) \o w
    BY <1>2, <2>1 DEF LocalFlow, SharedFlow
  <2> HIDE DEF a, b
  <2>3. (a \o b) \o w \in Seq(P)
    BY <1>2, <2>1
  <2> QED
    BY <2>1, <2>2, <2>3 DEF P
<1>3. CASE ~ here /\ p = <<>> /\ Brings(w, k)
  <2> DEFINE a == Tail(w)
             b == Head(w).pqueue
  <2>1. w # <<>> /\ a \in Seq(P) /\ b \in Seq(P) /\ Head(w).lqueue \in Seq(P)
    BY <1>3, BringsParts, Zenon
  <2> HIDE DEF P
  <2>2. LocalFlow(here, l, p, w) = Head(w).lqueue /\ SharedFlow(here, l, p, w) = a \o b
    BY <1>3, <2>1 DEF LocalFlow, SharedFlow
  <2>3. ToSet(a \o b) = ToSet(a) \cup ToSet(b) /\ a \o b \in Seq(P)
    <3> HIDE DEF a, b
    <3> QED
      BY <2>1, SetConcat
  <2> QED
    BY <2>1, <2>2, <2>3 DEF P
<1> QED
  BY <1>1, <1>2, <1>3, Zenon DEF Shape

(* Only the stays of the messages due count.                                *)
LEMMA FlowStays ==
    ASSUME NEW k \in Kernels, NEW here \in BOOLEAN, NEW l, NEW p, NEW w, Shape(k, here, l, p, w),
           NEW L, NEW S, NEW stay, NEW then, NEW now,
           Flows(k, here, l, p, w, L, S, stay, now), \A m \in S : then[m] = stay[m]
    PROVE  Flows(k, here, l, p, w, L, S, then, now)
<1> DEFINE s == SharedFlow(here, l, p, w)
<1>1. InLine(s, k, S, stay)
  BY DEF Flows
<1>2. ~ here /\ p = <<>> => \A x \in ToSet(Head(w).pqueue) : x \in ToSet(s)
  BY FlowTypes, Zenon
<1> HIDE DEF s
<1>3. InLine(s, k, S, then)
  BY <1>1, LineStays
<1>4. \A n \in Nat : Msg(k, n) \in ToSet(s) => then[n] = stay[n]
  BY <1>1 DEF InLine
<1>5. ~ here /\ p = <<>> => \A n \in Nat : Msg(k, n) \in ToSet(Head(w).pqueue) => then[n] < now
  BY <1>2, <1>4 DEF Flows
<1> QED
  BY <1>3, <1>5, Zenon DEF Flows, s

(* A message is posted to the kernel.                                       *)
LEMMA FlowPost ==
    ASSUME NEW k \in Kernels, NEW here \in BOOLEAN, NEW l, NEW p, NEW w, Shape(k, here, l, p, w),
           NEW L, NEW S \in SUBSET Nat, NEW stay, NEW then, NEW now \in Int, NEW n \in Nat,
           Flows(k, here, l, p, w, L, S, stay, now),
           \A m \in S : m < n /\ then[m] = stay[m],
           then[n] = now
    PROVE  Flows(k, here, l, p, Append(w, Msg(k, n)), L, S \cup {n}, then, now)
<1> DEFINE P == Plain({k})
           e == Msg(k, n)
           v == Append(w, e)
<1>1. e \in P
  BY MsgFacts
<1>2. Flows(k, here, l, p, w, L, S, then, now)
  BY FlowStays
<1>3. /\ InLine(LocalFlow(here, l, p, w), k, L, AnyStay)
      /\ InLine(SharedFlow(here, l, p, w), k, S, then)
      /\ ~ here /\ p = <<>> => \A m \in Nat : Msg(k, m) \in ToSet(Head(w).pqueue) => then[m] < now
  BY <1>2 DEF Flows
<1>4. SharedFlow(here, l, p, w) \in Seq(P)
  BY FlowTypes
<1>5. ASSUME NEW f \in Seq(P), SharedFlow(here, l, p, w) = f \o w, w \in Seq(P),
             SharedFlow(here, l, p, v) = f \o v
      PROVE  InLine(SharedFlow(here, l, p, v), k, S \cup {n}, then)
  <2> DEFINE q == f \o w
  <2>1. q \in Seq(P) /\ InLine(q, k, S, then)
    BY <1>3, <1>4, <1>5
  <2> HIDE DEF q
  <2>2. InLine(Append(q, Msg(k, n)), k, S \cup {n}, then)
    BY <2>1, LineAppend
  <2> HIDE DEF P, e
  <2>3. f \o Append(w, e) = Append(f \o w, e)
    BY <1>1, <1>5, ConcatAppend
  <2> QED
    BY <1>5, <2>2, <2>3 DEF q, e
<1>6. CASE here
  <2>1. /\ LocalFlow(here, l, p, w) = l /\ LocalFlow(here, l, p, v) = l
        /\ SharedFlow(here, l, p, w) = p \o w /\ SharedFlow(here, l, p, v) = p \o v
        /\ p \in Seq(P) /\ w \in Seq(P)
    BY <1>6 DEF LocalFlow, SharedFlow, Shape
  <2>2. InLine(SharedFlow(here, l, p, v), k, S \cup {n}, then)
    BY <1>5, <2>1
  <2> QED
    BY <1>3, <1>6, <2>1, <2>2, Zenon DEF Flows
<1>7. CASE ~ here /\ Brings(p, k) /\ w \in Seq(P)
  <2> DEFINE f == Tail(p) \o Head(p).pqueue
  <2>1. p # <<>> /\ Tail(p) \in Seq(P) /\ Head(p).pqueue \in Seq(P)
    BY <1>7, BringsParts, Zenon
  <2>2. f \in Seq(P)
    BY <2>1, ConcatProperties, Zenon
  <2>3. /\ LocalFlow(here, l, p, v) = LocalFlow(here, l, p, w)
        /\ SharedFlow(here, l, p, w) = f \o w /\ SharedFlow(here, l, p, v) = f \o v
    BY <1>7, <2>1 DEF LocalFlow, SharedFlow
  <2> HIDE DEF f
  <2>4. InLine(SharedFlow(here, l, p, v), k, S \cup {n}, then)
    BY <1>5, <1>7, <2>2, <2>3
  <2> QED
    BY <1>3, <2>1, <2>3, <2>4, Zenon DEF Flows
<1>8. CASE ~ here /\ p = <<>> /\ Brings(w, k)
  <2> DEFINE c == Head(w)
             r == Tail(w)
             b == c.pqueue
  <2>1. /\ w # <<>> /\ w \in Seq(Event) /\ w = <<c>> \o r
        /\ c \in Carriers(k) /\ r \in Seq(P) /\ b \in Seq(P)
    BY <1>8, BringsParts, Zenon
  <2>2. c \in Event /\ r \in Seq(Event) /\ e \in Event
    BY <1>1, <2>1, PlainOwn, ShareOfPlain, Zenon
  <2>3. v = <<c>> \o Append(r, e) /\ Append(r, e) \in Seq(Event)
    <3> HIDE DEF c, r, e
    <3> QED
      BY <2>1, <2>2
  <2>4. v # <<>> /\ Head(v) = c /\ Tail(v) = Append(r, e)
    <3> DEFINE a == Append(r, e)
    <3>1. a \in Seq(Event) /\ v = <<c>> \o a
      BY <2>3
    <3> HIDE DEF a, v, c
    <3> QED
      BY <2>2, <3>1, ConsFacts DEF a
  <2>5. /\ LocalFlow(here, l, p, w) = c.lqueue /\ LocalFlow(here, l, p, v) = c.lqueue
        /\ SharedFlow(here, l, p, w) = r \o b /\ SharedFlow(here, l, p, v) = Append(r, e) \o b
    BY <1>8, <2>4 DEF LocalFlow, SharedFlow
  <2>6. \A m \in Nat : Msg(k, m) \in ToSet(b) => then[m] # then[n]
    <3>1. \A m \in Nat : Msg(k, m) \in ToSet(b) => then[m] < now
      BY <1>3, <1>8
    <3>2. ~ (now < now)
      OBVIOUS
    <3> QED
      BY <3>1, <3>2, Zenon
  <2>7. InLine(Append(r, Msg(k, n)) \o b, k, S \cup {n}, then)
    <3>1. InLine(r \o b, k, S, then)
      BY <1>3, <2>5
    <3> HIDE DEF r, b
    <3> QED
      BY <2>1, <2>6, <3>1, LineInsert
  <2>8. \A m \in Nat : Msg(k, m) \in ToSet(Head(v).pqueue) => then[m] < now
    BY <1>3, <1>8, <2>4
  <2> HIDE DEF v, c, r, b
  <2> QED
    BY <1>3, <1>8, <2>5, <2>7, <2>8, Zenon DEF Flows, v, e
<1>9. Flows(k, here, l, p, v, L, S \cup {n}, then, now)
  BY <1>6, <1>7, <1>8, Zenon DEF Shape
<1> QED
  BY <1>9

(* The kernel posts to itself.                                              *)
LEMMA FlowLocal ==
    ASSUME NEW k \in Kernels, NEW l, NEW p, NEW w, Shape(k, TRUE, l, p, w),
           NEW L \in SUBSET Nat, NEW S, NEW stay, NEW now, NEW n \in Nat,
           Flows(k, TRUE, l, p, w, L, S, stay, now),
           \A m \in L : m < n
    PROVE  Flows(k, TRUE, Append(l, Msg(k, n)), p, w, L \cup {n}, S, stay, now)
<1>1. l \in Seq(Plain({k})) /\ InLine(l, k, L, AnyStay)
  BY DEF Shape, Flows, LocalFlow
<1>2. InLine(Append(l, Msg(k, n)), k, L \cup {n}, AnyStay)
  BY <1>1, LineAppend
<1> QED
  BY <1>2 DEF Flows, LocalFlow, SharedFlow

(* A request to move comes or goes, or one meant for nobody goes.           *)
LEMMA FlowOther ==
    ASSUME NEW k \in Kernels, NEW l, NEW p, NEW w, Shape(k, TRUE, l, p, w),
           NEW L, NEW S, NEW stay, NEW now, NEW e \in Plain({k}), e.type # "msg"
    PROVE  /\ Flows(k, TRUE, <<e>> \o l, p, w, L, S, stay, now) <=> Flows(k, TRUE, l, p, w, L, S, stay, now)
           /\ Flows(k, TRUE, l, <<e>> \o p, w, L, S, stay, now) <=> Flows(k, TRUE, l, p, w, L, S, stay, now)
<1> DEFINE P == Plain({k})
           s == p \o w
<1>1. l \in Seq(P) /\ p \in Seq(P) /\ w \in Seq(P) /\ e \in P
  BY DEF Shape
<1>2. InLine(<<e>> \o l, k, L, AnyStay) <=> InLine(l, k, L, AnyStay)
  BY <1>1, LineOther
<1>3. InLine((<<e>> \o p) \o w, k, S, stay) <=> InLine(p \o w, k, S, stay)
  <2> HIDE DEF P
  <2>1. s \in Seq(P)
    BY <1>1
  <2>2. (<<e>> \o p) \o w = <<e>> \o s
    <3> DEFINE one == <<e>>
    <3>1. one \in Seq(P)
      BY <1>1
    <3> HIDE DEF one
    <3>2. (one \o p) \o w = one \o (p \o w)
      BY <1>1, <3>1, ConcatAssociative
    <3> QED
      BY <3>2 DEF one
  <2> HIDE DEF s
  <2>3. InLine(<<e>> \o s, k, S, stay) <=> InLine(s, k, S, stay)
    BY <2>1, LineOther DEF P
  <2> QED
    BY <2>2, <2>3 DEF s
<1> QED
  BY <1>2, <1>3, Zenon DEF Flows, LocalFlow, SharedFlow

(* A message is dispatched: the oldest of its lane and stay.                *)
LEMMA FlowTakeLocal ==
    ASSUME NEW k \in Kernels, NEW l \in Seq(Plain({k})), NEW p, NEW w,
           NEW L, NEW S, NEW stay, NEW now, NEW n \in Nat,
           Flows(k, TRUE, <<Msg(k, n)>> \o l, p, w, L, S, stay, now)
    PROVE  /\ n \in L /\ Flows(k, TRUE, l, p, w, L \ {n}, S, stay, now)
           /\ \A m \in Nat : m \in L /\ m # n => n < m
<1>1. InLine(<<Msg(k, n)>> \o l, k, L, AnyStay) /\ InLine(p \o w, k, S, stay)
  BY Zenon DEF Flows, LocalFlow, SharedFlow
<1>2. /\ n \in L /\ InLine(l, k, L \ {n}, AnyStay)
      /\ \A m \in Nat : m \in L /\ m # n /\ AnyStay[m] = AnyStay[n] => n < m
  BY <1>1, LineTake, Zenon
<1>3. \A m \in Nat : AnyStay[m] = AnyStay[n]
  BY DEF AnyStay
<1> QED
  BY <1>1, <1>2, <1>3, Zenon DEF Flows, LocalFlow, SharedFlow

LEMMA FlowTakeShared ==
    ASSUME NEW k \in Kernels, NEW l, NEW p \in Seq(Plain({k})), NEW w \in Seq(Plain({k})),
           NEW L, NEW S, NEW stay, NEW now, NEW n \in Nat,
           Flows(k, TRUE, l, <<Msg(k, n)>> \o p, w, L, S, stay, now)
    PROVE  /\ n \in S /\ Flows(k, TRUE, l, p, w, L, S \ {n}, stay, now)
           /\ \A m \in Nat : m \in S /\ m # n /\ stay[m] = stay[n] => n < m
<1> DEFINE P == Plain({k})
           e == Msg(k, n)
           s == p \o w
<1>1. InLine(l, k, L, AnyStay) /\ InLine((<<e>> \o p) \o w, k, S, stay)
  BY Zenon DEF Flows, LocalFlow, SharedFlow
<1>2. e \in P /\ p \in Seq(P) /\ w \in Seq(P)
  BY MsgFacts
<1> HIDE DEF P, e
<1>3. s \in Seq(P)
  BY <1>2
<1>4. (<<e>> \o p) \o w = <<e>> \o s
  <2> DEFINE one == <<e>>
  <2>1. one \in Seq(P)
    BY <1>2
  <2> HIDE DEF one
  <2>2. (one \o p) \o w = one \o (p \o w)
    BY ONLY <1>2, <2>1, ConcatAssociative
  <2> QED
    BY <2>2 DEF one
<1> HIDE DEF s
<1>5. InLine(<<Msg(k, n)>> \o s, k, S, stay)
  BY <1>1, <1>4 DEF e
<1>6. /\ n \in S /\ InLine(s, k, S \ {n}, stay)
      /\ \A m \in Nat : m \in S /\ m # n /\ stay[m] = stay[n] => n < m
  BY <1>3, <1>5, LineTake DEF P
<1> QED
  BY <1>1, <1>6, Zenon DEF Flows, LocalFlow, SharedFlow, s

(* Whichever queue the message was in, it was due in one lane.              *)
LEMMA FlowTake ==
    ASSUME NEW k \in Kernels, NEW n \in Nat, NEW l \in Seq(Plain({k})), NEW p \in Seq(Plain({k})),
           NEW w \in Seq(Plain({k})), NEW a, NEW b, NEW L, NEW S, NEW stay, NEW now,
           Flows(k, TRUE, a, b, w, L, S, stay, now),
           \/ a = <<Msg(k, n)>> \o l /\ b = p
           \/ a = l /\ b = <<Msg(k, n)>> \o p
    PROVE  \/ /\ n \in L /\ Flows(k, TRUE, l, p, w, L \ {n}, S, stay, now)
              /\ \A m \in Nat : m \in L /\ m # n => n < m
           \/ /\ n \in S /\ Flows(k, TRUE, l, p, w, L, S \ {n}, stay, now)
              /\ \A m \in Nat : m \in S /\ m # n /\ stay[m] = stay[n] => n < m
<1>1. CASE a = <<Msg(k, n)>> \o l /\ b = p
  <2>1. Flows(k, TRUE, <<Msg(k, n)>> \o l, p, w, L, S, stay, now)
    BY <1>1
  <2>2. n \in L /\ Flows(k, TRUE, l, p, w, L \ {n}, S, stay, now)
        /\ \A m \in Nat : m \in L /\ m # n => n < m
    BY <2>1, FlowTakeLocal, Zenon
  <2> QED
    BY <2>2
<1>2. CASE a = l /\ b = <<Msg(k, n)>> \o p
  <2>1. Flows(k, TRUE, l, <<Msg(k, n)>> \o p, w, L, S, stay, now)
    BY <1>2
  <2>2. n \in S /\ Flows(k, TRUE, l, p, w, L, S \ {n}, stay, now)
        /\ \A m \in Nat : m \in S /\ m # n /\ stay[m] = stay[n] => n < m
    BY <2>1, FlowTakeShared, Zenon
  <2> QED
    BY <2>2
<1> QED
  BY <1>1, <1>2, Zenon

(* The kernel leaves: what has been on its way travels with it.             *)
LEMMA FlowExport ==
    ASSUME NEW k \in Kernels, NEW l, NEW p, NEW w, Shape(k, TRUE, l, p, w),
           NEW L, NEW S, NEW stay, NEW now, NEW later,
           Flows(k, TRUE, l, p, w, L, S, stay, now),
           \A n \in S : stay[n] < later
    PROVE  Flows(k, FALSE, <<>>, <<>>, <<Import(k, l, p \o w)>> \o <<>>, L, S, stay, later)
<1> DEFINE P == Plain({k})
           s == p \o w
           c == Import(k, l, s)
           v == <<c>> \o <<>>
<1>1. /\ InLine(l, k, L, AnyStay) /\ InLine(s, k, S, stay)
      /\ l \in Seq(P) /\ p \in Seq(P) /\ w \in Seq(P)
  BY Zenon DEF Flows, LocalFlow, SharedFlow, Shape
<1>2. s \in Seq(P)
  BY <1>1, ConcatProperties, Zenon
<1>3. c.lqueue = l /\ c.pqueue = s
  BY DEF Import
<1> HIDE DEF c
<1>4. Head(v) = c /\ Tail(v) = <<>>
  BY DEF v
<1> HIDE DEF s, P
<1>5. <<>> \o s = s
  BY <1>2, ConcatEmptySeq
<1>6. LocalFlow(FALSE, <<>>, <<>>, v) = l /\ SharedFlow(FALSE, <<>>, <<>>, v) = s
  BY <1>3, <1>4, <1>5 DEF LocalFlow, SharedFlow
<1>7. \A n \in Nat : Msg(k, n) \in ToSet(Head(v).pqueue) => stay[n] < later
  BY <1>1, <1>3, <1>4 DEF InLine
<1> HIDE DEF v
<1>8. Flows(k, FALSE, <<>>, <<>>, v, L, S, stay, later)
  BY <1>1, <1>6, <1>7, Zenon DEF Flows
<1> QED
  BY <1>8 DEF v, c, s

(* The kernel arrives with what it brings.                                  *)
LEMMA FlowImport ==
    ASSUME NEW k \in Kernels, NEW c \in Carriers(k), NEW p \in Seq(Plain({k})), NEW w,
           NEW L, NEW S, NEW stay, NEW now,
           Flows(k, FALSE, <<>>, <<c>> \o p, w, L, S, stay, now)
    PROVE  Flows(k, TRUE, c.lqueue, p \o c.pqueue, w, L, S, stay, now)
<1> DEFINE v == <<c>> \o p
<1>1. c \in Event /\ p \in Seq(Event)
  BY PlainOwn, ShareOfPlain, Zenon
<1>2. v # <<>> /\ Head(v) = c /\ Tail(v) = p
  BY <1>1, ConsFacts, Zenon
<1>3. Flows(k, FALSE, <<>>, v, w, L, S, stay, now)
  OBVIOUS
<1> HIDE DEF v
<1>4. /\ LocalFlow(FALSE, <<>>, v, w) = c.lqueue
      /\ SharedFlow(FALSE, <<>>, v, w) = (p \o c.pqueue) \o w
  BY <1>2 DEF LocalFlow, SharedFlow
<1> QED
  BY <1>3, <1>4, Zenon DEF Flows, LocalFlow, SharedFlow

(* What is pending is collected.                                            *)
LEMMA FlowCollect ==
    ASSUME NEW k \in Kernels, NEW here \in BOOLEAN, NEW l, NEW w, Shape(k, here, l, <<>>, w),
           NEW L, NEW S, NEW stay, NEW now,
           Flows(k, here, l, <<>>, w, L, S, stay, now)
    PROVE  Flows(k, here, l, w, <<>>, L, S, stay, now)
<1> DEFINE P == Plain({k})
<1>0. ~ Brings(<<>>, k)
  BY BringsParts, Zenon
<1>1. CASE here
  <2>1. w \in Seq(P)
    BY <1>1 DEF Shape
  <2>2. <<>> \o w = w /\ w \o <<>> = w
    BY <2>1, ConcatEmptySeq, Zenon
  <2> QED
    BY <1>1, <2>2, Zenon DEF Flows, LocalFlow, SharedFlow
<1>2. CASE ~ here /\ Brings(w, k)
  <2> DEFINE s == Tail(w) \o Head(w).pqueue
  <2>1. w # <<>> /\ Tail(w) \in Seq(P) /\ Head(w).pqueue \in Seq(P)
    BY <1>2, BringsParts, Zenon
  <2>2. s \in Seq(P)
    BY <2>1, ConcatProperties, Zenon
  <2> HIDE DEF s
  <2>3. s \o <<>> = s
    BY <2>2, ConcatEmptySeq, Zenon
  <2>4. /\ LocalFlow(here, l, w, <<>>) = LocalFlow(here, l, <<>>, w)
        /\ SharedFlow(here, l, w, <<>>) = s \o <<>>
        /\ SharedFlow(here, l, <<>>, w) = s
    BY <1>2, <2>1 DEF LocalFlow, SharedFlow, s
  <2> QED
    BY <2>1, <2>3, <2>4, Zenon DEF Flows
<1> QED
  BY <1>0, <1>1, <1>2, Zenon DEF Shape
-----------------------------------------------------------------------------
(***************************************************************************)
(* Where the shares of a kernel are.                                       *)
(***************************************************************************)
LEMMA ShapeOf ==
    ASSUME IndInv, NEW k \in Kernels, NEW t \in Threads, thread[k] = t,
           NEW here \in BOOLEAN, here <=> k \in list_kernel[t]
    PROVE  Shape(k, here, Share(lqueue[t], k), Share(pqueue[t], k), Share(pending[t], k))
<1>1. Arrived(k, t) \/ Expected(k, t)
  BY Zenon DEF IndInv, Placed
<1>2. CASE Arrived(k, t)
  BY <1>2, Zenon DEF Arrived, Shape
<1>3. CASE Expected(k, t)
  BY <1>3, Zenon DEF Expected, Shape
<1> QED
  BY <1>1, <1>2, <1>3

LEMMA DeliveredIs ==
    ASSUME NEW k, NEW t, Delivered(k, t), NEW here \in BOOLEAN, here <=> k \in list_kernel[t]
    PROVE  Flows(k, here, Share(lqueue[t], k), Share(pqueue[t], k), Share(pending[t], k),
                 Due(k, "local"), Due(k, "shared"), Stay, hop[k])
<1>1. here = (k \in list_kernel[t])
  OBVIOUS
<1> QED
  BY <1>1, Zenon DEF Delivered

LEMMA DeliveredBy ==
    ASSUME NEW k, NEW t, NEW here \in BOOLEAN, here <=> k \in list_kernel'[t],
           Flows(k, here, Share(lqueue'[t], k), Share(pqueue'[t], k), Share(pending'[t], k),
                 Due(k, "local")', Due(k, "shared")', Stay', hop'[k])
    PROVE  Delivered(k, t)'
<1>1. here = (k \in list_kernel'[t])
  OBVIOUS
<1> QED
  BY <1>1, Zenon DEF Delivered

(* A step that leaves a kernel alone.                                       *)
LEMMA DeliveredStays ==
    ASSUME IndInv, NEW k \in Kernels, NEW t \in Threads, thread[k] = t,
           Delivered(k, t), SameFor(k, t), hop'[k] = hop[k],
           Due(k, "local")' = Due(k, "local"), Due(k, "shared")' = Due(k, "shared"),
           \A m \in DOMAIN posted : Stay'[m] = Stay[m]
    PROVE  Delivered(k, t)'
<1>1. PICK here \in BOOLEAN : here <=> k \in list_kernel[t]
  BY Zenon
<1>2. Shape(k, here, Share(lqueue[t], k), Share(pqueue[t], k), Share(pending[t], k))
  BY <1>1, ShapeOf, Zenon
<1>3. Flows(k, here, Share(lqueue[t], k), Share(pqueue[t], k), Share(pending[t], k),
            Due(k, "local"), Due(k, "shared"), Stay, hop[k])
  BY <1>1, DeliveredIs, Zenon
<1>4. \A m \in Due(k, "shared") : Stay'[m] = Stay[m]
  BY DEF Due
<1>5. Flows(k, here, Share(lqueue[t], k), Share(pqueue[t], k), Share(pending[t], k),
            Due(k, "local"), Due(k, "shared"), Stay', hop[k])
  BY <1>2, <1>3, <1>4, FlowStays, Zenon
<1>6. here <=> k \in list_kernel'[t]
  BY <1>1, Zenon DEF SameFor
<1>7. Flows(k, here, Share(lqueue'[t], k), Share(pqueue'[t], k), Share(pending'[t], k),
            Due(k, "local")', Due(k, "shared")', Stay', hop'[k])
  BY <1>5, Zenon DEF SameFor
<1> QED
  BY <1>6, <1>7, DeliveredBy, Zenon

(* A step that concerns one kernel.                                         *)
LEMMA DeliveredFrame ==
    ASSUME IndInv, AllDelivered, NEW k \in Kernels,
           \A j \in Kernels \ {k} :
              /\ thread'[j] = thread[j] /\ hop'[j] = hop[j]
              /\ \A t \in Threads : thread[j] = t => SameFor(j, t)
              /\ Due(j, "local")' = Due(j, "local") /\ Due(j, "shared")' = Due(j, "shared"),
           \A m \in DOMAIN posted : Stay'[m] = Stay[m],
           NEW u \in Threads, thread'[k] = u, Delivered(k, u)'
    PROVE  AllDelivered'
<1> SUFFICES ASSUME NEW j \in Kernels, NEW t \in Threads, thread'[j] = t PROVE Delivered(j, t)'
  BY Zenon DEF AllDelivered
<1>1. CASE j = k
  <2>1. t = u
    BY <1>1
  <2> QED
    BY <1>1, <2>1
<1>2. CASE j # k
  <2>1. thread[j] = t /\ hop'[j] = hop[j] /\ SameFor(j, t)
        /\ Due(j, "local")' = Due(j, "local") /\ Due(j, "shared")' = Due(j, "shared")
    BY <1>2
  <2>2. Delivered(j, t)
    BY <2>1, Zenon DEF AllDelivered
  <2> QED
    BY <2>1, <2>2, DeliveredStays, Zenon
<1> QED
  BY <1>1, <1>2
-----------------------------------------------------------------------------
(***************************************************************************)
(* What is posted and what is done.                                        *)
(***************************************************************************)
LEMMA PostedFacts ==
    ASSUME IndInv
    PROVE  /\ Len(posted) \in Nat /\ DOMAIN posted = 1 .. Len(posted) /\ DOMAIN posted \subseteq Nat
           /\ \A n \in DOMAIN posted : /\ posted[n].kernel \in Kernels /\ posted[n].hop \in Nat
                                       /\ posted[n].lane \in {"shared", "local"}
           /\ \A k : \A lane : Due(k, lane) \in SUBSET Nat /\ Due(k, lane) \subseteq DOMAIN posted
<1> DEFINE Rec == [kernel : Kernels, lane : {"shared", "local"}, hop : Nat]
<1>1. posted \in Seq(Rec)
  BY DEF IndInv, HomeType
<1>2. /\ Len(posted) \in Nat /\ DOMAIN posted = 1 .. Len(posted)
      /\ \A n \in DOMAIN posted : posted[n] \in Rec
  <2> HIDE DEF Rec
  <2> QED
    BY <1>1
<1>3. DOMAIN posted \subseteq Nat
  BY <1>2
<1>4. \A k : \A lane : Due(k, lane) \in SUBSET Nat /\ Due(k, lane) \subseteq DOMAIN posted
  BY <1>3 DEF Due
<1> QED
  BY <1>2, <1>3, <1>4

LEMMA Recorded ==
    ASSUME IndInv, DeliveryBooks, NEW k \in Kernels, NEW lane \in {"shared", "local"}, Record(k, lane),
           NEW n, n = Len(posted) + 1
    PROVE  /\ n \in Nat /\ Len(posted') = n
           /\ Due(k, lane)' = Due(k, lane) \cup {n}
           /\ \A j : \A way : j # k \/ way # lane => Due(j, way)' = Due(j, way)
           /\ \A j : \A way : \A m \in Due(j, way) : m < n
           /\ \A m \in DOMAIN posted : Stay'[m] = Stay[m]
           /\ Stay'[n] = hop[k]
           /\ hop' = hop
           /\ DeliveryBooks'
<1> DEFINE rec == [kernel |-> k, lane |-> lane, hop |-> hop[k]]
           Rec == [kernel : Kernels, lane : {"shared", "local"}, hop : Nat]
<1>1. /\ posted' = Append(posted, rec) /\ hop' = hop /\ done' = done
      /\ posted \in Seq(Rec) /\ rec \in Rec
      /\ hop[k] \in Nat
  BY DEF Record, IndInv, HomeType
<1>2. /\ rec.kernel = k /\ rec.lane = lane /\ rec.hop = hop[k]
  OBVIOUS
<1> HIDE DEF rec, Rec
<1>3. /\ n \in Nat /\ Len(posted') = n /\ DOMAIN posted' = DOMAIN posted \cup {n}
      /\ n \notin DOMAIN posted /\ posted'[n] = rec
      /\ \A m \in DOMAIN posted : posted'[m] = posted[m] /\ m < n /\ m \in Nat
  BY <1>1
<1>4. n \notin done /\ done \subseteq DOMAIN posted
  BY <1>3 DEF DeliveryBooks
<1>5. \A j : \A way : Due(j, way)' = IF j = k /\ way = lane THEN Due(j, way) \cup {n} ELSE Due(j, way)
  BY <1>1, <1>2, <1>3, <1>4 DEF Due
<1>6. \A m \in DOMAIN posted : Stay'[m] = Stay[m]
  BY <1>3 DEF Stay
<1>7. Stay'[n] = hop[k]
  BY <1>2, <1>3 DEF Stay
<1>8. \A m \in DOMAIN posted' : posted'[m].hop <= hop'[posted'[m].kernel]
  <2>1. hop[k] <= hop[k]
    BY <1>1
  <2> QED
    BY <1>1, <1>2, <1>3, <2>1 DEF DeliveryBooks
<1>9. PostOrderKept'
  <2> SUFFICES ASSUME NEW a \in done, NEW b \in 1 .. a - 1, InOrder(b, a)' PROVE b \in done
    BY <1>1 DEF PostOrderKept
  <2>1. a \in DOMAIN posted /\ DOMAIN posted = 1 .. Len(posted) /\ Len(posted) \in Nat
    BY <1>1, <1>4
  <2>2. b \in DOMAIN posted
    BY <2>1
  <2>3. InOrder(b, a)
    BY <1>3, <2>1, <2>2 DEF InOrder
  <2> QED
    BY <2>3 DEF DeliveryBooks, PostOrderKept
<1>10. DeliveryBooks'
  BY <1>1, <1>3, <1>4, <1>8, <1>9 DEF DeliveryBooks
<1>11. \A j : \A way : \A m \in Due(j, way) : m < n
  BY <1>3 DEF Due
<1> QED
  BY <1>1, <1>3, <1>5, <1>6, <1>7, <1>10, <1>11

LEMMA Unrecorded ==
    ASSUME posted' = posted, done' = done
    PROVE  /\ \A j : \A way : Due(j, way)' = Due(j, way)
           /\ Stay' = Stay
           /\ PostOrderKept' <=> PostOrderKept
           /\ hop' = hop => (DeliveryBooks' <=> DeliveryBooks)
BY DEF Due, Stay, PostOrderKept, InOrder, DeliveryBooks
-----------------------------------------------------------------------------
(***************************************************************************)
(* The steps.                                                              *)
(***************************************************************************)
LEMMA PostSharedDelivers ==
    ASSUME IndInv, DeliveryInv, NEW k \in Kernels, PostShared(k), NEW t \in Threads, t = thread[k],
           NEW n, n = Len(posted) + 1, NEW m, m = Msg(k, n)
    PROVE  DeliveryInv'
<1>1. /\ thread' = thread /\ list_kernel' = list_kernel /\ lqueue' = lqueue /\ pqueue' = pqueue
      /\ Record(k, "shared")
      /\ pending' = [pending EXCEPT ![t] = Append(@, Msg(k, Len(posted')))]
  BY DEF PostShared, glob
<1>2. pending \in [Threads -> Seq(Event)] /\ hop[k] \in Nat
  BY DEF IndInv, HomeType
<1>3. m \in Plain({k}) /\ m \in Own(k) /\ m \in Event
  BY MsgPlain DEF IndInv
<1>4. /\ n \in Nat /\ Len(posted') = n
      /\ Due(k, "shared")' = Due(k, "shared") \cup {n}
      /\ \A j : \A way : j # k \/ way # "shared" => Due(j, way)' = Due(j, way)
      /\ \A j : \A way : \A i \in Due(j, way) : i < n
      /\ \A i \in DOMAIN posted : Stay'[i] = Stay[i]
      /\ Stay'[n] = hop[k] /\ hop' = hop /\ DeliveryBooks'
  BY <1>1, Recorded DEF DeliveryInv
<1>5. /\ pending'[t] = Append(pending[t], m)
      /\ \A u \in Threads \ {t} : pending'[u] = pending[u]
  BY <1>1, <1>2, <1>4
<1>6. \A j : Share(Append(pending[t], m), j) =
             IF m \in Own(j) THEN Append(Share(pending[t], j), m) ELSE Share(pending[t], j)
  <2> DEFINE q == pending[t]
  <2>1. q \in Seq(Event)
    BY <1>2
  <2> HIDE DEF q
  <2>2. \A j : Share(Append(q, m), j) = IF m \in Own(j) THEN Append(Share(q, j), m) ELSE Share(q, j)
    BY <1>3, <2>1, ShareAppend, Zenon
  <2> QED
    BY <2>2, Zenon DEF q
<1>7. \A j \in Kernels \ {k} : m \notin Own(j)
  BY <1>3, OwnApart, Zenon
<1>8. \A j \in Kernels \ {k}, u \in Threads : SameFor(j, u)
  BY <1>1, <1>5, <1>6, <1>7, Zenon DEF SameFor
<1>9. Delivered(k, t)'
  <2>1. PICK here \in BOOLEAN : here <=> k \in list_kernel[t]
    BY Zenon
  <2> DEFINE l == Share(lqueue[t], k)
             p == Share(pqueue[t], k)
             w == Share(pending[t], k)
             L == Due(k, "local")
             S == Due(k, "shared")
             old == Stay
             new == Stay'
             now == hop[k]
  <2>2. Shape(k, here, l, p, w)
    BY <2>1, ShapeOf, Zenon
  <2>3. Flows(k, here, l, p, w, L, S, old, now)
    BY <2>1, DeliveredIs, Zenon DEF DeliveryInv, AllDelivered
  <2>4. S \in SUBSET Nat /\ S \subseteq DOMAIN posted
    BY PostedFacts, Zenon
  <2>5. \A i \in S : i < n /\ new[i] = old[i]
    BY <1>4, <2>4
  <2>6. new[n] = now /\ now \in Int
    BY <1>2, <1>4
  <2> HIDE DEF l, p, w, L, S, old, new, now
  <2>7. Flows(k, here, l, p, Append(w, Msg(k, n)), L, S \cup {n}, new, now)
    BY <1>4, <2>2, <2>3, <2>4, <2>5, <2>6, FlowPost
  <2>8. /\ Share(lqueue'[t], k) = l /\ Share(pqueue'[t], k) = p
        /\ Share(pending'[t], k) = Append(w, Msg(k, n))
        /\ Due(k, "local")' = L /\ Due(k, "shared")' = S \cup {n}
        /\ Stay' = new /\ hop'[k] = now
        /\ (here <=> k \in list_kernel'[t])
    BY <1>1, <1>3, <1>4, <1>5, <1>6, <2>1, Zenon DEF l, p, w, L, S, new, now
  <2> QED
    BY <2>7, <2>8, DeliveredBy, Zenon
<1>10. AllDelivered'
  BY <1>1, <1>4, <1>8, <1>9, DeliveredFrame DEF DeliveryInv
<1> QED
  BY <1>4, <1>10 DEF DeliveryInv

LEMMA PostLocalDelivers ==
    ASSUME IndInv, DeliveryInv, NEW t \in Threads, PostLocal(t), NEW k, k = current[t],
           NEW n, n = Len(posted) + 1, NEW m, m = Msg(k, n)
    PROVE  DeliveryInv'
<1>1. /\ thread' = thread /\ list_kernel' = list_kernel /\ pending' = pending /\ pqueue' = pqueue
      /\ pc[t] = "handling" /\ Record(k, "local")
      /\ lqueue' = [lqueue EXCEPT ![thread[k]] = Append(@, Msg(k, Len(posted')))]
  BY DEF PostLocal, glob
<1>2. k \in Kernels /\ thread[k] = t /\ k \in list_kernel[t]
  BY <1>1, CurrentArrived, Zenon DEF Arrived
<1>3. m \in Plain({k}) /\ m \in Own(k) /\ m \in Event
  BY <1>2, MsgPlain DEF IndInv
<1>4. /\ n \in Nat /\ Len(posted') = n
      /\ Due(k, "local")' = Due(k, "local") \cup {n}
      /\ \A j : \A way : j # k \/ way # "local" => Due(j, way)' = Due(j, way)
      /\ \A j : \A way : \A i \in Due(j, way) : i < n
      /\ \A i \in DOMAIN posted : Stay'[i] = Stay[i]
      /\ hop' = hop /\ DeliveryBooks'
  BY <1>1, <1>2, Recorded DEF DeliveryInv
<1>5. lqueue \in [Threads -> Seq(Event)] /\ lqueue[t] \in Seq(Event)
  BY DEF IndInv, HomeType
<1>6. /\ lqueue'[t] = Append(lqueue[t], m)
      /\ \A u \in Threads \ {t} : lqueue'[u] = lqueue[u]
  BY <1>1, <1>2, <1>4, <1>5
<1>7. \A j : Share(Append(lqueue[t], m), j) =
             IF m \in Own(j) THEN Append(Share(lqueue[t], j), m) ELSE Share(lqueue[t], j)
  BY <1>3, <1>5, ShareAppend, Zenon
<1>8. \A j \in Kernels \ {k} : m \notin Own(j)
  BY <1>2, <1>3, OwnApart, Zenon
<1>9. \A j \in Kernels \ {k}, u \in Threads : SameFor(j, u)
  BY <1>1, <1>6, <1>7, <1>8, Zenon DEF SameFor
<1>10. Delivered(k, t)'
  <2> DEFINE l == Share(lqueue[t], k)
             p == Share(pqueue[t], k)
             w == Share(pending[t], k)
             L == Due(k, "local")
             S == Due(k, "shared")
             old == Stay
             new == Stay'
             now == hop[k]
  <2>1. TRUE \in BOOLEAN /\ (TRUE <=> k \in list_kernel[t])
    BY <1>2
  <2>2. Shape(k, TRUE, l, p, w)
    BY <1>2, <2>1, ShapeOf, Zenon
  <2>3. Flows(k, TRUE, l, p, w, L, S, old, now)
    BY <1>2, <2>1, DeliveredIs, Zenon DEF DeliveryInv, AllDelivered
  <2>4. L \in SUBSET Nat /\ S \subseteq DOMAIN posted
    BY PostedFacts, Zenon
  <2>5. (\A i \in L : i < n) /\ \A i \in S : new[i] = old[i]
    BY <1>4, <2>4
  <2> HIDE DEF l, p, w, L, S, old, new, now
  <2>6. Flows(k, TRUE, l, p, w, L, S, new, now)
    BY <1>2, <2>2, <2>3, <2>5, FlowStays, Zenon
  <2>7. Flows(k, TRUE, Append(l, Msg(k, n)), p, w, L \cup {n}, S, new, now)
    BY <1>2, <1>4, <2>2, <2>4, <2>5, <2>6, FlowLocal
  <2>8. /\ Share(pending'[t], k) = w /\ Share(pqueue'[t], k) = p
        /\ Share(lqueue'[t], k) = Append(l, Msg(k, n))
        /\ Due(k, "local")' = L \cup {n} /\ Due(k, "shared")' = S
        /\ Stay' = new /\ hop'[k] = now
        /\ (TRUE <=> k \in list_kernel'[t])
    <3>1. Due(k, "shared")' = S
      BY <1>4 DEF S
    <3> QED
      BY <1>1, <1>2, <1>3, <1>4, <1>6, <1>7, <3>1, Zenon DEF l, p, w, L, new, now
  <2> QED
    BY <2>1, <2>7, <2>8, DeliveredBy, Zenon
<1>11. AllDelivered'
  BY <1>1, <1>2, <1>4, <1>9, <1>10, DeliveredFrame DEF DeliveryInv
<1> QED
  BY <1>4, <1>11 DEF DeliveryInv

LEMMA MoveToThreadDelivers ==
    ASSUME IndInv, DeliveryInv, NEW t \in Threads, NEW to \in Threads, MoveToThread(t, to),
           NEW k, k = current[t], NEW e, e = Export(k)
    PROVE  DeliveryInv'
<1>1. /\ thread' = thread /\ pc[t] = "handling"
      /\ list_kernel' = list_kernel /\ pending' = pending /\ pqueue' = pqueue
      /\ hop' = hop /\ posted' = posted /\ done' = done
      /\ lqueue' = lqueue \/ lqueue' = [lqueue EXCEPT ![t] = Cons(e, @)]
  BY DEF MoveToThread, glob
<1>2. k \in Kernels /\ thread[k] = t /\ k \in list_kernel[t]
  BY <1>1, CurrentArrived, Zenon DEF Arrived
<1>3. e \in Plain({k}) /\ e \in Own(k) /\ e \in Event /\ e.type # "msg"
  BY <1>2, MsgPlain DEF IndInv, Export
<1>4. /\ \A j : \A way : Due(j, way)' = Due(j, way)
      /\ Stay' = Stay /\ DeliveryBooks'
  BY <1>1, Unrecorded DEF DeliveryInv
<1>5. lqueue \in [Threads -> Seq(Event)] /\ lqueue[t] \in Seq(Event)
  BY DEF IndInv, HomeType
<1>6. CASE lqueue' = lqueue
  <2>1. \A j \in Kernels, u \in Threads : SameFor(j, u)
    BY <1>1, <1>6 DEF SameFor
  <2>2. Delivered(k, t)
    BY <1>2 DEF DeliveryInv, AllDelivered
  <2>3. Delivered(k, t)'
    BY <1>1, <1>2, <1>4, <2>1, <2>2, DeliveredStays
  <2>4. AllDelivered'
    BY <1>1, <1>2, <1>4, <2>1, <2>3, DeliveredFrame DEF DeliveryInv
  <2> QED
    BY <1>4, <2>4 DEF DeliveryInv
<1>7. CASE lqueue' = [lqueue EXCEPT ![t] = Cons(e, @)]
  <2>1. /\ lqueue'[t] = Cons(e, lqueue[t])
        /\ \A u \in Threads \ {t} : lqueue'[u] = lqueue[u]
    BY <1>5, <1>7
  <2>2. \A j : Share(Cons(e, lqueue[t]), j) =
               IF e \in Own(j) THEN <<e>> \o Share(lqueue[t], j) ELSE Share(lqueue[t], j)
    BY <1>3, <1>5, ShareCons, Zenon
  <2>3. \A j \in Kernels \ {k} : e \notin Own(j)
    BY <1>2, <1>3, OwnApart, Zenon
  <2>4. \A j \in Kernels \ {k}, u \in Threads : SameFor(j, u)
    BY <1>1, <2>1, <2>2, <2>3, Zenon DEF SameFor
  <2>5. Delivered(k, t)'
    <3> DEFINE l == Share(lqueue[t], k)
               p == Share(pqueue[t], k)
               w == Share(pending[t], k)
    <3>1. TRUE \in BOOLEAN /\ (TRUE <=> k \in list_kernel[t])
      BY <1>2
    <3>2. Shape(k, TRUE, l, p, w)
      BY <1>2, <3>1, ShapeOf, Zenon
    <3>3. Flows(k, TRUE, l, p, w, Due(k, "local"), Due(k, "shared"), Stay, hop[k])
      BY <1>2, <3>1, DeliveredIs, Zenon DEF DeliveryInv, AllDelivered
    <3> HIDE DEF l, p, w
    <3>4. Flows(k, TRUE, <<e>> \o l, p, w, Due(k, "local"), Due(k, "shared"), Stay, hop[k])
      BY <1>2, <1>3, <3>2, <3>3, FlowOther, Zenon
    <3>5. /\ Share(pending'[t], k) = w /\ Share(pqueue'[t], k) = p
          /\ Share(lqueue'[t], k) = <<e>> \o l
          /\ (TRUE <=> k \in list_kernel'[t]) /\ hop'[k] = hop[k]
      BY <1>1, <1>2, <1>3, <2>1, <2>2, Zenon DEF l, p, w
    <3> QED
      BY <1>4, <3>1, <3>4, <3>5, DeliveredBy, Zenon
  <2>6. AllDelivered'
    BY <1>1, <1>2, <1>4, <2>4, <2>5, DeliveredFrame DEF DeliveryInv
  <2> QED
    BY <1>4, <2>6 DEF DeliveryInv
<1> QED
  BY <1>1, <1>6, <1>7, Zenon

(* The event taken was the first in the share of its kernel.                *)
LEMMA TakenFirst ==
    ASSUME IndInv, NEW t \in Threads, NEW type, Taking(t, type), NEW k, k = NextEvent(t).kernel
    PROVE  \/ /\ Share(lqueue[t], k) = <<NextEvent(t)>> \o Share(RestLocal(t), k)
              /\ Share(pqueue[t], k) = Share(RestQueued(t), k)
           \/ /\ Share(lqueue[t], k) = Share(RestLocal(t), k)
              /\ Share(pqueue[t], k) = <<NextEvent(t)>> \o Share(RestQueued(t), k)
<1>1. /\ lqueue[t] \in Seq(Event) /\ pqueue[t] \in Seq(Event)
      /\ lqueue[t] # <<>> \/ pqueue[t] # <<>>
  BY DEF IndInv, HomeType, Taking
<1>2. CASE lqueue[t] # <<>>
  <2> DEFINE q == lqueue[t]
  <2>1. q \in Seq(Event) /\ q # <<>> /\ NextEvent(t) = Head(q) /\ k = Head(q).kernel
        /\ RestLocal(t) = Tail(q) /\ RestQueued(t) = pqueue[t]
    BY <1>1, <1>2 DEF NextEvent, RestLocal, RestQueued
  <2> HIDE DEF q
  <2>2. Share(q, k) = <<NextEvent(t)>> \o Share(RestLocal(t), k)
    BY <2>1, FirstOfShare, Zenon
  <2> QED
    BY <2>1, <2>2, Zenon DEF q
<1>3. CASE lqueue[t] = <<>>
  <2> DEFINE q == pqueue[t]
  <2>1. q \in Seq(Event) /\ q # <<>> /\ NextEvent(t) = Head(q) /\ k = Head(q).kernel
        /\ RestQueued(t) = Tail(q) /\ RestLocal(t) = lqueue[t]
    BY <1>1, <1>3 DEF NextEvent, RestLocal, RestQueued
  <2> HIDE DEF q
  <2>2. Share(q, k) = <<NextEvent(t)>> \o Share(RestQueued(t), k)
    BY <2>1, FirstOfShare, Zenon
  <2> QED
    BY <2>1, <2>2, Zenon DEF q
<1> QED
  BY <1>2, <1>3

(* Nobody else's share changes when an event is taken.                      *)
LEMMA TakenAlone ==
    ASSUME IndInv, NEW t \in Threads, NEW type, type # "import", Taking(t, type),
           NEW k, k = NextEvent(t).kernel,
           list_kernel' = list_kernel, pending' = pending,
           lqueue' = [lqueue EXCEPT ![t] = RestLocal(t)],
           pqueue' = [pqueue EXCEPT ![t] = RestQueued(t)]
    PROVE  /\ k \in Kernels /\ thread[k] = t /\ k \in list_kernel[t]
           /\ NextEvent(t) \in Plain({k}) /\ NextEvent(t).type = type
           /\ lqueue'[t] = RestLocal(t) /\ pqueue'[t] = RestQueued(t)
           /\ Share(RestLocal(t), k) \in Seq(Plain({k}))
           /\ Share(RestQueued(t), k) \in Seq(Plain({k}))
           /\ Share(pending[t], k) \in Seq(Plain({k}))
           /\ \A j \in Kernels \ {k}, u \in Threads : SameFor(j, u)
<1>1. /\ k \in Kernels /\ thread[k] = t /\ Arrived(k, t)
      /\ \A j \in Kernels \ {k} :
             /\ Share(RestLocal(t), j) = Share(lqueue[t], j)
             /\ Share(RestQueued(t), j) = Share(pqueue[t], j)
      /\ Share(RestLocal(t), k) \in Seq(Plain({k}))
      /\ Share(RestQueued(t), k) \in Seq(Plain({k}))
      /\ Share(pending[t], k) \in Seq(Plain({k}))
  BY TakenPlain
<1>2. NextEvent(t) \in Plain({k})
  BY TakenEvent, ZenonT(40)
<1>3. /\ lqueue'[t] = RestLocal(t) /\ pqueue'[t] = RestQueued(t)
      /\ \A u \in Threads \ {t} : lqueue'[u] = lqueue[u] /\ pqueue'[u] = pqueue[u]
  BY DEF IndInv, HomeType
<1>4. \A j \in Kernels \ {k}, u \in Threads : SameFor(j, u)
  BY <1>1, <1>3, Zenon DEF SameFor
<1>5. NextEvent(t).type = type
  BY DEF Taking
<1> QED
  BY <1>1, <1>2, <1>3, <1>4, <1>5, Zenon DEF Arrived

LEMMA DispatchMsgDelivers ==
    ASSUME IndInv, DeliveryInv, NEW t \in Threads, DispatchMsg(t),
           NEW ev, ev = NextEvent(t), NEW k, k = ev.kernel, NEW n, n = ev.msg
    PROVE  DeliveryInv'
<1>1. /\ thread' = thread /\ list_kernel' = list_kernel
      /\ pending' = pending /\ hop' = hop /\ posted' = posted
      /\ Taking(t, "msg")
      /\ done' = done \cup {n}
      /\ lqueue' = [lqueue EXCEPT ![t] = RestLocal(t)]
      /\ pqueue' = [pqueue EXCEPT ![t] = RestQueued(t)]
  BY DEF DispatchMsg, glob
<1>2. /\ k \in Kernels /\ thread[k] = t /\ k \in list_kernel[t]
      /\ ev \in Plain({k}) /\ ev.type = "msg"
      /\ lqueue'[t] = RestLocal(t) /\ pqueue'[t] = RestQueued(t)
      /\ Share(RestLocal(t), k) \in Seq(Plain({k}))
      /\ Share(RestQueued(t), k) \in Seq(Plain({k}))
      /\ Share(pending[t], k) \in Seq(Plain({k}))
      /\ \A j \in Kernels \ {k}, u \in Threads : SameFor(j, u)
  <2> DEFINE type == "msg"
  <2>1. type # "import" /\ type = "msg" /\ Taking(t, type)
    BY <1>1
  <2> HIDE DEF type
  <2>2. /\ k \in Kernels /\ thread[k] = t /\ k \in list_kernel[t]
        /\ ev \in Plain({k}) /\ ev.type = type
        /\ lqueue'[t] = RestLocal(t) /\ pqueue'[t] = RestQueued(t)
        /\ Share(RestLocal(t), k) \in Seq(Plain({k}))
        /\ Share(RestQueued(t), k) \in Seq(Plain({k}))
        /\ Share(pending[t], k) \in Seq(Plain({k}))
        /\ \A j \in Kernels \ {k}, u \in Threads : SameFor(j, u)
    BY <1>1, <2>1, TakenAlone, Zenon
  <2> QED
    BY <2>1, <2>2, Zenon
<1>3. n \in Nat /\ ev = Msg(k, n)
  BY <1>2, MsgFacts
<1> DEFINE l == Share(RestLocal(t), k)
           p == Share(RestQueued(t), k)
           w == Share(pending[t], k)
           L == Due(k, "local")
           S == Due(k, "shared")
<1>4. TRUE \in BOOLEAN /\ (TRUE <=> k \in list_kernel[t])
  BY <1>2
<1>5. Flows(k, TRUE, Share(lqueue[t], k), Share(pqueue[t], k), w, L, S, Stay, hop[k])
  BY <1>2, <1>4, DeliveredIs, Zenon DEF DeliveryInv, AllDelivered
<1>6. \/ Share(lqueue[t], k) = <<Msg(k, n)>> \o l /\ Share(pqueue[t], k) = p
      \/ Share(lqueue[t], k) = l /\ Share(pqueue[t], k) = <<Msg(k, n)>> \o p
  BY <1>1, <1>3, TakenFirst, Zenon
<1>7. \/ /\ n \in L /\ Flows(k, TRUE, l, p, w, L \ {n}, S, Stay, hop[k])
         /\ \A m \in Nat : m \in L /\ m # n => n < m
      \/ /\ n \in S /\ Flows(k, TRUE, l, p, w, L, S \ {n}, Stay, hop[k])
         /\ \A m \in Nat : m \in S /\ m # n /\ Stay[m] = Stay[n] => n < m
  <2> DEFINE old == Stay
             now == hop[k]
             a == Share(lqueue[t], k)
             b == Share(pqueue[t], k)
  <2>1. k \in Kernels /\ n \in Nat
        /\ l \in Seq(Plain({k})) /\ p \in Seq(Plain({k})) /\ w \in Seq(Plain({k}))
    BY <1>2, <1>3
  <2>2. Flows(k, TRUE, a, b, w, L, S, old, now)
    BY <1>5
  <2>3. \/ a = <<Msg(k, n)>> \o l /\ b = p
        \/ a = l /\ b = <<Msg(k, n)>> \o p
    BY <1>6
  <2> HIDE DEF L, S, old, now, a, b, l, p, w
  <2>4. \/ /\ n \in L /\ Flows(k, TRUE, l, p, w, L \ {n}, S, old, now)
           /\ \A m \in Nat : m \in L /\ m # n => n < m
        \/ /\ n \in S /\ Flows(k, TRUE, l, p, w, L, S \ {n}, old, now)
           /\ \A m \in Nat : m \in S /\ m # n /\ old[m] = old[n] => n < m
    BY ONLY <2>1, <2>2, <2>3, FlowTake, Zenon
  <2> QED
    BY <2>4 DEF old, now
<1>8. /\ n \in DOMAIN posted /\ n \notin done /\ posted[n].kernel = k
      /\ \A j : \A way : Due(j, way)' = Due(j, way) \ {n}
  BY <1>1, <1>7 DEF Due
<1>9. L \cap S = {}
  BY DEF Due
<1>10. Flows(k, TRUE, l, p, w, L \ {n}, S \ {n}, Stay, hop[k])
  <2>1. \/ n \notin S /\ S \ {n} = S
        \/ n \notin L /\ L \ {n} = L
    BY <1>9
  <2>2. n \in L => S \ {n} = S
    BY <1>9
  <2>3. n \in S => L \ {n} = L
    BY <1>9
  <2> HIDE DEF L, S, l, p, w
  <2> QED
    BY <1>7, <2>2, <2>3, Zenon
<1>11. Delivered(k, t)'
  <2>1. /\ Share(lqueue'[t], k) = l /\ Share(pqueue'[t], k) = p /\ Share(pending'[t], k) = w
        /\ Due(k, "local")' = L \ {n} /\ Due(k, "shared")' = S \ {n}
        /\ (TRUE <=> k \in list_kernel'[t]) /\ hop'[k] = hop[k]
    BY <1>1, <1>2, <1>8
  <2>2. Stay' = Stay
    BY <1>1 DEF Stay
  <2> HIDE DEF L, S, l, p, w
  <2>3. Flows(k, TRUE, Share(lqueue'[t], k), Share(pqueue'[t], k), Share(pending'[t], k),
              Due(k, "local")', Due(k, "shared")', Stay', hop'[k])
    BY <1>10, <2>1, <2>2
  <2> QED
    BY <1>4, <2>1, <2>3, DeliveredBy, Zenon
<1>12. \A j \in Kernels \ {k} : Due(j, "local")' = Due(j, "local") /\ Due(j, "shared")' = Due(j, "shared")
  BY <1>8 DEF Due
<1>13. AllDelivered'
  <2>1. \A m \in DOMAIN posted : Stay'[m] = Stay[m]
    BY <1>1 DEF Stay
  <2> QED
    BY <1>1, <1>2, <1>11, <1>12, <2>1, DeliveredFrame DEF DeliveryInv
<1>14. PostOrderKept'
  <2> SUFFICES ASSUME NEW a \in done', NEW b \in 1 .. a - 1, InOrder(b, a)' PROVE b \in done'
    BY DEF PostOrderKept
  <2>1. InOrder(b, a)
    BY <1>1 DEF InOrder
  <2>2. CASE a \in done
    BY <1>1, <2>1, <2>2 DEF DeliveryInv, DeliveryBooks, PostOrderKept
  <2>3. CASE a = n
    <3>1. SUFFICES ASSUME b \notin done PROVE FALSE
      BY <1>1
    <3>2. b \in Nat /\ b \in DOMAIN posted /\ b < n
      <4>1. Len(posted) \in Nat /\ DOMAIN posted = 1 .. Len(posted)
        BY PostedFacts
      <4> QED
        BY <1>8, <2>3, <4>1
    <3>3. /\ posted[b].kernel = k /\ posted[b].lane = posted[n].lane
          /\ posted[n].lane = "local" \/ posted[b].hop = posted[n].hop
      BY <1>8, <2>1, <2>3 DEF InOrder
    <3>4. CASE n \in L
      <4>1. b \in L
        BY <3>1, <3>2, <3>3, <3>4 DEF Due
      <4>2. n \notin S
        BY <1>9, <3>4
      <4>3. n < b
        BY <1>7, <3>2, <4>1, <4>2
      <4> QED
        BY <1>3, <3>2, <4>3
    <3>5. CASE n \in S
      <4>1. b \in S /\ Stay[b] = Stay[n]
        BY <1>8, <3>1, <3>2, <3>3, <3>5 DEF Due, Stay
      <4>2. n \notin L
        BY <1>9, <3>5
      <4>3. n < b
        BY <1>7, <3>2, <4>1, <4>2
      <4> QED
        BY <1>3, <3>2, <4>3
    <3> QED
      BY <1>7, <3>4, <3>5
  <2> QED
    BY <1>1, <2>2, <2>3
<1>15. DeliveryBooks'
  BY <1>1, <1>8, <1>14 DEF DeliveryInv, DeliveryBooks
<1> QED
  BY <1>13, <1>15 DEF DeliveryInv

(* A request to move is taken: it was the first of what is on the way.      *)
LEMMA FlowDrop ==
    ASSUME NEW k \in Kernels, NEW l, NEW p, NEW w, Shape(k, TRUE, l, p, w),
           NEW e \in Plain({k}), e.type # "msg", NEW a, NEW b, NEW L, NEW S, NEW stay, NEW now,
           Flows(k, TRUE, a, b, w, L, S, stay, now),
           \/ a = <<e>> \o l /\ b = p
           \/ a = l /\ b = <<e>> \o p
    PROVE  Flows(k, TRUE, l, p, w, L, S, stay, now)
<1>1. CASE a = <<e>> \o l /\ b = p
  BY <1>1, FlowOther, Zenon
<1>2. CASE a = l /\ b = <<e>> \o p
  BY <1>2, FlowOther, Zenon
<1> QED
  BY <1>1, <1>2, Zenon

LEMMA ExportDropped ==
    ASSUME IndInv, DeliveryInv, NEW t \in Threads, Taking(t, "export"),
           NEW ev, ev = NextEvent(t), NEW k, k = ev.kernel
    PROVE  /\ k \in Kernels /\ thread[k] = t /\ k \in list_kernel[t]
           /\ Shape(k, TRUE, Share(RestLocal(t), k), Share(RestQueued(t), k), Share(pending[t], k))
           /\ Flows(k, TRUE, Share(RestLocal(t), k), Share(RestQueued(t), k), Share(pending[t], k),
                    Due(k, "local"), Due(k, "shared"), Stay, hop[k])
<1> DEFINE type == "export"
           l == Share(RestLocal(t), k)
           p == Share(RestQueued(t), k)
           w == Share(pending[t], k)
           a == Share(lqueue[t], k)
           b == Share(pqueue[t], k)
           L == Due(k, "local")
           S == Due(k, "shared")
           old == Stay
           now == hop[k]
<1>1. type # "import" /\ type # "msg" /\ Taking(t, type)
  OBVIOUS
<1> HIDE DEF type
<1>2. /\ k \in Kernels /\ thread[k] = t /\ Arrived(k, t)
      /\ l \in Seq(Plain({k})) /\ p \in Seq(Plain({k})) /\ w \in Seq(Plain({k}))
  BY <1>1, TakenPlain
<1>3. ev \in Plain({k})
  BY <1>1, TakenEvent, ZenonT(40)
<1>4. ev.type # "msg"
  BY <1>1 DEF Taking
<1>5. \/ a = <<ev>> \o l /\ b = p
      \/ a = l /\ b = <<ev>> \o p
  BY <1>1, TakenFirst, Zenon
<1>6. TRUE \in BOOLEAN /\ (TRUE <=> k \in list_kernel[t])
  BY <1>2 DEF Arrived
<1>7. Flows(k, TRUE, a, b, w, L, S, old, now)
  BY <1>2, <1>6, DeliveredIs, Zenon DEF DeliveryInv, AllDelivered
<1>8. Shape(k, TRUE, l, p, w)
  BY <1>2, Zenon DEF Shape
<1> HIDE DEF a, b, l, p, w, L, S, old, now
<1>9. Flows(k, TRUE, l, p, w, L, S, old, now)
  BY ONLY <1>2, <1>3, <1>4, <1>5, <1>7, <1>8, FlowDrop, Zenon
<1> QED
  BY <1>2, <1>6, <1>8, <1>9 DEF l, p, w, L, S, old, now

(* A kernel that leaves takes along what is due to it; all of it is of      *)
(* earlier stays than those to come.                                        *)
LEMMA ExportDelivers ==
    ASSUME IndInv, DeliveryInv, NEW t \in Threads, NEW to \in Threads \ {t}, Taking(t, "export"),
           NEW ev, ev = NextEvent(t), NEW k, k = ev.kernel, NEW c, c = TakenAlong(t, k),
           thread' = [thread EXCEPT ![k] = to],
           hop' = [hop EXCEPT ![k] = @ + 1],
           list_kernel' = [list_kernel EXCEPT ![t] = list_kernel[t] \ {k}],
           lqueue' = [lqueue EXCEPT ![t] = NotOf(RestLocal(t), k)],
           pqueue' = [pqueue EXCEPT ![t] = NotOf(RestQueued(t), k)],
           pending' = [pending EXCEPT ![t] = NotOf(@, k), ![to] = Cons(c, @)],
           posted' = posted, done' = done
    PROVE  DeliveryInv'
<1> DEFINE l == Share(RestLocal(t), k)
           p == Share(RestQueued(t), k)
           w == Share(pending[t], k)
           L == Due(k, "local")
           S == Due(k, "shared")
           old == Stay
           now == hop[k]
           later == now + 1
<1>1. /\ k \in Kernels /\ thread[k] = t
      /\ Shape(k, TRUE, l, p, w) /\ Flows(k, TRUE, l, p, w, L, S, old, now)
  BY ExportDropped, Zenon
<1>2. c = Import(k, l, p \o w)
  <2> DEFINE lo == RestLocal(t)
             sh == RestQueued(t)
             pe == pending[t]
  <2>1. lo \in Seq(Event) /\ sh \in Seq(Event)
    BY TakenEvent, ZenonT(40)
  <2>2. pe \in Seq(Event)
    BY DEF IndInv, HomeType
  <2>3. c = Import(k, Of(lo, k), Of(sh, k) \o Of(pe, k))
    BY DEF TakenAlong
  <2> HIDE DEF lo, sh, pe
  <2>4. Of(lo, k) = Share(lo, k) /\ Of(sh, k) = Share(sh, k) /\ Of(pe, k) = Share(pe, k)
    BY <1>1, <2>1, <2>2, OfShare
  <2> QED
    BY <2>3, <2>4 DEF lo, sh, pe
<1>3. /\ thread \in [Kernels -> Threads] /\ hop \in [Kernels -> Nat] /\ DeliveryBooks
  BY DEF IndInv, HomeType, DeliveryInv
<1>4. /\ thread'[k] = to /\ hop'[k] = later /\ now \in Nat
      /\ \A j \in Kernels \ {k} : thread'[j] = thread[j] /\ hop'[j] = hop[j]
  BY <1>1, <1>3
<1>5. /\ Due(k, "local")' = L /\ Due(k, "shared")' = S /\ Stay' = old
      /\ \A j : \A way : Due(j, way)' = Due(j, way)
      /\ PostOrderKept'
  BY <1>3, Unrecorded DEF DeliveryBooks
<1>6. \A n \in S : old[n] < later
  <2>1. \A n \in S : n \in DOMAIN posted /\ posted[n].kernel = k
    BY DEF Due
  <2>2. \A n \in S : old[n] = posted[n].hop /\ posted[n].hop <= now /\ posted[n].hop \in Nat
    BY <1>3, <2>1, PostedFacts DEF DeliveryBooks, Stay
  <2> QED
    BY <1>4, <2>2
<1>7. Flows(k, FALSE, <<>>, <<>>, <<c>> \o <<>>, L, S, old, later)
  <2> HIDE DEF l, p, w, L, S, old, now, later
  <2>1. Flows(k, FALSE, <<>>, <<>>, <<Import(k, l, p \o w)>> \o <<>>, L, S, old, later)
    BY ONLY <1>1, <1>6, FlowExport, Zenon
  <2> QED
    BY <1>2, <2>1
<1>8. OthersSame(k, t, to)
  BY ExportMoves, ZenonT(40)
<1>9. k \notin list_kernel'[to]
  BY ExportMoves, ZenonT(40)
<1>10. Share(lqueue'[to], k) = <<>> /\ Share(pqueue'[to], k) = <<>>
  BY ExportMoves, ZenonT(40)
<1>11. Share(pending'[to], k) = <<c>> \o <<>>
  <2>1. Only(c, pending'[to], k)
    BY ExportMoves, ZenonT(40)
  <2> QED
    BY <2>1 DEF Only
<1>12. Delivered(k, to)'
  <2>1. FALSE \in BOOLEAN /\ (FALSE <=> k \in list_kernel'[to])
    BY <1>9
  <2>2. Flows(k, FALSE, Share(lqueue'[to], k), Share(pqueue'[to], k), Share(pending'[to], k),
              Due(k, "local")', Due(k, "shared")', Stay', hop'[k])
    BY <1>4, <1>5, <1>7, <1>10, <1>11
  <2> QED
    BY ONLY <2>1, <2>2, DeliveredBy, Zenon
<1>13. AllDelivered'
  <2>1. \A j \in Kernels \ {k} :
           /\ thread'[j] = thread[j] /\ hop'[j] = hop[j]
           /\ \A u \in Threads : thread[j] = u => SameFor(j, u)
           /\ Due(j, "local")' = Due(j, "local") /\ Due(j, "shared")' = Due(j, "shared")
    BY <1>4, <1>5, <1>8 DEF OthersSame
  <2>2. \A m \in DOMAIN posted : Stay'[m] = Stay[m]
    BY <1>5
  <2> QED
    BY <1>1, <1>4, <1>12, <2>1, <2>2, DeliveredFrame DEF DeliveryInv
<1>14. DeliveryBooks'
  <2>1. ASSUME NEW n \in DOMAIN posted' PROVE posted'[n].hop <= hop'[posted'[n].kernel]
    <3> DEFINE j == posted[n].kernel
               h == posted[n].hop
    <3>1. j \in Kernels /\ h \in Nat /\ h <= hop[j]
      BY <1>3, <2>1, PostedFacts DEF DeliveryBooks
    <3>2. hop'[j] = hop[j] \/ hop'[j] = hop[j] + 1
      BY <1>4, <3>1
    <3>3. hop[j] \in Nat
      BY <1>3, <3>1
    <3> HIDE DEF j, h
    <3>4. h <= hop'[j]
      BY <3>1, <3>2, <3>3
    <3> QED
      BY <3>4 DEF j, h
  <2> QED
    BY <1>3, <1>5, <2>1 DEF DeliveryBooks
<1> QED
  BY <1>13, <1>14 DEF DeliveryInv

LEMMA DispatchExportDelivers ==
    ASSUME IndInv, DeliveryInv, NEW t \in Threads, DispatchExport(t),
           NEW ev, ev = NextEvent(t), NEW k, k = ev.kernel, NEW to, to = target[k]
    PROVE  DeliveryInv'
<1>1. Taking(t, "export") /\ posted' = posted /\ done' = done
  BY DEF DispatchExport
<1>2. CASE to \in Threads \ {t} /\ tid_map[to] = "in"
  <2> DEFINE c == TakenAlong(t, k)
  <2>1. /\ thread' = [thread EXCEPT ![k] = to]
        /\ hop' = [hop EXCEPT ![k] = @ + 1]
        /\ list_kernel' = [list_kernel EXCEPT ![t] = list_kernel[t] \ {k}]
        /\ lqueue' = [lqueue EXCEPT ![t] = NotOf(RestLocal(t), k)]
        /\ pqueue' = [pqueue EXCEPT ![t] = NotOf(RestQueued(t), k)]
        /\ pending' = [pending EXCEPT ![t] = NotOf(@, k), ![to] = Cons(c, @)]
    BY <1>2 DEF DispatchExport, KernelsLeft, Found
  <2>2. c = TakenAlong(t, k)
    OBVIOUS
  <2> HIDE DEF c
  <2> QED
    BY <1>1, <1>2, <2>1, <2>2, ExportDelivers
<1>3. CASE ~(to \in Threads \ {t} /\ tid_map[to] = "in")
  <2> DEFINE type == "export"
  <2>1. /\ thread' = thread /\ hop' = hop /\ list_kernel' = list_kernel /\ pending' = pending
        /\ lqueue' = [lqueue EXCEPT ![t] = RestLocal(t)]
        /\ pqueue' = [pqueue EXCEPT ![t] = RestQueued(t)]
    BY <1>3 DEF DispatchExport, Found
  <2>2. type # "import" /\ Taking(t, type)
    BY <1>1
  <2> HIDE DEF type
  <2>3. /\ k \in Kernels /\ thread[k] = t /\ k \in list_kernel[t]
        /\ lqueue'[t] = RestLocal(t) /\ pqueue'[t] = RestQueued(t)
        /\ \A j \in Kernels \ {k}, u \in Threads : SameFor(j, u)
    BY <2>1, <2>2, TakenAlone, ZenonT(40)
  <2>4. Flows(k, TRUE, Share(RestLocal(t), k), Share(RestQueued(t), k), Share(pending[t], k),
              Due(k, "local"), Due(k, "shared"), Stay, hop[k])
    BY <1>1, ExportDropped, Zenon
  <2>5. /\ \A j : \A way : Due(j, way)' = Due(j, way)
        /\ Stay' = Stay /\ DeliveryBooks'
    BY <1>1, <2>1, Unrecorded DEF DeliveryInv
  <2>6. Delivered(k, t)'
    <3>1. TRUE \in BOOLEAN /\ (TRUE <=> k \in list_kernel'[t])
      BY <2>1, <2>3
    <3>2. Flows(k, TRUE, Share(lqueue'[t], k), Share(pqueue'[t], k), Share(pending'[t], k),
                Due(k, "local")', Due(k, "shared")', Stay', hop'[k])
      BY <2>1, <2>3, <2>4, <2>5
    <3> QED
      BY ONLY <3>1, <3>2, DeliveredBy, Zenon
  <2>7. AllDelivered'
    BY <2>1, <2>3, <2>5, <2>6, DeliveredFrame DEF DeliveryInv
  <2> QED
    BY <2>5, <2>7 DEF DeliveryInv
<1> QED
  BY <1>2, <1>3

LEMMA DispatchImportDelivers ==
    ASSUME IndInv, DeliveryInv, NEW t \in Threads, DispatchImport(t),
           NEW k, k = NextEvent(t).kernel, NEW lq, lq = NextEvent(t).lqueue,
           NEW pq, pq = NextEvent(t).pqueue
    PROVE  DeliveryInv'
<1> DEFINE c == NextEvent(t)
           p == Share(RestQueued(t), k)
           w == Share(pending[t], k)
           L == Due(k, "local")
           S == Due(k, "shared")
           old == Stay
           now == hop[k]
<1>1. /\ thread' = thread /\ pending' = pending /\ hop' = hop /\ posted' = posted /\ done' = done
      /\ Taking(t, "import")
  BY DEF DispatchImport, glob, ghost
<1>2. /\ \A j : \A way : Due(j, way)' = Due(j, way)
      /\ Stay' = Stay /\ DeliveryBooks'
  BY <1>1, Unrecorded DEF DeliveryInv
<1>3. /\ k \in Kernels /\ thread[k] = t /\ Expected(k, t) /\ c \in Carriers(k)
      /\ Share(RestLocal(t), k) = <<>> /\ p \in Seq(Plain({k}))
  BY <1>1, TakenImport, ZenonT(40)
<1>4. Share(lqueue[t], k) = <<>> /\ Share(pqueue[t], k) = <<c>> \o p
  <2> DEFINE type == "import"
             a == Share(lqueue[t], k)
             b == Share(pqueue[t], k)
             l == Share(RestLocal(t), k)
  <2>1. Taking(t, type)
    BY <1>1
  <2> HIDE DEF type
  <2>2. \/ a = <<c>> \o l /\ b = p
        \/ a = l /\ b = <<c>> \o p
    BY <2>1, TakenFirst, Zenon
  <2>3. a = <<>> /\ l = <<>>
    BY <1>3 DEF Expected
  <2>4. <<c>> \o l # <<>>
    <3>1. <<c>> \o <<>> # <<>>
      OBVIOUS
    <3> QED
      BY <2>3, <3>1
  <2> HIDE DEF a, b, c, l, p
  <2> QED
    BY <2>2, <2>3, <2>4 DEF a, b
<1>5. Flows(k, FALSE, <<>>, <<c>> \o p, w, L, S, old, now)
  <2>1. FALSE \in BOOLEAN /\ (FALSE <=> k \in list_kernel[t])
    BY <1>3 DEF Expected
  <2>2. Delivered(k, t)
    BY <1>3, Zenon DEF DeliveryInv, AllDelivered
  <2>3. Flows(k, FALSE, Share(lqueue[t], k), Share(pqueue[t], k), w, L, S, old, now)
    BY <2>1, <2>2, DeliveredIs, Zenon
  <2> QED
    BY <1>4, <2>3
<1>6. Flows(k, TRUE, c.lqueue, p \o c.pqueue, w, L, S, old, now)
  <2> HIDE DEF c, p, w, L, S, old, now
  <2> QED
    BY ONLY <1>3, <1>5, FlowImport, Zenon
<1>7. k \in list_kernel'[t]
  BY ImportMoves, ZenonT(40)
<1>8. SameElsewhere(k, t)
  BY ImportMoves, ZenonT(40)
<1>9. Joined(t, k, lq, pq)
  BY ImportMoves, ZenonT(40)
<1>10. Share(lqueue'[t], k) = lq /\ Share(pqueue'[t], k) = Share(RestQueued(t), k) \o pq
  BY <1>9 DEF Joined
<1>11. Delivered(k, t)'
  <2>1. TRUE \in BOOLEAN /\ (TRUE <=> k \in list_kernel'[t])
    BY <1>7
  <2>2. Flows(k, TRUE, Share(lqueue'[t], k), Share(pqueue'[t], k), Share(pending'[t], k),
              Due(k, "local")', Due(k, "shared")', Stay', hop'[k])
    BY <1>1, <1>2, <1>6, <1>10
  <2> QED
    BY ONLY <2>1, <2>2, DeliveredBy, Zenon
<1>12. AllDelivered'
  <2>1. \A j \in Kernels \ {k}, u \in Threads : SameFor(j, u)
    BY <1>8 DEF SameElsewhere
  <2> HIDE DEF c, p, w, L, S, old, now
  <2> QED
    BY <1>1, <1>2, <1>3, <1>11, <2>1, DeliveredFrame DEF DeliveryInv
<1> QED
  BY <1>2, <1>12 DEF DeliveryInv

LEMMA CollectDelivers ==
    ASSUME IndInv, DeliveryInv, NEW t \in Threads, CollectPending(t)
    PROVE  DeliveryInv'
<1>1. /\ thread' = thread /\ list_kernel' = list_kernel /\ lqueue' = lqueue
      /\ hop' = hop /\ posted' = posted /\ done' = done
      /\ pqueue' = [pqueue EXCEPT ![t] = pending[t]]
      /\ pending' = [pending EXCEPT ![t] = <<>>]
      /\ MayCollect(t)
  BY DEF CollectPending, glob, ghost
<1>2. pqueue[t] = <<>>
  BY <1>1 DEF IndInv, Phases, MayCollect
<1>3. /\ pqueue'[t] = pending[t] /\ pending'[t] = <<>>
      /\ \A u \in Threads \ {t} : pqueue'[u] = pqueue[u] /\ pending'[u] = pending[u]
  BY <1>1 DEF IndInv, HomeType
<1>4. /\ \A j : \A way : Due(j, way)' = Due(j, way)
      /\ Stay' = Stay /\ DeliveryBooks'
  BY <1>1, Unrecorded DEF DeliveryInv
<1>5. ASSUME NEW k \in Kernels, NEW u \in Threads, thread[k] = u PROVE Delivered(k, u)'
  <2>1. Delivered(k, u)
    BY <1>5 DEF DeliveryInv, AllDelivered
  <2>2. CASE u # t
    <3>1. SameFor(k, u)
      BY <1>1, <1>3, <2>2 DEF SameFor
    <3> QED
      BY <1>1, <1>4, <1>5, <2>1, <3>1, DeliveredStays
  <2>3. CASE u = t
    <3> DEFINE l == Share(lqueue[t], k)
               w == Share(pending[t], k)
               L == Due(k, "local")
               S == Due(k, "shared")
               old == Stay
               now == hop[k]
    <3>1. PICK here \in BOOLEAN : here <=> k \in list_kernel[t]
      BY Zenon
    <3>2. Share(pqueue[t], k) = <<>> /\ Share(pending'[t], k) = <<>>
      BY <1>2, <1>3, KeepEmpty DEF Share
    <3>3. Shape(k, here, l, Share(pqueue[t], k), w)
      BY <1>5, <2>3, <3>1, ShapeOf, Zenon
    <3>4. Flows(k, here, l, Share(pqueue[t], k), w, L, S, old, now)
      BY <2>1, <2>3, <3>1, DeliveredIs, Zenon
    <3>5. Shape(k, here, l, <<>>, w) /\ Flows(k, here, l, <<>>, w, L, S, old, now)
      BY <3>2, <3>3, <3>4
    <3>6. Flows(k, here, l, w, <<>>, L, S, old, now)
      <4> HIDE DEF l, w, L, S, old, now
      <4>1. k \in Kernels
        OBVIOUS
      <4> QED
        BY ONLY here \in BOOLEAN, <3>5, <4>1, FlowCollect, Zenon
    <3>7. here <=> k \in list_kernel'[t]
      BY <1>1, <3>1
    <3>8. Flows(k, here, Share(lqueue'[t], k), Share(pqueue'[t], k), Share(pending'[t], k),
                Due(k, "local")', Due(k, "shared")', Stay', hop'[k])
      BY <1>1, <1>3, <1>4, <3>2, <3>6
    <3> QED
      BY <2>3, <3>7, <3>8, DeliveredBy, Zenon
  <2> QED
    BY <2>2, <2>3
<1>6. AllDelivered'
  BY <1>1, <1>5, Zenon DEF AllDelivered
<1> QED
  BY <1>4, <1>6 DEF DeliveryInv

(* A step that neither moves an event nor a kernel, nor posts.              *)
LEMMA QuietDelivers ==
    ASSUME DeliveryInv, thread' = thread, list_kernel' = list_kernel,
           lqueue' = lqueue, pqueue' = pqueue, pending' = pending,
           hop' = hop, posted' = posted, done' = done
    PROVE  DeliveryInv'
<1>1. /\ \A j : \A way : Due(j, way)' = Due(j, way)
      /\ Stay' = Stay /\ DeliveryBooks'
  BY Unrecorded DEF DeliveryInv
<1>2. ASSUME NEW k \in Kernels, NEW t \in Threads, thread[k] = t PROVE Delivered(k, t)'
  <2>1. PICK here \in BOOLEAN : here <=> k \in list_kernel[t]
    BY Zenon
  <2>2. Delivered(k, t)
    BY <1>2 DEF DeliveryInv, AllDelivered
  <2>3. Flows(k, here, Share(lqueue[t], k), Share(pqueue[t], k), Share(pending[t], k),
              Due(k, "local"), Due(k, "shared"), Stay, hop[k])
    BY <2>1, <2>2, DeliveredIs, Zenon
  <2>4. Flows(k, here, Share(lqueue'[t], k), Share(pqueue'[t], k), Share(pending'[t], k),
              Due(k, "local")', Due(k, "shared")', Stay', hop'[k])
    BY <1>1, <2>3
  <2>5. here <=> k \in list_kernel'[t]
    BY <2>1
  <2> QED
    BY <2>4, <2>5, DeliveredBy, Zenon
<1>3. AllDelivered'
  BY <1>2, Zenon DEF AllDelivered
<1> QED
  BY <1>1, <1>3 DEF DeliveryInv
-----------------------------------------------------------------------------
(***************************************************************************)
(* The invariants.                                                         *)
(***************************************************************************)
LEMMA InitDelivers == MigrationAssumption /\ Init => DeliveryInv
<1> SUFFICES ASSUME MigrationAssumption, Init PROVE DeliveryInv
  OBVIOUS
<1>1. /\ posted = <<>> /\ done = {} /\ DOMAIN posted = {}
      /\ \A k \in Kernels : thread[k] = Main /\ k \in list_kernel[Main]
      /\ lqueue[Main] = <<>> /\ pqueue[Main] = <<>> /\ pending[Main] = <<>>
  BY DEF Init, MigrationAssumption, Threads
<1>2. \A k, lane : Due(k, lane) = {}
  BY <1>1 DEF Due
<1>3. ASSUME NEW k \in Kernels, NEW t \in Threads, thread[k] = t PROVE Delivered(k, t)
  <2>1. t = Main /\ k \in list_kernel[t]
    BY <1>1, <1>3
  <2>2. Share(lqueue[t], k) = <<>> /\ Share(pqueue[t], k) = <<>> /\ Share(pending[t], k) = <<>>
    BY <1>1, <2>1, KeepEmpty DEF Share
  <2>3. ASSUME NEW stay PROVE InLine(<<>>, k, {}, stay)
    <3>1. <<>> \in Seq(Plain({k})) /\ ToSet(<<>>) = {} /\ \A x, y : ~ Before(<<>>, x, y)
      BY EmptySeq, SetEmpty
    <3> QED
      BY <3>1 DEF InLine
  <2>4. <<>> \o <<>> = <<>>
    OBVIOUS
  <2>5. Flows(k, TRUE, <<>>, <<>>, <<>>, {}, {}, Stay, hop[k])
    BY <2>3, <2>4, Zenon DEF Flows, LocalFlow, SharedFlow
  <2>6. (k \in list_kernel[t]) = TRUE
    BY <2>1
  <2> QED
    BY <1>2, <2>2, <2>5, <2>6 DEF Delivered
<1>4. DeliveryBooks
  BY <1>1 DEF DeliveryBooks, PostOrderKept
<1> QED
  BY <1>3, <1>4, Zenon DEF DeliveryInv, AllDelivered

LEMMA NextDelivers == IndInv /\ DeliveryInv /\ [Next]_vars => DeliveryInv'
<1> SUFFICES ASSUME IndInv, DeliveryInv, [Next]_vars PROVE DeliveryInv'
  OBVIOUS
<1>1. ASSUME NEW k \in Kernels, PostShared(k) PROVE DeliveryInv'
  <2>1. PICK t \in Threads : t = thread[k]
    BY DEF IndInv, HomeType
  <2> QED
    BY <1>1, <2>1, PostSharedDelivers, Zenon
<1>2. ASSUME NEW t \in Threads, Handler(t) PROVE DeliveryInv'
  <2>1. CASE PostLocal(t)
    BY <2>1, PostLocalDelivers, Zenon
  <2>2. CASE \E to \in Threads : MoveToThread(t, to)
    BY <2>2, MoveToThreadDelivers, Zenon
  <2> QED
    BY <1>2, <2>1, <2>2, Zenon DEF Handler
<1> DEFINE Quiet == /\ thread' = thread /\ list_kernel' = list_kernel /\ lqueue' = lqueue
                    /\ pqueue' = pqueue /\ pending' = pending
                    /\ hop' = hop /\ posted' = posted /\ done' = done
<1>3. Quiet => DeliveryInv'
  BY QuietDelivers, Zenon
<1>4. ASSUME NEW t \in Threads, Loop(t) PROVE DeliveryInv'
  <2> HIDE DEF Quiet
  <2>1. CASE DispatchMsg(t)
    BY <2>1, DispatchMsgDelivers, Zenon
  <2>2. CASE DispatchExport(t)
    BY <2>2, DispatchExportDelivers, Zenon
  <2>3. CASE DispatchImport(t)
    BY <2>3, DispatchImportDelivers, Zenon
  <2>4. CASE CollectPending(t)
    BY <2>4, CollectDelivers, Zenon
  <2>5. HandlerReturn(t) => Quiet
    BY DEF HandlerReturn, Quiet, glob, queues, ghost
  <2>6. Idle(t) => Quiet
    BY DEF Idle, Quiet, glob, queues, ghost
  <2>7. QuitCheck(t) => Quiet
    BY DEF QuitCheck, Quiet, queues, ghost
  <2>8. \A quit \in Answers : QuitAnswer(t, quit) => Quiet
    BY DEF QuitAnswer, Quiet, queues, ghost
  <2> QED
    BY <1>3, <1>4, <2>1, <2>2, <2>3, <2>4, <2>5, <2>6, <2>7, <2>8, Zenon DEF Loop
<1>5. RunAgain \/ UNCHANGED vars => Quiet
  BY DEF RunAgain, vars, glob, queues, ghost
<1> HIDE DEF Quiet
<1> QED
  BY <1>1, <1>2, <1>3, <1>4, <1>5, Zenon DEF Next

THEOREM DeliveryInductive == Spec => [](IndInv /\ DeliveryInv)
<1>1. MigrationAssumption
  BY MigrationAssumption
<1> QED
  BY <1>1, InitDelivers, NextDelivers, HomeInductive, PTL DEF Spec

(* PostOrderKept: what a kernel is sent is dispatched in the order in which *)
(* it was posted, within the local lane and, while the kernel stays on one  *)
(* thread, within the shared one; neither post_event, nor the export and    *)
(* the import of a kernel, nor the collecting of what is pending reorders.  *)
THEOREM AlwaysInPostOrder == Spec => []PostOrderKept
<1>1. DeliveryInv => PostOrderKept
  BY DEF DeliveryInv, DeliveryBooks
<1> QED
  BY <1>1, DeliveryInductive, PTL
-----------------------------------------------------------------------------
(***************************************************************************)
(* Types, and how often a kernel can have moved.                           *)
(***************************************************************************)
LEMMA InitCounts == MigrationAssumption /\ Init => CountInv
<1> SUFFICES ASSUME MigrationAssumption, Init PROVE CountInv
  OBVIOUS
<1>1. /\ tid_map \in [Threads -> {"in", "disabled", "out"}] /\ quit_enabled \in [Threads -> BOOLEAN]
      /\ moves = 0 /\ MaxMoves \in Nat
  BY DEF Init, MigrationAssumption
<1>2. \A k \in Kernels : hop[k] = 0 /\ target[k] = None
  BY DEF Init
<1> QED
  BY <1>1, <1>2 DEF CountInv, Requested

LEMMA NextCounts == MigrationAssumption /\ IndInv /\ CountInv /\ [Next]_vars => CountInv'
<1> SUFFICES ASSUME MigrationAssumption, IndInv, CountInv, [Next]_vars PROVE CountInv'
  OBVIOUS
<1>1. /\ hop \in [Kernels -> Nat] /\ target \in [Kernels -> Threads \cup {None}]
      /\ tid_map \in [Threads -> {"in", "disabled", "out"}] /\ quit_enabled \in [Threads -> BOOLEAN]
      /\ moves \in 0 .. MaxMoves /\ MaxMoves \in Nat /\ moves \in Nat
      /\ None \notin Threads /\ Answers \subseteq BOOLEAN
  BY DEF IndInv, HomeType, CountInv, MigrationAssumption
<1> DEFINE Maps == tid_map' = tid_map /\ quit_enabled' = quit_enabled
           Books == moves' = moves /\ hop' = hop /\ target' = target
<1>2. ASSUME tid_map' \in [Threads -> {"in", "disabled", "out"}],
             quit_enabled' \in [Threads -> BOOLEAN], Books
      PROVE  CountInv'
  BY <1>2 DEF CountInv, Requested
<1>3. Maps /\ Books => CountInv'
  BY <1>1, <1>2
<1>4. ASSUME NEW t \in Threads, Handler(t) PROVE CountInv'
  <2>1. CASE PostLocal(t)
    BY <1>3, <2>1 DEF PostLocal, Record, glob
  <2>2. CASE \E to \in Threads : MoveToThread(t, to)
    <3>1. PICK to \in Threads : MoveToThread(t, to)
      BY <2>2
    <3>2. /\ tid_map' = tid_map /\ quit_enabled' = quit_enabled /\ hop' = hop
          /\ moves < MaxMoves /\ moves' = moves + 1
          /\ \A k \in Kernels \ {current[t]} : target'[k] = target[k]
      BY <1>1, <3>1 DEF MoveToThread, glob
    <3>3. ASSUME NEW k \in Kernels PROVE hop'[k] + Requested(k)' <= moves'
      <4>1. hop[k] + Requested(k) <= moves /\ hop[k] \in Nat
        BY <1>1 DEF CountInv
      <4>2. Requested(k) \in {0, 1} /\ Requested(k)' \in {0, 1}
        BY DEF Requested
      <4> QED
        BY <1>1, <3>2, <4>1, <4>2
    <3> QED
      BY <1>1, <3>2, <3>3 DEF CountInv
  <2> QED
    BY <1>4, <2>1, <2>2, Zenon DEF Handler
<1>5. ASSUME NEW k \in Kernels, PostShared(k) PROVE CountInv'
  BY <1>3, <1>5 DEF PostShared, Record, glob
<1>6. ASSUME NEW t \in Threads, DispatchExport(t) PROVE CountInv'
  <2> DEFINE j == NextEvent(t).kernel
             to == target[j]
  <2>1. j \in Kernels
    BY <1>6, TakenEvent, ZenonT(40) DEF DispatchExport
  <2>2. /\ tid_map' = tid_map /\ quit_enabled' = quit_enabled /\ moves' = moves
        /\ target' = [target EXCEPT ![j] = None]
        /\ \/ to \in Threads /\ hop' = [hop EXCEPT ![j] = @ + 1]
           \/ hop' = hop
    BY <1>6 DEF DispatchExport
  <2>3. ASSUME NEW k \in Kernels PROVE hop'[k] + Requested(k)' <= moves
    <3>1. hop[k] + Requested(k) <= moves /\ hop[k] \in Nat
      BY <1>1 DEF CountInv
    <3>2. Requested(k) \in {0, 1}
      BY DEF Requested
    <3>3. CASE k = j
      <4>1. target'[k] = None
        BY <1>1, <2>1, <2>2, <3>3
      <4>2. Requested(k)' = 0
        BY <4>1 DEF Requested
      <4>3. hop'[k] = hop[k] \/ (hop'[k] = hop[k] + 1 /\ Requested(k) = 1)
        BY <1>1, <2>1, <2>2, <3>3 DEF Requested
      <4> QED
        BY <1>1, <3>1, <3>2, <4>2, <4>3
    <3>4. CASE k # j
      <4>1. target'[k] = target[k] /\ hop'[k] = hop[k]
        BY <1>1, <2>1, <2>2, <3>4
      <4> QED
        BY <3>1, <4>1 DEF Requested
    <3> QED
      BY <3>3, <3>4
  <2> HIDE DEF j, to
  <2> QED
    BY <1>1, <2>2, <2>3 DEF CountInv
<1>7. ASSUME NEW t \in Threads, Loop(t) PROVE CountInv'
  <2>1. DispatchMsg(t) \/ DispatchImport(t) \/ HandlerReturn(t) \/ CollectPending(t) => Maps /\ Books
    BY DEF DispatchMsg, DispatchImport, HandlerReturn, CollectPending, glob, queues, ghost
  <2>2. ASSUME Idle(t) PROVE CountInv'
    <3>1. /\ quit_enabled' = [quit_enabled EXCEPT ![t] = @ \/ list_kernel[t] # {}]
          /\ tid_map' = tid_map /\ Books
      BY <2>2 DEF Idle, glob, ghost
    <3>2. quit_enabled' \in [Threads -> BOOLEAN]
      BY <1>1, <3>1
    <3> QED
      BY <1>1, <1>2, <3>1, <3>2
  <2>3. ASSUME QuitCheck(t) PROVE CountInv'
    <3>1. quit_enabled' = quit_enabled /\ Books
          /\ (tid_map' = tid_map \/ tid_map' = [tid_map EXCEPT ![t] = "disabled"])
      BY <2>3 DEF QuitCheck, ghost
    <3>2. tid_map' \in [Threads -> {"in", "disabled", "out"}]
      BY <1>1, <3>1
    <3> QED
      BY <1>1, <1>2, <3>1, <3>2
  <2>4. ASSUME NEW quit \in Answers, QuitAnswer(t, quit) PROVE CountInv'
    <3>1. /\ tid_map' = [tid_map EXCEPT ![t] = IF quit THEN "out" ELSE "in"]
          /\ quit_enabled' = [quit_enabled EXCEPT ![t] = IF quit THEN t = Main ELSE @]
          /\ Books
      BY <2>4 DEF QuitAnswer, ghost
    <3>2. tid_map' \in [Threads -> {"in", "disabled", "out"}]
      BY <1>1, <3>1
    <3>3. quit_enabled' \in [Threads -> BOOLEAN]
      BY <1>1, <3>1
    <3> QED
      BY <1>2, <3>1, <3>2, <3>3
  <2> HIDE DEF Maps, Books
  <2> QED
    BY <1>3, <1>6, <1>7, <2>1, <2>2, <2>3, <2>4, Zenon DEF Loop
<1>8. ASSUME RunAgain PROVE CountInv'
  <2>1. quit_enabled' = quit_enabled /\ Books /\ tid_map' = [tid_map EXCEPT ![Main] = "in"]
    BY <1>8 DEF RunAgain, ghost
  <2>2. tid_map' \in [Threads -> {"in", "disabled", "out"}]
    BY <1>1, <2>1
  <2> QED
    BY <1>1, <1>2, <2>1, <2>2
<1>9. UNCHANGED vars => Maps /\ Books
  BY DEF vars, glob, ghost
<1> HIDE DEF Maps, Books
<1> QED
  BY <1>3, <1>4, <1>5, <1>7, <1>8, <1>9, Zenon DEF Next

LEMMA BooksType == IndInv /\ DeliveryInv /\ CountInv => TypeOK
<1> SUFFICES ASSUME IndInv, DeliveryInv, CountInv PROVE TypeOK
  OBVIOUS
<1>1. HomeType /\ Phases
  BY DEF IndInv
<1>2. ASSUME NEW t \in Threads, NEW i \in DOMAIN EventQueue(t)
      PROVE  /\ EventQueue(t)[i].type \in {"msg", "export", "import"}
             /\ EventQueue(t)[i].kernel \in Kernels
  <2> DEFINE q == EventQueue(t)
  <2>1. q \in Seq(Event)
    <3>1. lqueue[t] \in Seq(Event) /\ pqueue[t] \in Seq(Event) /\ pending[t] \in Seq(Event)
      BY <1>1 DEF HomeType
    <3>2. lqueue[t] \o pqueue[t] \in Seq(Event)
      BY <3>1, ConcatProperties, Zenon
    <3>3. (lqueue[t] \o pqueue[t]) \o pending[t] \in Seq(Event)
      BY <3>1, <3>2, ConcatProperties, Zenon
    <3> QED
      BY <3>3 DEF EventQueue
  <2>2. i \in DOMAIN q
    OBVIOUS
  <2> HIDE DEF q
  <2>3. q[i] \in Event
    BY <2>1, <2>2
  <2>4. q[i].type \in {"msg", "export", "import"} /\ q[i].kernel \in Kernels
    BY <2>3 DEF Event, Plain
  <2> QED
    BY <2>4 DEF q
<1>3. hop \in [Kernels -> 0 .. moves]
  <2>1. hop \in [Kernels -> Nat] /\ moves \in Nat
    BY <1>1 DEF HomeType, CountInv
  <2>2. \A k \in Kernels : hop[k] \in 0 .. moves
    <3>1. \A k \in Kernels : Requested(k) \in {0, 1}
      BY DEF Requested
    <3> QED
      BY <2>1, <3>1 DEF CountInv
  <2> QED
    BY <2>1, <2>2
<1>4. done \subseteq DOMAIN posted
  BY DEF DeliveryInv, DeliveryBooks
<1> QED
  BY <1>1, <1>2, <1>3, <1>4 DEF TypeOK, HomeType, Phases, CountInv

(* TypeOK: the types, a current kernel exactly while a handler runs, and no *)
(* kernel moved more often than it was asked to.                            *)
THEOREM TypeCorrect == Spec => []TypeOK
<1>1. MigrationAssumption
  BY MigrationAssumption
<1>2. Spec => []CountInv
  BY <1>1, InitCounts, NextCounts, HomeInductive, PTL DEF Spec
<1> QED
  BY <1>2, BooksType, HomeInductive, DeliveryInductive, PTL
-----------------------------------------------------------------------------
(***************************************************************************)
(* A thread that is about to leave its loop.                               *)
(***************************************************************************)

(* It is not to be found in tid_map.                                        *)
LeavingInv == \A t \in Threads : pc[t] \in {"asking", "stopped"} => tid_map[t] # "in"

LEMMA NextKeepsLeaving ==
    ASSUME MigrationAssumption, HomeType, CountInv, LeavingInv, [Next]_vars
    PROVE  LeavingInv'
<1> DEFINE Leaving == {"asking", "stopped"}
<1>1. /\ pc \in [Threads -> {"taking", "handling", "waiting", "checking", "asking", "stopped"}]
      /\ tid_map \in [Threads -> {"in", "disabled", "out"}]
  BY DEF HomeType, CountInv
<1>2. ASSUME tid_map' = tid_map, \A u \in Threads : pc'[u] = pc[u] \/ pc'[u] \notin Leaving
      PROVE  LeavingInv'
  BY <1>2 DEF LeavingInv
<1>3. ASSUME NEW t \in Threads, QuitCheck(t) PROVE LeavingInv'
  <2>1. \/ pc' = [pc EXCEPT ![t] = "taking"] /\ tid_map' = tid_map
        \/ pc' = [pc EXCEPT ![t] = "asking"] /\ tid_map' = [tid_map EXCEPT ![t] = "disabled"]
    BY <1>3 DEF QuitCheck
  <2> QED
    BY <1>1, <2>1 DEF LeavingInv
<1>4. ASSUME NEW t \in Threads, NEW quit \in Answers, QuitAnswer(t, quit) PROVE LeavingInv'
  <2>1. \/ pc' = [pc EXCEPT ![t] = "taking"] /\ tid_map' = [tid_map EXCEPT ![t] = "in"]
        \/ pc' = [pc EXCEPT ![t] = "stopped"] /\ tid_map' = [tid_map EXCEPT ![t] = "out"]
    BY <1>4 DEF QuitAnswer
  <2> QED
    BY <1>1, <2>1 DEF LeavingInv
<1>5. ASSUME NEW t \in Threads, Loop(t) PROVE LeavingInv'
  <2>1. DispatchMsg(t) \/ DispatchExport(t) \/ DispatchImport(t) \/ HandlerReturn(t)
          \/ CollectPending(t) \/ Idle(t)
            => /\ tid_map' = tid_map
               /\ \A u \in Threads : pc'[u] = pc[u] \/ pc'[u] \notin Leaving
    BY <1>1 DEF DispatchMsg, DispatchExport, DispatchImport, HandlerReturn, CollectPending,
                Idle, glob
  <2> QED
    BY <1>2, <1>3, <1>4, <1>5, <2>1, Zenon DEF Loop
<1>6. ASSUME NEW t \in Threads, Handler(t) PROVE LeavingInv'
  BY <1>2, <1>6 DEF Handler, PostLocal, MoveToThread, glob
<1>7. ASSUME NEW k \in Kernels, PostShared(k) PROVE LeavingInv'
  BY <1>2, <1>7 DEF PostShared, glob
<1>8. CASE RunAgain
  <2>1. pc' = [pc EXCEPT ![Main] = "taking"] /\ tid_map' = [tid_map EXCEPT ![Main] = "in"]
    BY <1>8 DEF RunAgain
  <2> QED
    BY <1>1, <2>1 DEF LeavingInv, Threads
<1>9. CASE UNCHANGED vars
  BY <1>2, <1>9 DEF vars, glob
<1> QED
  BY <1>5, <1>6, <1>7, <1>8, <1>9, Zenon DEF Next

(* Only an export assigns a kernel to a thread, and only to one it finds.   *)
LEMMA OnlyFoundGetKernels ==
    ASSUME IndInv, [Next]_vars, NEW k \in Kernels, thread'[k] # thread[k]
    PROVE  tid_map[thread'[k]] = "in"
<1>1. PICK t \in Threads : DispatchExport(t)
  <2>1. ASSUME NEW t \in Threads, Handler(t) PROVE thread' = thread
    BY <2>1 DEF Handler, PostLocal, MoveToThread, glob
  <2>2. ASSUME NEW j \in Kernels, PostShared(j) PROVE thread' = thread
    BY <2>2 DEF PostShared, glob
  <2>3. ASSUME NEW t \in Threads, Loop(t) PROVE thread' = thread \/ DispatchExport(t)
    BY <2>3 DEF Loop, DispatchMsg, DispatchImport, HandlerReturn, CollectPending, Idle,
                QuitCheck, QuitAnswer, glob
  <2>4. RunAgain \/ UNCHANGED vars => thread' = thread
    BY DEF RunAgain, vars, glob
  <2> QED
    BY <2>1, <2>2, <2>3, <2>4, Zenon DEF Next
<1>2. PICK j, to : \/ thread' = thread
                   \/ thread' = [thread EXCEPT ![j] = to] /\ tid_map[to] = "in"
  BY <1>1 DEF DispatchExport, Found
<1> QED
  BY <1>2 DEF IndInv, HomeType

(* LeavingGetsNoKernel: whatever moves were asked for while a thread could  *)
(* still be found, none takes a kernel to it once it has passed its last    *)
(* check.                                                                   *)
THEOREM NoKernelForLeaving == Spec => LeavingGetsNoKernel
<1> DEFINE Unassigned ==
             \A t \in Threads : pc[t] \in {"asking", "stopped"} =>
                \A k \in Kernels : thread'[k] = t => thread[k] = t
<1>1. MigrationAssumption
  BY MigrationAssumption
<1>2. Init => LeavingInv
  BY DEF Init, LeavingInv
<1>3. HomeType /\ CountInv /\ LeavingInv /\ [Next]_vars => LeavingInv'
  BY <1>1, NextKeepsLeaving
<1>4. IndInv => HomeType
  BY DEF IndInv
<1>5. Spec => []LeavingInv
  BY <1>1, <1>2, <1>3, <1>4, InitCounts, NextCounts, HomeInductive, PTL DEF Spec
<1>6. IndInv /\ LeavingInv /\ [Next]_vars => [Unassigned]_vars
  BY OnlyFoundGetKernels DEF LeavingInv
<1> QED
  BY <1>5, <1>6, HomeInductive, PTL DEF Spec, LeavingGetsNoKernel
-----------------------------------------------------------------------------
(***************************************************************************)
(* Counting the copies of a message.                                       *)
(***************************************************************************)
Times(q, k, n) == Len(Keep(q, {Msg(k, n)}))

LEMMA TimesFacts ==
    ASSUME NEW E, NEW q \in Seq(E), NEW k, NEW n
    PROVE  /\ Times(q, k, n) \in Nat
           /\ Msg(k, n) \in ToSet(q) => Times(q, k, n) # 0
<1> DEFINE e == Msg(k, n)
<1> HIDE DEF e
<1>1. Keep(q, {e}) \in Seq(E)
  BY KeepIsSeq, Zenon
<1>2. Len(Keep(q, {e})) \in Nat
  BY <1>1, LenProperties, Zenon
<1>3. ASSUME e \in ToSet(q), Len(Keep(q, {e})) = 0 PROVE FALSE
  <2>1. ToSet(Keep(q, {e})) = ToSet(q) \cap {e}
    BY SetKeep
  <2>2. Keep(q, {e}) = <<>>
    BY <1>1, <1>3
  <2>3. ToSet(<<>>) = {}
    BY SetEmpty
  <2> QED
    BY <1>3, <2>1, <2>2, <2>3
<1> QED
  BY <1>2, <1>3 DEF Times, e

LEMMA TimesConcat ==
    ASSUME NEW E, NEW q \in Seq(E), NEW r \in Seq(E), NEW k, NEW n
    PROVE  Times(q \o r, k, n) = Times(q, k, n) + Times(r, k, n)
<1> DEFINE S == {Msg(k, n)}
           a == Keep(q, S)
           b == Keep(r, S)
<1> HIDE DEF S
<1>1. Keep(q \o r, S) = a \o b
  BY KeepConcat
<1>2. a \in Seq(E) /\ b \in Seq(E)
  BY KeepIsSeq, Zenon
<1> HIDE DEF a, b
<1>3. Len(a \o b) = Len(a) + Len(b)
  BY <1>2
<1> QED
  BY <1>1, <1>3 DEF Times, S, a, b

(* An import event in front is no message.                                  *)
LEMMA TimesBehind ==
    ASSUME NEW k \in Kernels, NEW q, Brings(q, k), NEW n
    PROVE  Times(q, k, n) = Times(Tail(q), k, n)
<1> DEFINE S == {Msg(k, n)}
<1>1. q # <<>> /\ q \in Seq(Event) /\ Head(q) \in Carriers(k)
  BY BringsParts, Zenon
<1>2. Head(q) \notin S
  BY <1>1 DEF Carriers, Msg
<1> HIDE DEF S
<1>3. Keep(q, S) = Keep(Tail(q), S)
  BY <1>1, <1>2, KeepFirst
<1> QED
  BY <1>3 DEF Times, S

LEMMA LineCount ==
    ASSUME NEW k, NEW q, NEW N, NEW stay, NEW n \in Nat, InLine(q, k, N, stay)
    PROVE  Times(q, k, n) = IF n \in N THEN 1 ELSE 0
<1> DEFINE e == Msg(k, n)
<1>1. q \in Seq(Plain({k})) /\ (e \in ToSet(q) <=> n \in N)
  BY DEF InLine
<1>2. ~ Before(q, e, e)
  <2>1. Before(q, e, e) => n < n
    BY Zenon DEF InLine
  <2> QED
    BY <2>1
<1> HIDE DEF e
<1>3. /\ e \notin ToSet(q) => Len(Keep(q, {e})) = 0
      /\ e \in ToSet(q) /\ ~ Before(q, e, e) => Len(Keep(q, {e})) = 1
  BY <1>1, KeepOnce, Zenon
<1> QED
  BY <1>1, <1>2, <1>3 DEF Times, e

(* The import event a kernel that has not arrived travels in.               *)
Carrier(p, w) == IF p # <<>> THEN Head(p) ELSE Head(w)

Carried(here, p, w, k, n) ==
    IF here THEN 0
    ELSE Times(Carrier(p, w).lqueue, k, n) + Times(Carrier(p, w).pqueue, k, n)

LEMMA FlowCount ==
    ASSUME NEW k \in Kernels, NEW here \in BOOLEAN, NEW l, NEW p, NEW w, Shape(k, here, l, p, w),
           NEW L, NEW S, L \cap S = {}, NEW stay, NEW now, NEW n \in Nat,
           Flows(k, here, l, p, w, L, S, stay, now)
    PROVE  Times(l, k, n) + Times(p, k, n) + Times(w, k, n) + Carried(here, p, w, k, n)
             = IF n \in L \cup S THEN 1 ELSE 0
<1> DEFINE P == Plain({k})
           lo == LocalFlow(here, l, p, w)
           sh == SharedFlow(here, l, p, w)
           due == IF n \in L \cup S THEN 1 ELSE 0
<1>1. Times(lo, k, n) + Times(sh, k, n) = due
  <2>1. InLine(lo, k, L, AnyStay) /\ InLine(sh, k, S, stay)
    BY DEF Flows
  <2> HIDE DEF lo, sh
  <2>2. Times(lo, k, n) = IF n \in L THEN 1 ELSE 0
    BY <2>1, LineCount
  <2>3. Times(sh, k, n) = IF n \in S THEN 1 ELSE 0
    BY <2>1, LineCount
  <2> QED
    BY <2>2, <2>3
<1>2. Times(<<>>, k, n) = 0
  BY KeepEmpty DEF Times
<1>3. CASE here
  <2>1. lo = l /\ sh = p \o w /\ p \in Seq(P) /\ w \in Seq(P) /\ l \in Seq(P)
    BY <1>3 DEF LocalFlow, SharedFlow, Shape
  <2>2. Times(p \o w, k, n) = Times(p, k, n) + Times(w, k, n)
    BY <2>1, TimesConcat
  <2>3. Times(l, k, n) \in Nat /\ Times(p, k, n) \in Nat /\ Times(w, k, n) \in Nat
    BY <2>1, TimesFacts, Zenon
  <2>4. Carried(here, p, w, k, n) = 0
    BY <1>3 DEF Carried
  <2> HIDE DEF lo, sh, due
  <2> QED
    BY <1>1, <2>1, <2>2, <2>3, <2>4 DEF due
<1>4. CASE ~ here /\ Brings(p, k) /\ w \in Seq(P)
  <2> DEFINE a == Tail(p)
             c == Head(p).lqueue
             d == Head(p).pqueue
  <2>1. /\ p # <<>> /\ a \in Seq(P) /\ c \in Seq(P) /\ d \in Seq(P) /\ l = <<>>
        /\ lo = c /\ sh = (a \o d) \o w /\ Carrier(p, w) = Head(p)
    <3>1. p # <<>> /\ a \in Seq(P) /\ c \in Seq(P) /\ d \in Seq(P)
      BY <1>4, BringsParts, Zenon
    <3> QED
      BY <1>4, <3>1 DEF LocalFlow, SharedFlow, Carrier, Shape
  <2>2. Times(p, k, n) = Times(a, k, n)
    BY <1>4, TimesBehind, Zenon
  <2>3. Carried(here, p, w, k, n) = Times(c, k, n) + Times(d, k, n)
    BY <1>4, <2>1 DEF Carried
  <2> HIDE DEF a, c, d, lo, sh, P
  <2>4. a \o d \in Seq(P)
    BY <2>1, ConcatProperties, Zenon
  <2>5. Times(a \o d, k, n) = Times(a, k, n) + Times(d, k, n)
    BY <2>1, TimesConcat
  <2>6. Times((a \o d) \o w, k, n) = Times(a \o d, k, n) + Times(w, k, n)
    <3> DEFINE x == a \o d
    <3>1. x \in Seq(P) /\ w \in Seq(P)
      BY <1>4, <2>4
    <3> HIDE DEF x
    <3>2. Times(x \o w, k, n) = Times(x, k, n) + Times(w, k, n)
      BY <3>1, TimesConcat
    <3> QED
      BY <3>2 DEF x
  <2>7. Times(a, k, n) \in Nat /\ Times(c, k, n) \in Nat /\ Times(d, k, n) \in Nat /\ Times(w, k, n) \in Nat
    BY <1>4, <2>1, TimesFacts, Zenon
  <2> DEFINE A == Times(a, k, n)
             C == Times(c, k, n)
             D == Times(d, k, n)
             W == Times(w, k, n)
  <2>8. C + ((A + D) + W) = due
    BY <1>1, <2>1, <2>5, <2>6
  <2> HIDE DEF A, C, D, W, due
  <2>9. ((0 + A) + W) + (C + D) = due
    BY <2>7, <2>8 DEF A, C, D, W
  <2> QED
    BY <1>2, <2>1, <2>2, <2>3, <2>9 DEF A, C, D, W, due
<1>5. CASE ~ here /\ p = <<>> /\ Brings(w, k)
  <2> DEFINE a == Tail(w)
             c == Head(w).lqueue
             d == Head(w).pqueue
  <2>1. /\ w # <<>> /\ a \in Seq(P) /\ c \in Seq(P) /\ d \in Seq(P) /\ l = <<>>
        /\ lo = c /\ sh = a \o d /\ Carrier(p, w) = Head(w)
    <3>1. w # <<>> /\ a \in Seq(P) /\ c \in Seq(P) /\ d \in Seq(P)
      BY <1>5, BringsParts, Zenon
    <3> QED
      BY <1>5, <3>1 DEF LocalFlow, SharedFlow, Carrier, Shape
  <2>2. Times(w, k, n) = Times(a, k, n)
    BY <1>5, TimesBehind, Zenon
  <2>3. Carried(here, p, w, k, n) = Times(c, k, n) + Times(d, k, n)
    BY <1>5, <2>1 DEF Carried
  <2> HIDE DEF a, c, d, lo, sh, P
  <2>4. Times(a \o d, k, n) = Times(a, k, n) + Times(d, k, n)
    BY <2>1, TimesConcat
  <2>5. Times(a, k, n) \in Nat /\ Times(c, k, n) \in Nat /\ Times(d, k, n) \in Nat
    BY <2>1, TimesFacts, Zenon
  <2> DEFINE A == Times(a, k, n)
             C == Times(c, k, n)
             D == Times(d, k, n)
  <2>6. C + (A + D) = due
    BY <1>1, <2>1, <2>4
  <2> HIDE DEF A, C, D, due
  <2>7. ((0 + 0) + A) + (C + D) = due
    BY <2>5, <2>6 DEF A, C, D
  <2> QED
    BY <1>2, <1>5, <2>1, <2>2, <2>3, <2>7 DEF A, C, D, due
<1> QED
  BY <1>3, <1>4, <1>5, Zenon DEF Shape
-----------------------------------------------------------------------------
(***************************************************************************)
(* Where a message can be.                                                 *)
(***************************************************************************)
LEMMA QueueParts ==
    ASSUME IndInv, NEW t \in Threads
    PROVE  /\ lqueue[t] \in Seq(Event) /\ pqueue[t] \in Seq(Event) /\ pending[t] \in Seq(Event)
           /\ EventQueue(t) \in Seq(Event) /\ EventQueue(t) = (lqueue[t] \o pqueue[t]) \o pending[t]
           /\ lqueue[t] \o pqueue[t] \in Seq(Event)
           /\ ToSet(EventQueue(t)) = ToSet(lqueue[t]) \cup ToSet(pqueue[t]) \cup ToSet(pending[t])
<1> DEFINE l == lqueue[t]
           p == pqueue[t]
           w == pending[t]
           lp == l \o p
<1>1. l \in Seq(Event) /\ p \in Seq(Event) /\ w \in Seq(Event)
  BY DEF IndInv, HomeType
<1>2. EventQueue(t) = lp \o w
  BY DEF EventQueue
<1> HIDE DEF l, p, w
<1>3. lp \in Seq(Event) /\ ToSet(lp) = ToSet(l) \cup ToSet(p)
  BY <1>1, SetConcat, ConcatProperties
<1> HIDE DEF lp
<1>4. lp \o w \in Seq(Event) /\ ToSet(lp \o w) = ToSet(lp) \cup ToSet(w)
  BY <1>1, <1>3, SetConcat, ConcatProperties
<1> QED
  BY <1>1, <1>2, <1>3, <1>4 DEF l, p, w, lp

(* An event is in the share of its kernel, at the thread of its kernel.     *)
LEMMA EventsAtHome ==
    ASSUME IndInv, NEW t \in Threads, NEW e \in ToSet(EventQueue(t)), NEW j, j = e.kernel
    PROVE  /\ e \in Event /\ j \in Kernels /\ thread[j] = t
           /\ \/ e \in ToSet(Share(lqueue[t], j))
              \/ e \in ToSet(Share(pqueue[t], j))
              \/ e \in ToSet(Share(pending[t], j))
<1>1. /\ lqueue[t] \in Seq(Event) /\ pqueue[t] \in Seq(Event) /\ pending[t] \in Seq(Event)
      /\ EventQueue(t) \in Seq(Event)
      /\ ToSet(EventQueue(t)) = ToSet(lqueue[t]) \cup ToSet(pqueue[t]) \cup ToSet(pending[t])
  BY QueueParts, Zenon
<1>2. e \in Event
  BY <1>1, SetIsOf
<1>3. j \in Kernels /\ e \in Own(j)
  BY <1>2 DEF Own, Event, Plain
<1>4. \A q \in Seq(Event) : ToSet(Share(q, j)) = ToSet(q) \cap Own(j)
  BY SetKeep, Zenon DEF Share
<1>5. \/ e \in ToSet(Share(lqueue[t], j))
      \/ e \in ToSet(Share(pqueue[t], j))
      \/ e \in ToSet(Share(pending[t], j))
  BY <1>1, <1>3, <1>4
<1>6. ~ Away(j, t)
  BY <1>5, SetEmpty DEF Away
<1>7. thread[j] = t
  BY <1>3, <1>6, Zenon DEF IndInv, Placed
<1> QED
  BY <1>2, <1>3, <1>5, <1>7

(* An import event is the first event of its kernel, which has not arrived. *)
LEMMA ImportIsCarrier ==
    ASSUME IndInv, NEW t \in Threads, NEW e \in ToSet(EventQueue(t)), e.type = "import",
           NEW j, j = e.kernel
    PROVE  /\ j \in Kernels /\ thread[j] = t /\ j \notin list_kernel[t]
           /\ e = Carrier(Share(pqueue[t], j), Share(pending[t], j))
           /\ e \in Carriers(j)
<1> DEFINE l == Share(lqueue[t], j)
           p == Share(pqueue[t], j)
           w == Share(pending[t], j)
           P == Plain({j})
<1>1. j \in Kernels /\ thread[j] = t /\ (e \in ToSet(l) \/ e \in ToSet(p) \/ e \in ToSet(w))
  BY EventsAtHome, ZenonT(40)
<1>2. e \notin P
  BY DEF Plain
<1>3. \A q \in Seq(P) : e \notin ToSet(q)
  BY <1>2, SetIsOf
<1>4. Expected(j, t)
  <2>1. Arrived(j, t) \/ Expected(j, t)
    BY <1>1, Zenon DEF IndInv, Placed
  <2> QED
    BY <1>1, <1>3, <2>1, Zenon DEF Arrived
<1>5. ASSUME NEW q, Brings(q, j), e \in ToSet(q) PROVE e = Head(q) /\ q # <<>> /\ Head(q) \in Carriers(j)
  <2>1. /\ q # <<>> /\ q \in Seq(Event) /\ Head(q) \in Carriers(j) /\ Tail(q) \in Seq(P)
    BY <1>1, <1>5, BringsParts, Zenon
  <2>2. ToSet(q) = {Head(q)} \cup ToSet(Tail(q))
    BY <2>1, SetFirst
  <2> QED
    BY <1>3, <1>5, <2>1, <2>2
<1>6. e \notin ToSet(<<>>)
  BY SetEmpty
<1>7. /\ j \notin list_kernel[t] /\ l = <<>>
      /\ (Brings(p, j) /\ w \in Seq(P)) \/ (p = <<>> /\ Brings(w, j))
  BY <1>4, Zenon DEF Expected
<1> HIDE DEF l, p, w, P
<1>8. e = Carrier(p, w) /\ e \in Carriers(j)
  <2>1. CASE Brings(p, j) /\ w \in Seq(P)
    <3>1. e \in ToSet(p)
      BY <1>1, <1>3, <1>6, <1>7, <2>1
    <3>2. e = Head(p) /\ p # <<>> /\ Head(p) \in Carriers(j)
      BY <1>5, <2>1, <3>1, Zenon
    <3> QED
      BY <3>2 DEF Carrier
  <2>2. CASE p = <<>> /\ Brings(w, j)
    <3>1. e \in ToSet(w)
      BY <1>1, <1>6, <1>7, <2>2
    <3>2. e = Head(w) /\ Head(w) \in Carriers(j)
      BY <1>5, <2>2, <3>1, Zenon
    <3> QED
      BY <2>2, <3>2 DEF Carrier
  <2> QED
    BY <1>7, <2>1, <2>2, Zenon
<1> QED
  BY <1>1, <1>7, <1>8 DEF p, w

(* The other way round: there is such an event for a kernel on its way.     *)
LEMMA CarrierIsImport ==
    ASSUME IndInv, NEW k \in Kernels, NEW t \in Threads, thread[k] = t, k \notin list_kernel[t],
           NEW c, c = Carrier(Share(pqueue[t], k), Share(pending[t], k))
    PROVE  c \in Carriers(k) /\ c \in ToSet(EventQueue(t))
<1> DEFINE p == Share(pqueue[t], k)
           w == Share(pending[t], k)
<1>1. (Brings(p, k) /\ w \in Seq(Plain({k}))) \/ (p = <<>> /\ Brings(w, k))
  <2>1. Arrived(k, t) \/ Expected(k, t)
    BY Zenon DEF IndInv, Placed
  <2> QED
    BY <2>1, Zenon DEF Arrived, Expected
<1>2. /\ pqueue[t] \in Seq(Event) /\ pending[t] \in Seq(Event)
      /\ ToSet(EventQueue(t)) = ToSet(lqueue[t]) \cup ToSet(pqueue[t]) \cup ToSet(pending[t])
  BY QueueParts, Zenon
<1>3. ToSet(p) \subseteq ToSet(pqueue[t]) /\ ToSet(w) \subseteq ToSet(pending[t])
  <2>1. \A q \in Seq(Event) : ToSet(Share(q, k)) = ToSet(q) \cap Own(k)
    BY SetKeep, Zenon DEF Share
  <2> QED
    BY <1>2, <2>1
<1>4. c = Carrier(p, w)
  OBVIOUS
<1> HIDE DEF p, w
<1>5. ASSUME NEW q, Brings(q, k) PROVE q # <<>> /\ Head(q) \in Carriers(k) /\ Head(q) \in ToSet(q)
  <2>1. q # <<>> /\ q \in Seq(Event) /\ Head(q) \in Carriers(k)
    BY <1>5, BringsParts, Zenon
  <2>2. ToSet(q) = {Head(q)} \cup ToSet(Tail(q))
    BY <2>1, SetFirst
  <2> QED
    BY <2>1, <2>2
<1>6. c \in Carriers(k) /\ (c \in ToSet(p) \/ c \in ToSet(w))
  <2>1. CASE Brings(p, k)
    BY <1>4, <1>5, <2>1 DEF Carrier
  <2>2. CASE p = <<>> /\ Brings(w, k)
    <3>1. c = Head(w)
      BY <1>4, <2>2 DEF Carrier
    <3> QED
      BY <1>5, <2>2, <3>1
  <2> QED
    BY <1>1, <2>1, <2>2
<1> QED
  BY <1>2, <1>3, <1>6

LEMMA CarriedType ==
    ASSUME IndInv, NEW k \in Kernels, NEW t \in Threads, thread[k] = t,
           NEW here \in BOOLEAN, here <=> k \in list_kernel[t], NEW n
    PROVE  Carried(here, Share(pqueue[t], k), Share(pending[t], k), k, n) \in Nat
<1> DEFINE c == Carrier(Share(pqueue[t], k), Share(pending[t], k))
<1>1. CASE here
  BY <1>1 DEF Carried
<1>2. CASE ~ here
  <2>1. c \in Carriers(k)
    BY <1>2, CarrierIsImport, Zenon
  <2>2. c.lqueue \in Seq(Plain({k})) /\ c.pqueue \in Seq(Plain({k}))
    BY <2>1 DEF Carriers
  <2> HIDE DEF c
  <2>3. Times(c.lqueue, k, n) \in Nat /\ Times(c.pqueue, k, n) \in Nat
    BY <2>2, TimesFacts, Zenon
  <2> QED
    BY <1>2, <2>3 DEF Carried, c
<1> QED
  BY <1>1, <1>2

Owed(k, n) == IF n \in DOMAIN posted /\ n \notin done /\ posted[n].kernel = k THEN 1 ELSE 0

(* Of a message due there is one copy with its kernel, of any other none.   *)
LEMMA CopiesOf ==
    ASSUME IndInv, DeliveryInv, NEW k \in Kernels, NEW t \in Threads, thread[k] = t,
           NEW here \in BOOLEAN, here <=> k \in list_kernel[t], NEW n \in Nat
    PROVE  Times(Share(lqueue[t], k), k, n) + Times(Share(pqueue[t], k), k, n)
             + Times(Share(pending[t], k), k, n)
             + Carried(here, Share(pqueue[t], k), Share(pending[t], k), k, n)
           = Owed(k, n)
<1> DEFINE l == Share(lqueue[t], k)
           p == Share(pqueue[t], k)
           w == Share(pending[t], k)
           L == Due(k, "local")
           S == Due(k, "shared")
           old == Stay
           now == hop[k]
<1>1. Shape(k, here, l, p, w)
  BY ShapeOf, Zenon
<1>2. Flows(k, here, l, p, w, L, S, old, now)
  BY DeliveredIs, Zenon DEF DeliveryInv, AllDelivered
<1>3. L \cap S = {}
  BY DEF Due
<1>4. n \in L \cup S <=> n \in DOMAIN posted /\ n \notin done /\ posted[n].kernel = k
  BY PostedFacts DEF Due
<1> HIDE DEF l, p, w, L, S, old, now
<1>5. Times(l, k, n) + Times(p, k, n) + Times(w, k, n) + Carried(here, p, w, k, n)
        = IF n \in L \cup S THEN 1 ELSE 0
  BY <1>1, <1>2, <1>3, FlowCount
<1> QED
  BY <1>4, <1>5 DEF l, p, w, Owed
-----------------------------------------------------------------------------
(***************************************************************************)
(* No message is lost, and none is copied.                                 *)
(***************************************************************************)
Here(q, n) == {i \in DOMAIN q : q[i].type = "msg" /\ q[i].msg = n}

Transports(q) == {i \in DOMAIN q : q[i].type = "import"}

InLocal(q, n)  == UNION {{i} \X Here(q[i].lqueue, n) : i \in Transports(q)}
InShared(q, n) == UNION {{i} \X Here(q[i].pqueue, n) : i \in Transports(q)}

LEMMA CopiesParts ==
    ASSUME NEW t, NEW n, NEW q, q = EventQueue(t)
    PROVE  Copies(t, n) = Cardinality(Here(q, n)) + Cardinality(InLocal(q, n))
                            + Cardinality(InShared(q, n))
BY DEF Copies, Here, Transports, InLocal, InShared

(* In a queue that has no other message of that number.                     *)
LEMMA HereCount ==
    ASSUME NEW E, NEW q \in Seq(E), NEW k, NEW n,
           \A e \in ToSet(q) : e.type = "msg" /\ e.msg = n => e = Msg(k, n)
    PROVE  IsFiniteSet(Here(q, n)) /\ Cardinality(Here(q, n)) = Times(q, k, n)
<1> DEFINE S == {Msg(k, n)}
<1>1. Here(q, n) = {i \in 1 .. Len(q) : q[i] \in S}
  <2>1. DOMAIN q = 1 .. Len(q) /\ \A i \in DOMAIN q : q[i] \in ToSet(q)
    BY DEF ToSet
  <2>2. Msg(k, n).type = "msg" /\ Msg(k, n).msg = n
    BY DEF Msg
  <2> HIDE DEF S
  <2>3. \A i \in DOMAIN q : q[i].type = "msg" /\ q[i].msg = n <=> q[i] \in S
    BY <2>1, <2>2, Zenon DEF S
  <2> QED
    BY <2>1, <2>3 DEF Here
<1> HIDE DEF S
<1>2. Cardinality({i \in 1 .. Len(q) : q[i] \in S}) = Len(Keep(q, S))
  BY KeepCount, Zenon
<1>3. IsFiniteSet(Here(q, n))
  <2>1. Len(q) \in Nat
    BY LenProperties
  <2>2. IsFiniteSet(1 .. Len(q))
    BY <2>1, FS_Interval
  <2>3. Here(q, n) \subseteq 1 .. Len(q)
    BY <1>1
  <2> QED
    BY <2>2, <2>3, FS_Subset
<1> QED
  BY <1>1, <1>2, <1>3 DEF Times, S

(* A message in a queue is due to its kernel, at the kernel's thread.       *)
LEMMA QueuedIsDue ==
    ASSUME IndInv, DeliveryInv, NEW t \in Threads, NEW e \in ToSet(EventQueue(t)),
           e.type = "msg", NEW n, n = e.msg, NEW j, j = e.kernel
    PROVE  /\ j \in Kernels /\ thread[j] = t /\ e = Msg(j, n)
           /\ n \in DOMAIN posted /\ n \notin done /\ posted[n].kernel = j
<1> DEFINE l == Share(lqueue[t], j)
           p == Share(pqueue[t], j)
           w == Share(pending[t], j)
<1>1. e \in Event /\ j \in Kernels /\ thread[j] = t
      /\ (e \in ToSet(l) \/ e \in ToSet(p) \/ e \in ToSet(w))
  BY EventsAtHome, ZenonT(40)
<1>2. n \in Nat /\ e = Msg(j, n)
  BY <1>1 DEF Event, Plain, Msg
<1>3. l \in Seq(Event) /\ p \in Seq(Event) /\ w \in Seq(Event)
  BY QueueParts, ShareType, Zenon
<1>4. PICK here \in BOOLEAN : here <=> j \in list_kernel[t]
  BY Zenon
<1> DEFINE due == n \in DOMAIN posted /\ n \notin done /\ posted[n].kernel = j
           c == Carried(here, p, w, j, n)
<1>5. Times(l, j, n) + Times(p, j, n) + Times(w, j, n) + c = Owed(j, n)
  BY <1>1, <1>2, <1>4, CopiesOf, ZenonT(40)
<1>6. c \in Nat
  BY <1>1, <1>4, CarriedType
<1> HIDE DEF l, p, w, due, c
<1>7. /\ Times(l, j, n) \in Nat /\ Times(p, j, n) \in Nat /\ Times(w, j, n) \in Nat
      /\ Times(l, j, n) # 0 \/ Times(p, j, n) # 0 \/ Times(w, j, n) # 0
  BY <1>1, <1>2, <1>3, TimesFacts
<1>8. due
  <2>1. ~ due => Times(l, j, n) + Times(p, j, n) + Times(w, j, n) + c = 0
    BY <1>5 DEF due, Owed
  <2> QED
    BY ONLY <2>1, <1>6, <1>7
<1> QED
  BY <1>1, <1>2, <1>8 DEF due

(* So is a message that travels with its kernel.                            *)
LEMMA CarriedIsDue ==
    ASSUME IndInv, DeliveryInv, NEW t \in Threads, NEW c \in ToSet(EventQueue(t)),
           c.type = "import", NEW e, e \in ToSet(c.lqueue) \/ e \in ToSet(c.pqueue),
           e.type = "msg", NEW n, n = e.msg, NEW j, j = c.kernel
    PROVE  /\ j \in Kernels /\ thread[j] = t /\ j \notin list_kernel[t] /\ e = Msg(j, n)
           /\ n \in DOMAIN posted /\ n \notin done /\ posted[n].kernel = j
<1> DEFINE l == Share(lqueue[t], j)
           p == Share(pqueue[t], j)
           w == Share(pending[t], j)
<1>1. /\ j \in Kernels /\ thread[j] = t /\ j \notin list_kernel[t]
      /\ c = Carrier(p, w) /\ c \in Carriers(j)
  BY ImportIsCarrier, ZenonT(40)
<1>2. c.lqueue \in Seq(Plain({j})) /\ c.pqueue \in Seq(Plain({j}))
  BY <1>1 DEF Carriers
<1>3. e \in Plain({j})
  BY <1>2, SetIsOf
<1>4. n \in Nat /\ e = Msg(j, n)
  BY <1>3, MsgFacts
<1>5. l \in Seq(Event) /\ p \in Seq(Event) /\ w \in Seq(Event)
  BY QueueParts, ShareType, Zenon
<1> DEFINE due == n \in DOMAIN posted /\ n \notin done /\ posted[n].kernel = j
           a == Times(c.lqueue, j, n)
           b == Times(c.pqueue, j, n)
<1>6. Times(l, j, n) + Times(p, j, n) + Times(w, j, n) + Carried(FALSE, p, w, j, n)
        = Owed(j, n)
  <2>1. FALSE \in BOOLEAN /\ (FALSE <=> j \in list_kernel[t])
    BY <1>1
  <2> QED
    BY <1>1, <1>4, <2>1, CopiesOf, ZenonT(40)
<1>7. Carried(FALSE, p, w, j, n) = a + b
  BY <1>1 DEF Carried
<1>8. a \in Nat /\ b \in Nat /\ (a # 0 \/ b # 0)
  BY <1>2, <1>4, TimesFacts
<1> HIDE DEF l, p, w, due, a, b
<1>9. Times(l, j, n) \in Nat /\ Times(p, j, n) \in Nat /\ Times(w, j, n) \in Nat
  BY <1>5, TimesFacts, Zenon
<1>10. due
  <2>1. ~ due => Times(l, j, n) + Times(p, j, n) + Times(w, j, n) + (a + b) = 0
    BY <1>6, <1>7 DEF due, Owed
  <2> QED
    BY ONLY <2>1, <1>8, <1>9
<1> QED
  BY <1>1, <1>4, <1>10 DEF due

LEMMA QueuedIn ==
    ASSUME NEW q, NEW n
    PROVE  /\ \A i \in Here(q, n) : q[i] \in ToSet(q) /\ q[i].type = "msg" /\ n = q[i].msg
           /\ \A i \in Transports(q) : q[i] \in ToSet(q) /\ q[i].type = "import"
BY DEF Here, Transports, ToSet

LEMMA CopiesElsewhere ==
    ASSUME IndInv, DeliveryInv, NEW t \in Threads, NEW n \in DOMAIN posted,
           n \in done \/ thread[posted[n].kernel] # t
    PROVE  Copies(t, n) = 0
<1> DEFINE q == EventQueue(t)
<1> HIDE DEF q
<1>1. Here(q, n) = {}
  <2> SUFFICES ASSUME NEW i \in Here(q, n) PROVE FALSE
    OBVIOUS
  <2>1. q[i] \in ToSet(q) /\ q[i].type = "msg" /\ n = q[i].msg
    BY QueuedIn, Zenon
  <2>2. PICK e, j : e = q[i] /\ j = e.kernel
    OBVIOUS
  <2>3. e \in ToSet(EventQueue(t)) /\ e.type = "msg" /\ n = e.msg
    BY <2>1, <2>2 DEF q
  <2>4. thread[j] = t /\ n \notin done /\ posted[n].kernel = j
    BY <2>2, <2>3, QueuedIsDue, SMTT(30)
  <2> QED
    BY <2>4
<1>2. \A i \in Transports(q) : Here(q[i].lqueue, n) = {} /\ Here(q[i].pqueue, n) = {}
  <2> SUFFICES ASSUME NEW i \in Transports(q), NEW r, r = q[i].lqueue \/ r = q[i].pqueue,
                      NEW x \in Here(r, n)
               PROVE  FALSE
    OBVIOUS
  <2>1. q[i] \in ToSet(q) /\ q[i].type = "import"
    BY QueuedIn, Zenon
  <2>2. r[x] \in ToSet(r) /\ r[x].type = "msg" /\ n = r[x].msg
    BY QueuedIn, Zenon
  <2>3. PICK c, e, j : c = q[i] /\ e = r[x] /\ j = c.kernel
    OBVIOUS
  <2>4. c \in ToSet(EventQueue(t)) /\ c.type = "import" /\ e.type = "msg" /\ n = e.msg
    BY <2>1, <2>2, <2>3 DEF q
  <2>5. e \in ToSet(c.lqueue) \/ e \in ToSet(c.pqueue)
    BY <2>2, <2>3
  <2>6. thread[j] = t /\ n \notin done /\ posted[n].kernel = j
    BY <2>3, <2>4, <2>5, CarriedIsDue, SMTT(30)
  <2> QED
    BY <2>6
<1>3. InLocal(q, n) = {} /\ InShared(q, n) = {}
  BY <1>2 DEF InLocal, InShared
<1>4. Copies(t, n) = Cardinality(Here(q, n)) + Cardinality(InLocal(q, n)) + Cardinality(InShared(q, n))
  BY CopiesParts DEF q
<1>5. Copies(t, n) = Cardinality({}) + Cardinality({}) + Cardinality({})
  BY <1>1, <1>3, <1>4
<1>6. Cardinality({}) = 0
  BY FS_EmptySet
<1> QED
  BY <1>5, <1>6

(* Taken over the shares of its kernel.                                     *)
LEMMA TimesShares ==
    ASSUME IndInv, NEW t \in Threads, NEW k \in Kernels, NEW n \in Nat
    PROVE  Times(EventQueue(t), k, n) = Times(Share(lqueue[t], k), k, n)
             + Times(Share(pqueue[t], k), k, n) + Times(Share(pending[t], k), k, n)
<1> DEFINE l == lqueue[t]
           p == pqueue[t]
           w == pending[t]
           lp == l \o p
<1>1. /\ l \in Seq(Event) /\ p \in Seq(Event) /\ w \in Seq(Event) /\ lp \in Seq(Event)
      /\ EventQueue(t) = lp \o w
  BY QueueParts, Zenon
<1>2. ASSUME NEW q \in Seq(Event) PROVE Times(Share(q, k), k, n) = Times(q, k, n)
  <2> DEFINE S == {Msg(k, n)}
  <2>1. Own(k) \cap S = S
    BY MsgFacts, PlainOwn
  <2> HIDE DEF S
  <2>2. Keep(Keep(q, Own(k)), S) = Keep(q, Own(k) \cap S)
    BY KeepKeep
  <2> QED
    BY <2>1, <2>2 DEF Times, Share, S
<1>3. Times(lp, k, n) = Times(l, k, n) + Times(p, k, n)
  BY <1>1, TimesConcat
<1> HIDE DEF lp
<1>4. Times(lp \o w, k, n) = Times(lp, k, n) + Times(w, k, n)
  BY <1>1, TimesConcat
<1> HIDE DEF l, p, w
<1>5. /\ Times(Share(l, k), k, n) = Times(l, k, n)
      /\ Times(Share(p, k), k, n) = Times(p, k, n)
      /\ Times(Share(w, k), k, n) = Times(w, k, n)
  BY <1>1, <1>2, Zenon
<1> QED
  BY <1>1, <1>3, <1>4, <1>5 DEF l, p, w

LEMMA OneRow ==
    ASSUME NEW i, NEW S, IsFiniteSet(S)
    PROVE  Cardinality({i} \X S) = Cardinality(S)
<1>1. IsFiniteSet({i}) /\ Cardinality({i}) = 1
  BY FS_Singleton, Zenon
<1>2. Cardinality({i} \X S) = Cardinality({i}) * Cardinality(S)
  BY <1>1, FS_Product, Zenon
<1>3. Cardinality(S) \in Nat
  BY FS_CardinalityType
<1> DEFINE c == Cardinality(S)
<1> HIDE DEF c
<1>4. 1 * c = c
  BY <1>3 DEF c
<1> QED
  BY <1>1, <1>2, <1>4 DEF c

LEMMA CopiesAtHome ==
    ASSUME IndInv, DeliveryInv, NEW t \in Threads, NEW n \in DOMAIN posted, n \notin done,
           NEW k, k = posted[n].kernel, thread[k] = t
    PROVE  Copies(t, n) = 1
<1> DEFINE q == EventQueue(t)
           l == Share(lqueue[t], k)
           p == Share(pqueue[t], k)
           w == Share(pending[t], k)
           c == Carrier(p, w)
<1>1. k \in Kernels /\ n \in Nat
  BY PostedFacts
<1>2. q \in Seq(Event)
  BY QueueParts, Zenon
<1>3. Cardinality(Here(q, n)) = Times(l, k, n) + Times(p, k, n) + Times(w, k, n)
  <2>1. ASSUME NEW e \in ToSet(q), e.type = "msg", e.msg = n PROVE e = Msg(k, n)
    <3>1. PICK j : j = e.kernel
      OBVIOUS
    <3>2. e \in ToSet(EventQueue(t)) /\ n = e.msg
      BY <2>1
    <3>3. e = Msg(j, n) /\ posted[n].kernel = j
      BY <2>1, <3>1, <3>2, QueuedIsDue, SMTT(30)
    <3> QED
      BY <3>3
  <2> HIDE DEF q
  <2>2. Cardinality(Here(q, n)) = Times(q, k, n)
    BY <1>2, <2>1, HereCount, Zenon
  <2>3. Times(q, k, n) = Times(l, k, n) + Times(p, k, n) + Times(w, k, n)
    BY <1>1, TimesShares, Zenon DEF q
  <2> QED
    BY <2>2, <2>3, Zenon
<1>4. PICK here \in BOOLEAN : here <=> k \in list_kernel[t]
  BY Zenon
<1>5. Times(l, k, n) + Times(p, k, n) + Times(w, k, n) + Carried(here, p, w, k, n) = 1
  <2>1. Owed(k, n) = 1
    BY DEF Owed
  <2> QED
    BY <1>1, <1>4, <2>1, CopiesOf, ZenonT(40)
<1>6. Copies(t, n) = Cardinality(Here(q, n)) + Cardinality(InLocal(q, n)) + Cardinality(InShared(q, n))
  BY CopiesParts
<1>7. ASSUME NEW i \in Transports(q), NEW r, r = q[i].lqueue \/ r = q[i].pqueue,
             NEW e \in ToSet(r), e.type = "msg", e.msg = n
      PROVE  e = Msg(k, n) /\ i \in ImportsOf(t, k) /\ k \notin list_kernel[t]
  <2>1. PICK cc, j : cc = q[i] /\ j = cc.kernel
    OBVIOUS
  <2>2. q[i] \in ToSet(q) /\ q[i].type = "import"
    BY QueuedIn, Zenon
  <2>3. cc \in ToSet(EventQueue(t)) /\ cc.type = "import"
    BY <2>1, <2>2
  <2>4. (e \in ToSet(cc.lqueue) \/ e \in ToSet(cc.pqueue)) /\ n = e.msg
    BY <1>7, <2>1
  <2>5. e = Msg(j, n) /\ posted[n].kernel = j /\ j \notin list_kernel[t]
    BY <1>7, <2>1, <2>3, <2>4, CarriedIsDue, SMTT(30)
  <2>6. j = k
    BY <2>5
  <2> QED
    BY <2>1, <2>2, <2>5, <2>6 DEF ImportsOf, Transports
<1> HIDE DEF q
<1>8. ASSUME NEW i \in Transports(q), NEW r, r = q[i].lqueue \/ r = q[i].pqueue, Here(r, n) # {}
      PROVE  i \in ImportsOf(t, k) /\ k \notin list_kernel[t]
  <2>1. PICK x : x \in Here(r, n)
    BY <1>8
  <2>2. r[x] \in ToSet(r) /\ r[x].type = "msg" /\ r[x].msg = n
    BY <2>1, QueuedIn, Zenon
  <2> QED
    BY <1>7, <1>8, <2>2, Zenon
<1>9. CASE here
  <2>1. \A i \in Transports(q) : Here(q[i].lqueue, n) = {} /\ Here(q[i].pqueue, n) = {}
    BY <1>4, <1>8, <1>9, Zenon
  <2>2. InLocal(q, n) = {} /\ InShared(q, n) = {}
    BY <2>1 DEF InLocal, InShared
  <2>3. Cardinality(InLocal(q, n)) = 0 /\ Cardinality(InShared(q, n)) = 0
    BY <2>2, FS_EmptySet
  <2>4. Carried(here, p, w, k, n) = 0
    BY <1>9 DEF Carried
  <2> HIDE DEF l, p, w, c
  <2> QED
    BY <1>3, <1>5, <1>6, <2>3, <2>4
<1>10. CASE ~ here
  <2>1. PICK o : ImportsOf(t, k) = {o}
    <3>1. OneHome
      BY HomeImpliesOneHome
    <3>2. Cardinality(ImportsOf(t, k)) = 1
      BY <1>1, <1>4, <1>10, <3>1 DEF OneHome
    <3>3. IsFiniteSet(ImportsOf(t, k))
      BY <1>1, ImportsCounted, Zenon DEF IndInv
    <3> QED
      BY <3>2, <3>3, FS_Singleton, Zenon
  <2>2. o \in Transports(q) /\ q[o].kernel = k
    BY <2>1 DEF ImportsOf, Transports, q
  <2>3. q[o] = c /\ c \in Carriers(k)
    <3>1. q[o] \in ToSet(q) /\ q[o].type = "import"
      BY <2>2, QueuedIn, Zenon
    <3>2. PICK e : e = q[o]
      OBVIOUS
    <3>3. e \in ToSet(EventQueue(t)) /\ e.type = "import" /\ k = e.kernel
      BY <2>2, <3>1, <3>2 DEF q
    <3>4. e = c /\ e \in Carriers(k)
      BY <3>3, ImportIsCarrier, SMTT(30)
    <3> QED
      BY <3>2, <3>4
  <2> HIDE DEF c
  <2>4. c.lqueue \in Seq(Plain({k})) /\ c.pqueue \in Seq(Plain({k}))
    BY <2>3 DEF Carriers
  <2>5. ASSUME NEW r, r = c.lqueue \/ r = c.pqueue
        PROVE  IsFiniteSet(Here(r, n)) /\ Cardinality(Here(r, n)) = Times(r, k, n)
    <3>1. r \in Seq(Plain({k}))
      BY <2>4, <2>5
    <3>2. r = q[o].lqueue \/ r = q[o].pqueue
      BY <2>3, <2>5
    <3>3. ASSUME NEW e \in ToSet(r), e.type = "msg", e.msg = n PROVE e = Msg(k, n)
      BY <1>7, <2>2, <3>2, <3>3, Zenon
    <3> QED
      BY <3>1, <3>3, HereCount, Zenon
  <2>6. InLocal(q, n) = {o} \X Here(c.lqueue, n)
    <3>1. \A i \in Transports(q) : Here(q[i].lqueue, n) # {} => i = o
      BY <1>8, <2>1, Zenon
    <3> QED
      BY <2>2, <2>3, <3>1 DEF InLocal
  <2>7. InShared(q, n) = {o} \X Here(c.pqueue, n)
    <3>1. \A i \in Transports(q) : Here(q[i].pqueue, n) # {} => i = o
      BY <1>8, <2>1, Zenon
    <3> QED
      BY <2>2, <2>3, <3>1 DEF InShared
  <2>8. /\ Cardinality(InLocal(q, n)) = Times(c.lqueue, k, n)
        /\ Cardinality(InShared(q, n)) = Times(c.pqueue, k, n)
    <3> DEFINE A == Here(c.lqueue, n)
               B == Here(c.pqueue, n)
    <3>1. /\ IsFiniteSet(A) /\ Cardinality(A) = Times(c.lqueue, k, n)
          /\ IsFiniteSet(B) /\ Cardinality(B) = Times(c.pqueue, k, n)
      BY <2>5
    <3> HIDE DEF A, B
    <3>2. Cardinality({o} \X A) = Cardinality(A) /\ Cardinality({o} \X B) = Cardinality(B)
      BY <3>1, OneRow, Zenon
    <3> QED
      BY <2>6, <2>7, <3>1, <3>2 DEF A, B
  <2>9. Carried(here, p, w, k, n) = Times(c.lqueue, k, n) + Times(c.pqueue, k, n)
    BY <1>10 DEF Carried, c
  <2>10. Times(c.lqueue, k, n) \in Nat /\ Times(c.pqueue, k, n) \in Nat
    BY <2>4, TimesFacts, Zenon
  <2>11. Times(l, k, n) \in Nat /\ Times(p, k, n) \in Nat /\ Times(w, k, n) \in Nat
    BY QueueParts, ShareType, TimesFacts, Zenon
  <2> HIDE DEF l, p, w
  <2> QED
    BY <1>3, <1>5, <1>6, <2>8, <2>9, <2>10, <2>11
<1> QED
  BY <1>9, <1>10

(* NothingLost: a message that was posted and is not dispatched is in one   *)
(* place, once, at the thread its kernel is assigned to, and a message that *)
(* was dispatched is nowhere.                                               *)
THEOREM AlwaysNothingLost == Spec => []NothingLost
<1>1. IndInv /\ DeliveryInv => NothingLost
  <2> SUFFICES ASSUME IndInv, DeliveryInv, NEW n \in DOMAIN posted, NEW t \in Threads
               PROVE  Copies(t, n) = (IF n \notin done /\ t = thread[posted[n].kernel] THEN 1 ELSE 0)
    BY DEF NothingLost
  <2>1. CASE n \notin done /\ t = thread[posted[n].kernel]
    <3>1. Copies(t, n) = 1
      BY <2>1, CopiesAtHome, Zenon
    <3> QED
      BY <2>1, <3>1
  <2>2. CASE ~ (n \notin done /\ t = thread[posted[n].kernel])
    <3>1. Copies(t, n) = 0
      BY <2>2, CopiesElsewhere, Zenon
    <3> QED
      BY <2>2, <3>1
  <2> QED
    BY <2>1, <2>2
<1> QED
  BY <1>1, DeliveryInductive, PTL

=============================================================================
