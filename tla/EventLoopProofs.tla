-------------------------- MODULE EventLoopProofs --------------------------
(***************************************************************************)
(* Proofs about EventLoop, for any number of messages, alarms, watchers    *)
(* and clock values: type correctness, that io_requests is the number of   *)
(* active watchers, that no wake-up is lost and that the notification pipe *)
(* is used soundly; then, about the queues, that an event is linked once,  *)
(* that messages do not overtake alarms that are due, and that to those    *)
(* who post to it the thread is a Mailbox.                                 *)
(***************************************************************************)
EXTENDS EventLoop, FilterProofs

-----------------------------------------------------------------------------
(***************************************************************************)
(* Facts about the operators of the community modules.                     *)
(***************************************************************************)

(* A nonempty set of natural numbers has its Min as its least element       *)
(* (FirstDue, SelectInSeq and BytesRead take a minimum).                    *)
LEMMA MinOfNaturals ==
    ASSUME NEW S \in SUBSET Nat, S # {}
    PROVE  Min(S) \in S /\ \A y \in S : Min(S) <= y
<1> DEFINE less == {p \in Nat \X Nat : p[1] < p[2]}
<1>1. IsWellFoundedOn(less, Nat)
  BY NatLessThanWellFounded, Zenon DEF OpToRel
<1> HIDE DEF less
<1>2. PICK x \in S : \A y \in S : <<y, x>> \notin less
  BY <1>1, WFMin, Zenon
<1>3. ASSUME NEW y \in S PROVE x <= y
  <2>1. <<y, x>> \in Nat \X Nat
    OBVIOUS
  <2>2. ~(<<y, x>>[1] < <<y, x>>[2])
    BY <1>2, <2>1, Zenon DEF less
  <2>3. QED
    BY <2>2, SMT
<1>4. QED
  BY <1>3, Zenon DEF Min

(* Taking an event out of a queue leaves a queue (the remove that           *)
(* delete_alarm, adjust_alarm and the watcher operations call).             *)
LEMMA RemoveFirstType ==
    ASSUME NEW S, NEW s \in Seq(S), NEW e
    PROVE  RemoveFirst(s, e) \in Seq(S)
<1>1. CASE \E i \in 1 .. Len(s) : s[i] = e
  <2> DEFINE places == {i \in 1 .. Len(s) : s[i] = e}
             place  == Min(places)
  <2>1. places \in SUBSET Nat /\ places # {}
    BY <1>1, SMT
  <2>2. place \in 1 .. Len(s) /\ Len(s) \in Nat
    BY <2>1, MinOfNaturals, LenProperties, Zenon
  <2>3. RemoveFirst(s, e) = SubSeq(s, 1, place - 1) \o SubSeq(s, place + 1, Len(s))
    BY <1>1, <2>1, Zenon DEF RemoveFirst, RemoveAt, SelectInSeq
  <2> HIDE DEF place
  <2>4. /\ \A i \in 1 .. place - 1 : s[i] \in S
        /\ \A i \in place + 1 .. Len(s) : s[i] \in S
    BY <2>2, ElementOfSeq, SMT
  <2>5. SubSeq(s, 1, place - 1) \in Seq(S) /\ SubSeq(s, place + 1, Len(s)) \in Seq(S)
    BY <2>2, <2>4, SubSeqProperties, SMT
  <2>6. QED
    BY <2>3, <2>5, ConcatProperties, Zenon
<1>2. CASE ~ \E i \in 1 .. Len(s) : s[i] = e
  BY <1>2, Zenon DEF RemoveFirst
<1>3. QED
  BY <1>1, <1>2

(* The enumerations of a finite set are sequences of its elements.          *)
LEMMA SetToSeqsType ==
    ASSUME NEW T, NEW S \in SUBSET T, IsFiniteSet(S), NEW q \in SetToSeqs(S)
    PROVE  q \in Seq(T)
<1>1. q \in [1 .. Cardinality(S) -> S] /\ Cardinality(S) \in Nat
  BY FS_CardinalityType, Zenon DEF SetToSeqs
<1>2. q \in [1 .. Cardinality(S) -> T]
  BY <1>1
<1>3. QED
  BY <1>1, <1>2, SeqDef
-----------------------------------------------------------------------------
(***************************************************************************)
(* The parts of a step that need more than the shape of the state.         *)
(***************************************************************************)

(* Expired alarms are queued as a sequence of alarms.                       *)
LEMMA ExpiredInOrderType ==
    ASSUME TypeOK, NEW q \in ExpiredInOrder
    PROVE  q \in Seq(Events)
<1>1. Expired \in SUBSET Alarms
  BY DEF Expired, TypeOK
<1>2. IsFiniteSet(Expired)
  BY <1>1, EventLoopAssumption, FS_Subset DEF EventLoopAssumption
<1>3. q \in Seq(Alarms)
  BY <1>1, <1>2, SetToSeqsType, Zenon DEF ExpiredInOrder
<1>4. QED
  BY <1>3, SeqMonotonic DEF Events

(* The deadline handed to _select_io is a time, or there is none.           *)
LEMMA FirstDueType ==
    ASSUME TypeOK
    PROVE  FirstDue \in Time \cup {NoDue}
<1>1. CASE dsa_map = {}
  BY <1>1 DEF FirstDue
<1>2. CASE dsa_map # {}
  <2> DEFINE dues == {time_due[a] : a \in dsa_map}
  <2>1. dues \in SUBSET Time /\ dues # {}
    BY <1>2 DEF TypeOK
  <2>2. Time \in SUBSET Nat
    BY EventLoopAssumption DEF EventLoopAssumption, Time
  <2>3. Min(dues) \in Time
    BY <2>1, <2>2, MinOfNaturals, Zenon
  <2>4. QED
    BY <1>2, <2>3, Zenon DEF FirstDue
<1>3. QED
  BY <1>1, <1>2

(* The active watchers can be counted.                                      *)
LEMMA ActiveFinite == IsFiniteSet(Active) /\ Cardinality(Active) \in Nat
<1>1. Active \in SUBSET Watchers
  BY DEF Active
<1>2. IsFiniteSet(Active)
  BY <1>1, EventLoopAssumption, FS_Subset DEF EventLoopAssumption
<1>3. QED
  BY <1>2, FS_CardinalityType

(* Gathering what is pending and what is due leaves a queue of events.      *)
LEMMA GatherType ==
    ASSUME TypeOK, NEW more \in Seq(Events), Gather(more)
    PROVE  /\ pqueue' \in Seq(Events)
           /\ dsa_map' \in SUBSET Alarms
<1>1. pqueue \o pending \in Seq(Events)
  BY SeqMonotonic, ConcatProperties DEF TypeOK, Events
<1>2. CASE PastDue
  <2>1. PICK expired \in ExpiredInOrder : pqueue' = pqueue \o pending \o expired \o more
    BY <1>2, Zenon DEF Gather
  <2>2. expired \in Seq(Events)
    BY ExpiredInOrderType
  <2>3. (pqueue \o pending) \o expired \in Seq(Events)
    BY <1>1, <2>2, ConcatProperties
  <2>4. pqueue' \in Seq(Events)
    BY <2>1, <2>3, ConcatProperties
  <2>5. dsa_map' \in SUBSET Alarms
    BY <1>2 DEF Gather, TypeOK
  <2>6. QED
    BY <2>4, <2>5
<1>3. CASE ~PastDue
  <2>1. pqueue' \in Seq(Events)
    BY <1>1, <1>3, ConcatProperties DEF Gather
  <2>2. QED
    BY <1>3, <2>1 DEF Gather, TypeOK
<1>4. QED
  BY <1>2, <1>3
-----------------------------------------------------------------------------
(***************************************************************************)
(* io_requests.                                                            *)
(***************************************************************************)

(* A watcher that becomes active, or ceases to be, changes the count of the *)
(* active watchers by one.                                                  *)
LEMMA ActiveChanges ==
    ASSUME TypeOK, NEW w \in Watchers, NEW how \in {"none", "active", "paused"},
           watch' = [watch EXCEPT ![w] = how]
    PROVE  Cardinality(Active') = IF watch[w] = "active"
                                  THEN IF how = "active" THEN Cardinality(Active)
                                                         ELSE Cardinality(Active) - 1
                                  ELSE IF how = "active" THEN Cardinality(Active) + 1
                                                         ELSE Cardinality(Active)
<1>1. w \in Active <=> watch[w] = "active"
  BY DEF Active
<1>2. CASE how = "active"
  <2>1. Active' = Active \cup {w}
    BY <1>2 DEF Active, TypeOK
  <2>2. Cardinality(Active \cup {w}) =
          IF w \in Active THEN Cardinality(Active) ELSE Cardinality(Active) + 1
    BY ActiveFinite, FS_AddElement, Zenon
  <2>3. QED
    BY <1>1, <1>2, <2>1, <2>2, Zenon
<1>3. CASE how # "active"
  <2>1. Active' = Active \ {w}
    BY <1>3 DEF Active, TypeOK
  <2>2. Cardinality(Active \ {w}) =
          IF w \in Active THEN Cardinality(Active) - 1 ELSE Cardinality(Active)
    BY ActiveFinite, FS_RemoveElement, Zenon
  <2>3. QED
    BY <1>1, <1>3, <2>1, <2>2, Zenon
<1>4. QED
  BY <1>2, <1>3

(* Every step keeps io_requests equal to the number of active watchers.     *)
LEMMA IoRequestsStep ==
    ASSUME TypeOK, IoRequestsExact, [Next]_vars
    PROVE  IoRequestsExact'
<1> USE DEF IoRequestsExact
<1>1. ASSUME NEW w \in Watchers, CreateWatcher(w)
      PROVE  IoRequestsExact'
  BY <1>1, ActiveChanges DEF CreateWatcher, CountedUp
<1>2. ASSUME NEW w \in Watchers, NEW how \in {"none", "paused"}, StopWatcher(w, how)
      PROVE  IoRequestsExact'
  BY <1>2, ActiveChanges DEF StopWatcher, CountedDown
<1>3. ASSUME NEW w \in Watchers, ResumeWatcher(w)
      PROVE  IoRequestsExact'
  BY <1>3, ActiveChanges DEF ResumeWatcher, CountedUp
<1>4. ASSUME UNCHANGED <<io_requests, watch>>
      PROVE  IoRequestsExact'
  BY <1>4 DEF Active
<1>5. ASSUME NEW m \in Msgs, Post(m) \/ PostLocal(m)
      PROVE  UNCHANGED <<io_requests, watch>>
  BY <1>5 DEF Post, PostLocal, shared
<1>6. ASSUME NEW a \in Alarms, NEW due \in Time,
             CreateAlarm(a, due) \/ AdjustAlarm(a, due)
      PROVE  UNCHANGED <<io_requests, watch>>
  BY <1>6 DEF CreateAlarm, AdjustAlarm, shared
<1>7. ASSUME TakeLocal \/ TakeQueued \/ HandlerReturn \/ ConsumeInput \/ Tick
      PROVE  UNCHANGED <<io_requests, watch>>
  BY <1>7 DEF TakeLocal, TakeQueued, HandlerReturn, ConsumeInput, Tick, shared
<1>8. ASSUME CollectPending \/ StartCondWait \/ StartSelect \/ CondWake
      PROVE  UNCHANGED <<io_requests, watch>>
  BY <1>8 DEF CollectPending, StartCondWait, StartSelect, CondWake, shared
<1>9. ASSUME SelectReturns \/ ReadInterrupted \/ SelectUpdate
      PROVE  UNCHANGED <<io_requests, watch>>
  BY <1>9 DEF SelectReturns, ReadInterrupted, SelectUpdate, shared
<1>10. ASSUME NEW w \in Watchers, BecomeReady(w)
       PROVE  UNCHANGED <<io_requests, watch>>
  BY <1>10 DEF BecomeReady, shared
<1>11. CASE UNCHANGED vars
  BY <1>4, <1>11 DEF vars, shared
<1>12. ASSUME NEW a \in Alarms, DeleteAlarm(a)
       PROVE  UNCHANGED <<io_requests, watch>>
  BY <1>12 DEF DeleteAlarm, shared
<1>13. QED
  BY <1>1, <1>2, <1>3, <1>4, <1>5, <1>6, <1>7, <1>8, <1>9, <1>10, <1>11, <1>12, Zenon
     DEF Next, Handler, Loop, Environment
-----------------------------------------------------------------------------
(***************************************************************************)
(* Waking the thread.                                                      *)
(***************************************************************************)

(* Posting: the first pending message wakes a waiting thread, a later one   *)
(* finds it woken.                                                          *)
LEMMA PostKeepsWakeupInv ==
    ASSUME TypeOK, WakeupInv, NEW m \in Msgs, Post(m)
    PROVE  WakeupInv'
<1>1. /\ pending' # <<>>
      /\ pending = <<>> => Len(pending') = 1
  BY DEF Post, TypeOK
<1>2. UNCHANGED <<state, io_requests, pipe_open, pc, lqueue, pqueue, isset>>
  BY DEF Post, polling
<1>3. CASE state = "WAIT" /\ Len(pending') = 1
  <2>1. Wakeup
    BY <1>3 DEF Post, WakeupIfFirst
  <2>2. CASE pc = "cond"
    <3>1. signalled' /\ UNCHANGED <<pipe_bytes, msgpipe_flag>>
      BY <2>1, <2>2, Zenon DEF Wakeup, Polls, WakeupInv
    <3>2. QED
      BY <1>2, <2>2, <3>1 DEF WakeupInv
  <2>3. CASE pc \in {"select", "selected"}
    <3>1. IF msgpipe_flag = 0
          THEN pipe_bytes' = pipe_bytes + 1 /\ msgpipe_flag' = 1
          ELSE UNCHANGED <<pipe_bytes, msgpipe_flag>>
      BY <2>1, <2>3 DEF Wakeup, Polls, ByteNeeded, WakeupInv
    <3>2. QED
      BY <1>2, <2>3, <3>1 DEF WakeupInv
  <2>4. QED
    BY <1>3, <2>2, <2>3 DEF WakeupInv, TypeOK
<1>4. CASE ~(state = "WAIT" /\ Len(pending') = 1)
  <2>1. UNCHANGED wakeup
    BY <1>4, Zenon DEF Post, WakeupIfFirst
  <2>2. QED
    BY <1>1, <1>2, <1>4, <2>1 DEF WakeupInv, wakeup
<1>5. QED
  BY <1>3, <1>4

(* The guarded update of _select_io: the byte is read together with what it *)
(* announced.                                                               *)
LEMMA SelectUpdateKeepsWakeupInv ==
    ASSUME TypeOK, WakeupInv, SelectUpdate
    PROVE  WakeupInv'
<1> DEFINE fds  == isset \ {MsgPipe}
           flag == IF MsgPipe \in isset THEN 0 ELSE msgpipe_flag
<1>1. /\ pc = "selected"
      /\ pipe_bytes' = pipe_bytes - BytesRead
      /\ msgpipe_flag' = IF fds # {} /\ flag # 0 THEN flag + 1 ELSE flag
      /\ pending' = <<>>
      /\ UNCHANGED <<io_requests, pipe_open, lqueue, isset>>
      /\ IF pqueue' # <<>>
         THEN state' = "BUSY" /\ pc' = "taking"
         ELSE pc' = "select" /\ UNCHANGED state
  BY DEF SelectUpdate, Gather, polling
<1>2. msgpipe_flag' \in 0 .. 2 /\ pipe_bytes' = (IF msgpipe_flag' = 0 THEN 0 ELSE 1)
  <2>1. CASE MsgPipe \in isset
    <3>1. pipe_bytes = 1
      BY <1>1, <2>1 DEF WakeupInv
    <3>2. Min({pipe_bytes, 8}) = 1
      BY <3>1, MinOfNaturals
    <3>3. QED
      BY <1>1, <2>1, <3>1, <3>2 DEF BytesRead
  <2>2. CASE MsgPipe \notin isset
    BY <1>1, <2>2 DEF BytesRead, WakeupInv
  <2>3. QED
    BY <2>1, <2>2
<1>3. QED
  BY <1>1, <1>2 DEF WakeupInv

(* Every step keeps the invariant.                                          *)
LEMMA WakeupStep ==
    ASSUME TypeOK, WakeupInv, [Next]_vars
    PROVE  WakeupInv'
<1>1. ASSUME pc = "handling", UNCHANGED <<state, pc, msgpipe_flag, pipe_bytes>>
      PROVE  WakeupInv'
  BY <1>1 DEF WakeupInv
<1>2. ASSUME NEW m \in Msgs, PostLocal(m)
      PROVE  WakeupInv'
  BY <1>1, <1>2 DEF PostLocal, shared
<1>3. ASSUME NEW a \in Alarms, NEW due \in Time, CreateAlarm(a, due) \/ AdjustAlarm(a, due)
      PROVE  WakeupInv'
  BY <1>1, <1>3 DEF CreateAlarm, AdjustAlarm, shared
<1>4. ASSUME NEW a \in Alarms, DeleteAlarm(a)
      PROVE  WakeupInv'
  BY <1>1, <1>4 DEF DeleteAlarm, shared
<1>5. ASSUME NEW w \in Watchers, CreateWatcher(w) \/ ResumeWatcher(w)
      PROVE  WakeupInv'
  BY <1>1, <1>5 DEF CreateWatcher, ResumeWatcher
<1>6. ASSUME NEW w \in Watchers, NEW how, StopWatcher(w, how)
      PROVE  WakeupInv'
  BY <1>1, <1>6 DEF StopWatcher
<1>7. CASE ConsumeInput
  BY <1>1, <1>7 DEF ConsumeInput, shared
<1>8. CASE TakeLocal \/ TakeQueued \/ HandlerReturn
  BY <1>8 DEF TakeLocal, TakeQueued, HandlerReturn, shared, polling, WakeupInv
<1>9. CASE CollectPending
  BY <1>9 DEF CollectPending, wakeup, NothingToTake, WakeupInv
<1>10. CASE StartCondWait
  BY <1>10 DEF StartCondWait, NothingToTake, WakeupInv
<1>11. CASE StartSelect
  BY <1>11 DEF StartSelect, NothingToTake, wakeup, WakeupInv
<1>12. CASE CondWake
  BY <1>12 DEF CondWake, polling, WakeupInv
<1>13. CASE SelectReturns
  <2>1. MsgPipe \in Polled <=> pipe_bytes > 0
    BY EventLoopAssumption DEF EventLoopAssumption, Polled, Active
  <2>2. IF MsgPipe \in isset' THEN pipe_bytes = 1 ELSE msgpipe_flag = 0
    BY <1>13, <2>1 DEF SelectReturns, WakeupInv
  <2>3. QED
    BY <1>13, <2>2 DEF SelectReturns, shared, WakeupInv
<1>14. CASE ReadInterrupted
  BY <1>14 DEF ReadInterrupted, Gather, wakeup, polling, WakeupInv
<1>15. CASE SelectUpdate
  BY <1>15, SelectUpdateKeepsWakeupInv
<1>16. ASSUME NEW m \in Msgs, Post(m)
       PROVE  WakeupInv'
  BY <1>16, PostKeepsWakeupInv
<1>17. CASE Tick
  BY <1>17 DEF Tick, shared, polling, WakeupInv
<1>18. ASSUME NEW w \in Watchers, BecomeReady(w)
       PROVE  WakeupInv'
  BY <1>18 DEF BecomeReady, shared, polling, WakeupInv
<1>19. CASE UNCHANGED vars
  BY <1>19 DEF vars, shared, polling, WakeupInv
<1>20. QED
  BY <1>2, <1>3, <1>4, <1>5, <1>6, <1>7, <1>8, <1>9, <1>10, <1>11, <1>12, <1>13, <1>14,
     <1>15, <1>16, <1>17, <1>18, <1>19, Zenon DEF Next, Handler, Loop, Environment
-----------------------------------------------------------------------------
(***************************************************************************)
(* Types.                                                                  *)
(***************************************************************************)

(* Posting keeps the types.                                                 *)
LEMMA PostKeepsTypes ==
    ASSUME TypeOK, WakeupInv', NEW m \in Msgs, Post(m)
    PROVE  TypeOK'
<1>1. msgpipe_flag' \in Nat /\ pipe_bytes' \in Nat
  BY DEF WakeupInv
<1>2. UNCHANGED signalled \/ signalled' = (signalled \/ pc = "cond")
  BY Zenon DEF Post, WakeupIfFirst, Wakeup, wakeup
<1>3. signalled' \in BOOLEAN
  BY <1>2, Zenon DEF TypeOK
<1>4. pending' \in Seq(Msgs)
  BY DEF Post, TypeOK
<1>5. QED
  BY <1>1, <1>3, <1>4 DEF Post, polling, alarm, TypeOK

(* Collecting what is pending, or waking from the condition variable, keeps *)
(* the types.                                                               *)
LEMMA CollectKeepsTypes ==
    ASSUME TypeOK, CollectPending \/ CondWake
    PROVE  TypeOK'
<1>1. pending \in Seq(Events) /\ pqueue \in Seq(Events)
  BY SeqMonotonic DEF TypeOK, Events
<1>2. pqueue' \in Seq(Events)
  <2>1. CASE CollectPending
    <3>1. PICK expired \in ExpiredInOrder : pqueue' = expired \o pending
      BY <2>1, Zenon DEF CollectPending, Collected
    <3>2. QED
      BY <1>1, <3>1, ExpiredInOrderType, ConcatProperties
  <2>2. CASE CondWake
    <3>1. PICK expired \in ExpiredInOrder : pqueue' = pqueue \o pending \o expired
      BY <2>2, Zenon DEF CondWake
    <3>2. pqueue \o pending \in Seq(Events)
      BY <1>1, ConcatProperties
    <3>3. QED
      BY <3>1, <3>2, ExpiredInOrderType, ConcatProperties
  <2>3. QED
    BY <2>1, <2>2
<1>3. pending' \in Seq(Msgs)
  BY EmptySeq DEF CollectPending, CondWake
<1>4. CASE CollectPending
  BY <1>2, <1>3, <1>4 DEF CollectPending, wakeup, polling, world, TypeOK
<1>5. CASE CondWake
  BY <1>2, <1>3, <1>5 DEF CondWake, polling, world, TypeOK
<1>6. QED
  BY <1>4, <1>5

(* Updating after select(), completely or up to the interrupted read, keeps *)
(* the types.                                                               *)
LEMMA SelectUpdateKeepsTypes ==
    ASSUME TypeOK, WakeupInv', ReadInterrupted \/ SelectUpdate
    PROVE  TypeOK'
<1>1. PICK more \in Seq(Events) : Gather(more)
  <2>1. CASE ReadInterrupted
    BY <2>1, EmptySeq, Zenon DEF ReadInterrupted
  <2>2. CASE SelectUpdate
    <3> DEFINE fds == (isset \ {MsgPipe}) \cap Active
    <3>1. PICK evios \in SetToSeqs(fds) : Gather(evios)
      BY <2>2, Zenon DEF SelectUpdate
    <3>2. IsFiniteSet(fds) /\ fds \in SUBSET Events
      BY ActiveFinite, FS_Subset DEF Active, Events
    <3>3. evios \in Seq(Events)
      BY <3>1, <3>2, SetToSeqsType
    <3>4. QED
      BY <3>1, <3>3
  <2>3. QED
    BY <2>1, <2>2
<1>2. pqueue' \in Seq(Events) /\ dsa_map' \in SUBSET Alarms
  BY <1>1, GatherType
<1>3. /\ pending' \in Seq(Msgs)
      /\ timestamp' = now
      /\ UNCHANGED <<alarms, time_due>>
  BY <1>1, EmptySeq DEF Gather
<1>4. msgpipe_flag' \in Nat /\ pipe_bytes' \in Nat
  BY DEF WakeupInv
<1>5. CASE ReadInterrupted
  BY <1>2, <1>3, <1>4, <1>5 DEF ReadInterrupted, wakeup, polling, world, TypeOK
<1>6. CASE SelectUpdate
  BY <1>2, <1>3, <1>4, <1>6 DEF SelectUpdate, polling, world, TypeOK
<1>7. QED
  BY <1>5, <1>6

(* Every step keeps the types.                                              *)
LEMMA TypeStep ==
    ASSUME TypeOK, IoRequestsExact', WakeupInv', [Next]_vars
    PROVE  TypeOK'
<1>1. io_requests' \in Nat
  <2>1. Active' \in SUBSET Watchers
    BY DEF Active
  <2>2. IsFiniteSet(Active')
    BY <2>1, EventLoopAssumption, FS_Subset DEF EventLoopAssumption
  <2>3. QED
    BY <2>2, FS_CardinalityType DEF IoRequestsExact
<1>2. ASSUME NEW m \in Msgs, PostLocal(m)
      PROVE  TypeOK'
  BY <1>2 DEF PostLocal, LocalLast, shared, polling, alarm, TypeOK
<1>3. ASSUME NEW a \in Alarms, NEW due \in Time, CreateAlarm(a, due)
      PROVE  TypeOK'
  BY <1>3 DEF CreateAlarm, shared, polling, world, TypeOK
<1>4. ASSUME NEW a \in Alarms, NEW due \in Time, AdjustAlarm(a, due)
      PROVE  TypeOK'
  <2>1. pqueue' \in Seq(Events)
    BY <1>4, RemoveFirstType DEF AdjustAlarm, Requeued, TypeOK
  <2>2. QED
    BY <1>4, <2>1 DEF AdjustAlarm, shared, polling, world, TypeOK
<1>5. ASSUME NEW a \in Alarms, DeleteAlarm(a)
      PROVE  TypeOK'
  <2>1. pqueue' \in Seq(Events)
    BY <1>5, RemoveFirstType DEF DeleteAlarm, TypeOK
  <2>2. QED
    BY <1>5, <2>1 DEF DeleteAlarm, shared, polling, world, TypeOK
<1>6. ASSUME NEW w \in Watchers, CreateWatcher(w) \/ ResumeWatcher(w)
      PROVE  TypeOK'
  BY <1>1, <1>6 DEF CreateWatcher, ResumeWatcher, polling, alarm, world, TypeOK
<1>7. ASSUME NEW w \in Watchers, NEW how \in {"none", "paused"}, StopWatcher(w, how)
      PROVE  TypeOK'
  <2>1. pqueue' \in Seq(Events)
    BY <1>7, RemoveFirstType DEF StopWatcher, TypeOK
  <2>2. QED
    BY <1>1, <1>7, <2>1 DEF StopWatcher, polling, alarm, world, TypeOK
<1>8. CASE ConsumeInput
  BY <1>8 DEF ConsumeInput, shared, polling, alarm, TypeOK
<1>9. CASE TakeLocal
  BY <1>9, HeadTailProperties DEF TakeLocal, shared, polling, alarm, world, Events, TypeOK
<1>10. CASE TakeQueued
  BY <1>10, HeadTailProperties DEF TakeQueued, shared, polling, alarm, world, TypeOK
<1>11. CASE HandlerReturn
  BY <1>11 DEF HandlerReturn, shared, polling, world, TypeOK
<1>12. CASE CollectPending \/ CondWake
  BY <1>12, CollectKeepsTypes
<1>13. CASE StartCondWait
  BY <1>13 DEF StartCondWait, polling, alarm, world, TypeOK
<1>14. CASE StartSelect
  BY <1>14, FirstDueType DEF StartSelect, wakeup, alarm, world, TypeOK
<1>15. CASE SelectReturns
  BY <1>15 DEF SelectReturns, Polled, Active, shared, alarm, world, TypeOK
<1>16. CASE ReadInterrupted \/ SelectUpdate
  BY <1>16, SelectUpdateKeepsTypes
<1>17. ASSUME NEW m \in Msgs, Post(m)
       PROVE  TypeOK'
  BY <1>17, PostKeepsTypes
<1>18. CASE Tick
  BY <1>18, EventLoopAssumption
     DEF Tick, Time, EventLoopAssumption, shared, polling, alarm, TypeOK
<1>19. ASSUME NEW w \in Watchers, BecomeReady(w)
       PROVE  TypeOK'
  BY <1>19 DEF BecomeReady, shared, polling, alarm, TypeOK
<1>20. CASE UNCHANGED vars
  BY <1>20 DEF vars, shared, polling, alarm, world, TypeOK
<1>21. QED
  BY <1>2, <1>3, <1>4, <1>5, <1>6, <1>7, <1>8, <1>9, <1>10, <1>11, <1>12, <1>13, <1>14,
     <1>15, <1>16, <1>17, <1>18, <1>19, <1>20, Zenon DEF Next, Handler, Loop, Environment
-----------------------------------------------------------------------------
(***************************************************************************)
(* The theorems.                                                           *)
(***************************************************************************)
IndInv == TypeOK /\ IoRequestsExact /\ WakeupInv

(* IndInv is inductive.                                                     *)
THEOREM Inductive == Spec => []IndInv
<1>1. Init => IndInv
  <2>1. ASSUME Init PROVE IoRequestsExact
    <3>1. Active = {}
      BY <2>1 DEF Init, Active
    <3>2. QED
      BY <2>1, <3>1, FS_EmptySet DEF Init, IoRequestsExact
  <2>2. ASSUME Init PROVE TypeOK
    <3>1. 0 \in Time
      BY EventLoopAssumption DEF EventLoopAssumption, Time
    <3>2. \A S : <<>> \in Seq(S)
      BY EmptySeq
    <3>3. QED
      BY <2>2, <3>1, <3>2 DEF Init, TypeOK
  <2>3. ASSUME Init PROVE WakeupInv
    BY <2>3 DEF Init, WakeupInv
  <2>4. QED
    BY <2>1, <2>2, <2>3 DEF IndInv
<1>2. IndInv /\ [Next]_vars => IndInv'
  BY IoRequestsStep, WakeupStep, TypeStep DEF IndInv
<1>3. QED
  BY <1>1, <1>2, PTL DEF Spec

(* The thread's state stays within its types.                               *)
THEOREM TypeCorrect == Spec => []TypeOK
BY Inductive, PTL DEF IndInv

(* io_requests is the number of active watchers, whatever sequence of       *)
(* creations, deletions, pauses and resumptions handlers perform.           *)
THEOREM RequestsCounted == Spec => []IoRequestsExact
BY Inductive, PTL DEF IndInv

(* The waiting thread, io_requests and the pipe stay in step.               *)
THEOREM WakeupInvariant == Spec => []WakeupInv
BY Inductive, PTL DEF IndInv

(* A thread never waits with an event for it queued and no wake-up on its   *)
(* way, for any number of posting threads, messages, alarms and watchers.   *)
THEOREM NoWakeupLost == Spec => []NoLostWakeup
<1>1. IndInv => NoLostWakeup
  BY DEF IndInv, WakeupInv, TypeOK, NoLostWakeup
<1>2. QED
  BY <1>1, Inductive, PTL

(* The notification pipe never holds more than the one byte its flag stands *)
(* for: neither the abort nor the assertion of _select_io is reached.       *)
THEOREM PipeAlwaysSound == Spec => []PipeSound
<1>1. IndInv => PipeSound
  BY DEF IndInv, WakeupInv, TypeOK, PipeSound
<1>2. QED
  BY <1>1, Inductive, PTL
-----------------------------------------------------------------------------
(***************************************************************************)
(* Facts about queues.                                                     *)
(***************************************************************************)

(* An event that is unlinked leaves the events before and behind it.        *)
NotLinked(s, e) == RemoveFirst(s, e) = s /\ \A i \in 1 .. Len(s) : s[i] # e

Unlinked(S, s, e) ==
    /\ e \in S
    /\ \E u, v \in Seq(S) : s = u \o (<<e>> \o v) /\ RemoveFirst(s, e) = u \o v

LEMMA RemoveFirstShape ==
    ASSUME NEW S, NEW s \in Seq(S), NEW e
    PROVE  NotLinked(s, e) \/ Unlinked(S, s, e)
<1>1. CASE \E i \in 1 .. Len(s) : s[i] = e
  <2> DEFINE places == {i \in 1 .. Len(s) : s[i] = e}
             place  == Min(places)
             u      == SubSeq(s, 1, place - 1)
             v      == SubSeq(s, place + 1, Len(s))
  <2>1. places \in SUBSET Nat /\ places # {}
    BY <1>1, SMT
  <2>2. place \in 1 .. Len(s) /\ Len(s) \in Nat /\ s[place] = e
    BY <2>1, MinOfNaturals, LenProperties, Zenon
  <2>3. RemoveFirst(s, e) = u \o v
    BY <1>1, <2>1, Zenon DEF RemoveFirst, RemoveAt, SelectInSeq
  <2> HIDE DEF place
  <2>4. /\ \A i \in 1 .. place - 1 : s[i] \in S
        /\ \A i \in place + 1 .. Len(s) : s[i] \in S
    BY <2>2, ElementOfSeq, SMT
  <2>5. /\ u \in Seq(S) /\ Len(u) = place - 1 /\ \A i \in 1 .. place - 1 : u[i] = s[i]
        /\ v \in Seq(S) /\ Len(v) = Len(s) - place
        /\ \A i \in 1 .. Len(s) - place : v[i] = s[place + i]
    BY <2>2, <2>4, SubSeqProperties, SMT
  <2>6. e \in S
    BY <2>2, ElementOfSeq, SMT
  <2> HIDE DEF u, v
  <2>7. s = u \o (<<e>> \o v)
    <3> DEFINE t == <<e>> \o v
    <3>1. t \in Seq(S) /\ Len(t) = 1 + Len(v) /\ t[1] = e /\ \A i \in 1 .. Len(v) : t[i + 1] = v[i]
      BY <2>5, <2>6, SMT
    <3> HIDE DEF t
    <3>2. u \o t \in Seq(S) /\ Len(u \o t) = Len(s)
      <4>0. u \in Seq(S) /\ t \in Seq(S)
        BY <2>5, <3>1
      <4>1. u \o t \in Seq(S) /\ Len(u \o t) = Len(u) + Len(t)
        BY <4>0, ConcatProperties
      <4>2. Len(u) = place - 1 /\ Len(t) = 1 + (Len(s) - place) /\ Len(s) \in Nat /\ place \in Int
        BY <2>2, <2>5, <3>1
      <4>3. (place - 1) + (1 + (Len(s) - place)) = Len(s)
        BY <4>2, SMT
      <4>4. QED
        BY <4>1, <4>2, <4>3, Zenon
    <3>3. ASSUME NEW i \in 1 .. Len(s) PROVE (u \o t)[i] = s[i]
      <4> DEFINE r == u \o t
      <4>0. /\ i \in 1 .. Len(u) + Len(t)
            /\ r[i] = IF i <= Len(u) THEN u[i] ELSE t[i - Len(u)]
        <5>1. i \in 1 .. Len(u) + Len(t)
          BY <2>2, <2>5, <3>1, SMT
        <5>2. QED
          BY <2>5, <3>1, <5>1, ConcatProperties, Zenon
      <4> HIDE DEF r
      <4>1. CASE i < place
        BY <2>2, <2>5, <4>0, <4>1, SMT DEF r
      <4>2. CASE i = place
        <5>1. i > Len(u) /\ i - Len(u) = 1
          BY <2>2, <2>5, <4>2, SMT
        <5>2. r[i] = e
          BY <2>2, <2>5, <3>1, <4>0, <5>1, SMT
        <5>3. s[i] = e
          BY <2>2, <4>2
        <5>4. QED
          BY <5>2, <5>3, Zenon DEF r
      <4>3. CASE i > place
        <5>1. i - place \in 1 .. Len(v) /\ r[i] = t[(i - place) + 1]
          <6>1. i - Len(u) = (i - place) + 1 /\ i > Len(u) /\ i - place \in 1 .. Len(v)
            BY <2>2, <2>5, <4>3, SMT
          <6>2. QED
            BY <2>2, <2>5, <4>0, <6>1, SMT
        <5>2. t[(i - place) + 1] = v[i - place] /\ v[i - place] = s[place + (i - place)]
          BY <2>5, <3>1, <5>1, SMT
        <5>3. QED
          BY <2>2, <5>1, <5>2, SMT DEF r
      <4>4. i < place \/ i = place \/ i > place
        BY <2>2, SMT
      <4>5. QED
        BY <4>1, <4>2, <4>3, <4>4, Zenon
    <3>4. s = u \o t
      BY <3>2, <3>3, SeqEqual, Zenon
    <3>5. QED
      BY <3>4 DEF t
  <2>8. QED
    BY <2>3, <2>5, <2>6, <2>7, Zenon DEF Unlinked
<1>2. CASE ~ \E i \in 1 .. Len(s) : s[i] = e
  <2>1. RemoveFirst(s, e) = s
    BY <1>2, Zenon DEF RemoveFirst
  <2>2. QED
    BY <1>2, <2>1, Zenon DEF NotLinked
<1>3. QED
  BY <1>1, <1>2

(* Where the events of two queues in a row are.                             *)
LEMMA ConcatPlaces ==
    ASSUME NEW S, NEW s \in Seq(S), NEW t \in Seq(S)
    PROVE  /\ \A i \in 1 .. Len(s) : i \in 1 .. Len(s \o t) /\ (s \o t)[i] = s[i]
           /\ \A i \in 1 .. Len(t) :
                 Len(s) + i \in 1 .. Len(s \o t) /\ (s \o t)[Len(s) + i] = t[i]
           /\ \A i \in 1 .. Len(s \o t) :
                 i \notin 1 .. Len(s) =>
                    i - Len(s) \in 1 .. Len(t) /\ (s \o t)[i] = t[i - Len(s)]
  BY ConcatProperties, LenProperties, SMT

(* Nothing is twice in two queues in a row, if nothing is twice in either   *)
(* and they have nothing in common ...                                      *)
LEMMA ConcatInjective ==
    ASSUME NEW S, NEW s \in Seq(S), NEW t \in Seq(S),
           IsInjective(s), IsInjective(t), Range(s) \cap Range(t) = {}
    PROVE  IsInjective(s \o t)
<1> DEFINE c == s \o t
<1>1. \A i \in 1 .. Len(s) : c[i] = s[i]
  BY ConcatPlaces
<1>2. \A i \in 1 .. Len(c) : i \notin 1 .. Len(s) => i - Len(s) \in 1 .. Len(t) /\ c[i] = t[i - Len(s)]
  BY ConcatPlaces
<1>3. DOMAIN s = 1 .. Len(s) /\ DOMAIN t = 1 .. Len(t) /\ DOMAIN c = 1 .. Len(c)
  BY ConcatProperties, LenProperties
<1> HIDE DEF c
<1>4. ASSUME NEW i \in 1 .. Len(s), NEW j \in 1 .. Len(t) PROVE s[i] # t[j]
  BY <1>3 DEF Range
<1>5. ASSUME NEW i \in 1 .. Len(s), NEW j \in 1 .. Len(s), s[i] = s[j] PROVE i = j
  BY <1>3, <1>5, Zenon DEF IsInjective
<1>6. ASSUME NEW i \in 1 .. Len(t), NEW j \in 1 .. Len(t), t[i] = t[j] PROVE i = j
  BY <1>3, <1>6, Zenon DEF IsInjective
<1>7. ASSUME NEW i \in 1 .. Len(c), NEW j \in 1 .. Len(c), c[i] = c[j] PROVE i = j
  <2>1. CASE i \in 1 .. Len(s) /\ j \in 1 .. Len(s)
    <3>1. s[i] = s[j]
      BY <1>1, <1>7, <2>1, Zenon
    <3>2. QED
      BY <1>5, <2>1, <3>1, Zenon
  <2>2. CASE i \notin 1 .. Len(s) /\ j \notin 1 .. Len(s)
    <3>1. /\ i - Len(s) \in 1 .. Len(t) /\ c[i] = t[i - Len(s)]
          /\ j - Len(s) \in 1 .. Len(t) /\ c[j] = t[j - Len(s)]
      BY <1>2, <2>2, Zenon
    <3>2. i - Len(s) = j - Len(s)
      BY <1>6, <1>7, <3>1, Zenon
    <3>3. Len(s) \in Nat /\ i \in Int /\ j \in Int
      BY LenProperties
    <3>4. QED
      BY <3>2, <3>3, SMT
  <2>3. CASE i \in 1 .. Len(s) /\ j \notin 1 .. Len(s)
    <3>1. c[i] = s[i] /\ j - Len(s) \in 1 .. Len(t) /\ c[j] = t[j - Len(s)]
      BY <1>1, <1>2, <2>3, Zenon
    <3>2. QED
      BY <1>4, <1>7, <2>3, <3>1, Zenon
  <2>4. CASE i \notin 1 .. Len(s) /\ j \in 1 .. Len(s)
    <3>1. c[j] = s[j] /\ i - Len(s) \in 1 .. Len(t) /\ c[i] = t[i - Len(s)]
      BY <1>1, <1>2, <2>4, Zenon
    <3>2. QED
      BY <1>4, <1>7, <2>4, <3>1, Zenon
  <2>5. QED
    BY <2>1, <2>2, <2>3, <2>4, Zenon
<1>8. IsInjective(c)
  BY <1>3, <1>7, Zenon DEF IsInjective
<1>9. QED
  BY <1>8 DEF c

(* ... and only then.                                                       *)
LEMMA ConcatApart ==
    ASSUME NEW S, NEW s \in Seq(S), NEW t \in Seq(S), IsInjective(s \o t)
    PROVE  IsInjective(s) /\ IsInjective(t) /\ Range(s) \cap Range(t) = {}
<1> DEFINE c == s \o t
<1>1. \A i \in 1 .. Len(s) : i \in 1 .. Len(c) /\ c[i] = s[i]
  BY ConcatPlaces
<1>2. \A i \in 1 .. Len(t) : Len(s) + i \in 1 .. Len(c) /\ c[Len(s) + i] = t[i]
  BY ConcatPlaces
<1>3. DOMAIN s = 1 .. Len(s) /\ DOMAIN t = 1 .. Len(t) /\ DOMAIN c = 1 .. Len(c)
  BY ConcatProperties, LenProperties
<1>4. IsInjective(c)
  OBVIOUS
<1> HIDE DEF c
<1>5. \A i, j \in 1 .. Len(c) : c[i] = c[j] => i = j
  BY <1>3, <1>4, Zenon DEF IsInjective
<1>6. IsInjective(s)
  BY <1>1, <1>3, <1>5, Zenon DEF IsInjective
<1>7. Len(s) \in Nat
  BY LenProperties
<1>8. ASSUME NEW i \in 1 .. Len(t), NEW j \in 1 .. Len(t), t[i] = t[j] PROVE i = j
  <2>1. Len(s) + i \in 1 .. Len(c) /\ Len(s) + j \in 1 .. Len(c)
    BY <1>2, Zenon
  <2>2. c[Len(s) + i] = c[Len(s) + j]
    BY <1>2, <1>8, Zenon
  <2>3. Len(s) + i = Len(s) + j
    BY <1>5, <2>1, <2>2, Zenon
  <2>4. QED
    BY <1>7, <2>3, SMT
<1>9. ASSUME NEW i \in 1 .. Len(s), NEW j \in 1 .. Len(t), s[i] = t[j] PROVE FALSE
  <2>1. i \in 1 .. Len(c) /\ Len(s) + j \in 1 .. Len(c) /\ c[i] = s[i] /\ c[Len(s) + j] = t[j]
    BY <1>1, <1>2, Zenon
  <2>2. i = Len(s) + j
    BY <1>5, <1>9, <2>1, Zenon
  <2>3. QED
    BY <1>7, <2>2, SMT
<1>10. IsInjective(t)
  BY <1>3, <1>8, Zenon DEF IsInjective
<1>11. Range(s) \cap Range(t) = {}
  BY <1>3, <1>9, Zenon DEF Range
<1>12. QED
  BY <1>6, <1>10, <1>11

(* Unlinking keeps the order of the others; what was linked once is gone.   *)
LEMMA RemoveFirstLinks ==
    ASSUME NEW S, NEW s \in Seq(S), NEW e, IsInjective(s)
    PROVE  /\ IsInjective(RemoveFirst(s, e))
           /\ Range(RemoveFirst(s, e)) \subseteq Range(s) \ {e}
<1>1. CASE NotLinked(s, e)
  <2>1. DOMAIN s = 1 .. Len(s)
    BY LenProperties
  <2>2. QED
    BY <1>1, <2>1, Zenon DEF Range, NotLinked
<1>2. ASSUME e \in S,
             NEW u \in Seq(S), NEW v \in Seq(S),
             s = u \o (<<e>> \o v), RemoveFirst(s, e) = u \o v
      PROVE  /\ IsInjective(RemoveFirst(s, e))
             /\ Range(RemoveFirst(s, e)) \subseteq Range(s) \ {e}
  <2> DEFINE one == <<e>>
             t   == one \o v
  <2>1. one \in Seq(S) /\ Range(one) = {e}
    BY <1>2, SMT DEF Range
  <2> HIDE DEF one
  <2>2. t \in Seq(S) /\ Range(t) = {e} \cup Range(v)
    BY <2>1, ConcatProperties, RangeConcatenation
  <2>3. s = u \o t
    BY <1>2 DEF one
  <2>4. IsInjective(t) => IsInjective(v) /\ {e} \cap Range(v) = {}
    BY <2>1, ConcatApart, Zenon
  <2> HIDE DEF t
  <2>5. IsInjective(u \o t)
    BY <2>3
  <2>6. IsInjective(u) /\ IsInjective(t) /\ Range(u) \cap Range(t) = {}
    BY <2>2, <2>5, ConcatApart, Zenon
  <2>7. Range(u \o t) = Range(u) \cup Range(t) /\ Range(u \o v) = Range(u) \cup Range(v)
    BY <2>2, RangeConcatenation
  <2>8. Range(u \o v) \subseteq Range(s) \ {e}
    BY <2>2, <2>3, <2>4, <2>6, <2>7, Zenon
  <2>9. Range(u) \cap Range(v) = {} /\ IsInjective(v)
    BY <2>2, <2>4, <2>6, Zenon
  <2>10. IsInjective(u \o v)
    BY <2>6, <2>9, ConcatInjective, Zenon
  <2>11. QED
    BY <1>2, <2>8, <2>10, Zenon
<1>3. CASE Unlinked(S, s, e)
  <2>1. PICK u \in Seq(S), v \in Seq(S) : s = u \o (<<e>> \o v) /\ RemoveFirst(s, e) = u \o v
    BY <1>3, Zenon DEF Unlinked
  <2>2. e \in S
    BY <1>3, Zenon DEF Unlinked
  <2>3. QED
    BY <1>2, <2>1, <2>2, Zenon
<1>4. QED
  BY <1>1, <1>3, RemoveFirstShape, Zenon

(* Taking the first event.                                                  *)
LEMMA TailLinks ==
    ASSUME NEW S, NEW s \in Seq(S), s # <<>>
    PROVE  /\ s = <<Head(s)>> \o Tail(s)
           /\ Range(Tail(s)) \subseteq Range(s)
           /\ IsInjective(s) => IsInjective(Tail(s)) /\ Head(s) \notin Range(Tail(s))
<1> DEFINE one == <<Head(s)>>
           t   == Tail(s)
<1>1. /\ one \in Seq(S) /\ t \in Seq(S) /\ Range(one) = {Head(s)} /\ Len(one) = 1
      /\ Len(t) = Len(s) - 1 /\ \A i \in 1 .. Len(t) : t[i] = s[i + 1]
      /\ one[1] = s[1] /\ Len(s) \in Nat
  BY HeadTailProperties, LenProperties, SMT DEF Range
<1> HIDE DEF one, t
<1>2. s = one \o t
  BY HeadTailConcat DEF one, t
<1>3. /\ Range(s) = {Head(s)} \cup Range(t)
      /\ IsInjective(s) => IsInjective(t) /\ {Head(s)} \cap Range(t) = {}
  <2>1. one \in Seq(S) /\ t \in Seq(S) /\ Range(one) = {Head(s)}
    BY <1>1
  <2>2. Range(one \o t) = Range(one) \cup Range(t)
    BY <2>1, RangeConcatenation
  <2>3. IsInjective(one \o t) => IsInjective(t) /\ Range(one) \cap Range(t) = {}
    BY <2>1, ConcatApart, Zenon
  <2>4. QED
    BY <1>2, <2>1, <2>2, <2>3, Zenon
<1>4. /\ Range(t) \subseteq Range(s)
      /\ IsInjective(s) => IsInjective(t) /\ Head(s) \notin Range(t)
  BY <1>3, Zenon
<1>5. QED
  BY <1>2, <1>4, Zenon DEF one, t

(* Linking at the end.                                                      *)
LEMMA AppendLinks ==
    ASSUME NEW S, NEW s \in Seq(S), NEW e \in S
    PROVE  /\ Range(Append(s, e)) = Range(s) \cup {e}
           /\ IsInjective(s) /\ e \notin Range(s) => IsInjective(Append(s, e))
<1> DEFINE one == <<e>>
<1>1. one \in Seq(S) /\ Range(one) = {e} /\ IsInjective(one)
  BY SMT DEF Range, IsInjective
<1>2. Append(s, e) = s \o one
  OBVIOUS
<1> HIDE DEF one
<1>3. /\ Range(s \o one) = Range(s) \cup {e}
      /\ IsInjective(s) /\ Range(s) \cap {e} = {} => IsInjective(s \o one)
  <2>1. Range(s \o one) = Range(s) \cup {e}
    BY <1>1, RangeConcatenation
  <2>2. IsInjective(s) /\ Range(s) \cap {e} = {} => IsInjective(s \o one)
    BY <1>1, ConcatInjective, Zenon
  <2>3. QED
    BY <2>1, <2>2, Zenon
<1>4. e \notin Range(s) => Range(s) \cap {e} = {}
  OBVIOUS
<1>5. QED
  BY <1>2, <1>3, <1>4, Zenon

(* The enumerations of a finite set.                                        *)
LEMMA SetToSeqsLinks ==
    ASSUME NEW S, IsFiniteSet(S), NEW q \in SetToSeqs(S)
    PROVE  q \in Seq(S) /\ IsInjective(q) /\ Range(q) \subseteq S
<1>1. /\ q \in [1 .. Cardinality(S) -> S] /\ Cardinality(S) \in Nat
      /\ \A i, j \in 1 .. Cardinality(S) : i # j => q[i] # q[j]
  BY FS_CardinalityType, Zenon DEF SetToSeqs
<1>2. IsInjective(q) /\ Range(q) \subseteq S
  BY <1>1, Zenon DEF IsInjective, Range
<1>3. q \in Seq(S)
  BY <1>1, SeqDef
<1>4. QED
  BY <1>2, <1>3
-----------------------------------------------------------------------------
(***************************************************************************)
(* The queues after a step.                                                *)
(***************************************************************************)

(* Expired alarms are queued once each.                                     *)
LEMMA ExpiredLinks ==
    ASSUME TypeOK, NEW q \in ExpiredInOrder
    PROVE  q \in Seq(Alarms) /\ IsInjective(q) /\ Range(q) \subseteq Expired
<1>1. Expired \in SUBSET Alarms
  BY DEF Expired, TypeOK
<1>2. IsFiniteSet(Expired)
  BY <1>1, EventLoopAssumption, FS_Subset DEF EventLoopAssumption
<1>3. q \in Seq(Expired) /\ IsInjective(q) /\ Range(q) \subseteq Expired
  BY <1>2, SetToSeqsLinks, Zenon DEF ExpiredInOrder
<1>4. QED
  BY <1>1, <1>3, SeqMonotonic, Zenon

(* No alarm is due before the deadline _select_io is called with.           *)
LEMMA FirstDueBound ==
    ASSUME TypeOK, NEW a \in dsa_map
    PROVE  FirstDue <= time_due[a]
<1> DEFINE dues == {time_due[b] : b \in dsa_map}
<1>1. dues \in SUBSET Time /\ time_due[a] \in dues
  BY DEF TypeOK
<1>2. Time \in SUBSET Nat
  BY EventLoopAssumption DEF EventLoopAssumption, Time
<1>3. Min(dues) <= time_due[a]
  BY <1>1, <1>2, MinOfNaturals, Zenon
<1>4. QED
  BY <1>3, Zenon DEF FirstDue

(* Moving what is pending, the alarms in q and the watchers in w to the     *)
(* thread's queue (dequeue_event, _select_io).                              *)
LEMMA MovedLinks ==
    ASSUME TypeOK, QueueSound,
           NEW q \in Seq(Alarms), IsInjective(q), Range(q) \subseteq dsa_map,
           NEW w \in Seq(Watchers), IsInjective(w), Range(w) \cap Range(pqueue) = {}
    PROVE  /\ IsInjective(pqueue \o pending \o q \o w)
           /\ Range(pqueue \o pending \o q \o w) =
                 Range(pqueue) \cup Range(pending) \cup Range(q) \cup Range(w)
<1>1. /\ pqueue \in Seq(Events) /\ pending \in Seq(Events)
      /\ q \in Seq(Events) /\ w \in Seq(Events)
  BY SeqMonotonic DEF TypeOK, Events
<1>2. /\ Range(pending) \subseteq Msgs /\ Range(q) \subseteq Alarms
      /\ Range(w) \subseteq Watchers
  <2>1. \A S : \A r \in Seq(S) : Range(r) \subseteq S
    BY RangeOfSeq DEF Range
  <2>2. QED
    BY <2>1 DEF TypeOK
<1>3. Msgs \cap Alarms = {} /\ Msgs \cap Watchers = {} /\ Alarms \cap Watchers = {}
  BY EventLoopAssumption DEF EventLoopAssumption
<1>4. /\ IsInjective(pqueue) /\ IsInjective(pending)
      /\ Range(pqueue) \cap Range(pending) = {} /\ Range(pqueue) \cap Range(q) = {}
  BY <1>2 DEF QueueSound
<1> DEFINE one == pqueue \o pending
           two == one \o q
<1>5. one \in Seq(Events) /\ two \in Seq(Events)
  BY <1>1, ConcatProperties, Zenon
<1>6. Range(one) = Range(pqueue) \cup Range(pending) /\ IsInjective(one)
  <2>1. Range(pqueue \o pending) = Range(pqueue) \cup Range(pending)
    BY <1>1, RangeConcatenation
  <2>2. IsInjective(pqueue \o pending)
    BY <1>1, <1>4, ConcatInjective, Zenon
  <2>3. QED
    BY <2>1, <2>2
<1> HIDE DEF one
<1>7. Range(two) = Range(one) \cup Range(q) /\ IsInjective(two)
  <2>1. Range(one) \cap Range(q) = {}
    BY <1>2, <1>3, <1>4, <1>6, Zenon
  <2>2. Range(one \o q) = Range(one) \cup Range(q)
    BY <1>1, <1>5, RangeConcatenation
  <2>3. IsInjective(one \o q)
    BY <1>1, <1>5, <1>6, <2>1, ConcatInjective, Zenon
  <2>4. QED
    BY <2>2, <2>3, Zenon
<1> HIDE DEF two
<1>8. Range(two \o w) = Range(two) \cup Range(w) /\ IsInjective(two \o w)
  <2>1. Range(two) \cap Range(w) = {}
    BY <1>2, <1>3, <1>6, <1>7, Zenon
  <2>2. Range(two \o w) = Range(two) \cup Range(w)
    BY <1>1, <1>5, RangeConcatenation
  <2>3. IsInjective(two \o w)
    BY <1>1, <1>5, <1>7, <2>1, ConcatInjective, Zenon
  <2>4. QED
    BY <2>2, <2>3
<1>9. QED
  BY <1>6, <1>7, <1>8, Zenon DEF one, two

LEMMA MovedSound ==
    ASSUME TypeOK, QueueSound, current = None,
           NEW q \in Seq(Alarms), IsInjective(q), Range(q) \subseteq dsa_map,
           NEW w \in Seq(Watchers), IsInjective(w), Range(w) \subseteq Active,
           Range(w) \cap Range(pqueue) = {},
           pqueue' = pqueue \o pending \o q \o w, pending' = <<>>,
           dsa_map' \subseteq dsa_map \ Range(q),
           UNCHANGED <<alarms, time_due, watch, posted, current>>,
           pc' \in {"select", "selected"} =>
              pc \in {"select", "selected"} /\ select_due' = select_due /\ Range(w) = {}
    PROVE  QueueSound'
<1>1. /\ IsInjective(pqueue')
      /\ Range(pqueue') = Range(pqueue) \cup Range(pending) \cup Range(q) \cup Range(w)
  BY MovedLinks, Zenon
<1>2. /\ Range(pending) \subseteq Msgs /\ Range(q) \subseteq Alarms
      /\ Range(w) \subseteq Watchers
  BY RangeOfSeq DEF TypeOK
<1>3. Msgs \cap Alarms = {} /\ Msgs \cap Watchers = {} /\ Alarms \cap Watchers = {}
  BY EventLoopAssumption DEF EventLoopAssumption
<1>4. IsInjective(pending') /\ Range(pending') = {}
  BY DEF IsInjective, Range
<1>5. ASSUME NEW m \in Msgs \cap Range(pqueue') PROVE m \in posted' \ Range(pending')
  BY <1>1, <1>2, <1>3, <1>4, <1>5, Zenon DEF QueueSound
<1>6. ASSUME NEW a \in Alarms \cap Range(pqueue')
      PROVE  a \in alarms' \ (dsa_map' \cup {current'})
  <2>1. a \in Range(pqueue) \/ a \in Range(q)
    BY <1>1, <1>2, <1>3, <1>6, Zenon
  <2>2. a # None
    BY EventLoopAssumption DEF EventLoopAssumption, Events
  <2>3. QED
    BY <2>1, <2>2, Zenon DEF QueueSound
<1>7. ASSUME NEW v \in Watchers \cap Range(pqueue')
      PROVE  watch'[v] = "active" /\ pc' \notin {"select", "selected"}
  <2>1. v \in Range(pqueue) \/ v \in Range(w)
    BY <1>1, <1>2, <1>3, <1>7, Zenon
  <2>2. QED
    BY <2>1 DEF QueueSound, Active
<1>8. dsa_map' \subseteq alarms'
  BY Zenon DEF QueueSound
<1>9. pc' \in {"select", "selected"} => \A a \in dsa_map' : select_due' <= time_due'[a]
  BY Zenon DEF QueueSound
<1>10. QED
  BY <1>1, <1>4, <1>5, <1>6, <1>7, <1>8, <1>9, Zenon DEF QueueSound

(* The guarded update of _select_io, with the watchers it queues.           *)
LEMMA GatherSound ==
    ASSUME TypeOK, WakeupInv, QueueSound, pc = "selected",
           NEW w \in Seq(Watchers), IsInjective(w), Range(w) \subseteq Active, Gather(w),
           UNCHANGED <<watch, posted, current, select_due>>,
           pc' \in {"select", "selected"} => Range(w) = {}
    PROVE  QueueSound'
<1>1. current = None /\ Range(w) \cap Range(pqueue) = {}
  <2>1. Range(w) \subseteq Watchers
    BY RangeOfSeq
  <2>2. QED
    BY <2>1 DEF QueueSound
<1>2. Expired \subseteq dsa_map
  BY DEF Expired
<1>3. CASE PastDue
  <2>1. PICK q \in ExpiredInOrder : pqueue' = pqueue \o pending \o q \o w
    BY <1>3, Zenon DEF Gather
  <2>2. q \in Seq(Alarms) /\ IsInjective(q) /\ Range(q) \subseteq Expired
    BY <2>1, ExpiredLinks, Zenon
  <2>3. dsa_map' = dsa_map \ Expired /\ pending' = <<>> /\ UNCHANGED <<alarms, time_due>>
    BY <1>3, Zenon DEF Gather
  <2>4. dsa_map' \subseteq dsa_map \ Range(q) /\ Range(q) \subseteq dsa_map
    BY <1>2, <2>2, <2>3, Zenon
  <2>5. UNCHANGED <<alarms, time_due, watch, posted, current>>
    BY <2>3
  <2>6. QED
    BY <1>1, <2>1, <2>2, <2>3, <2>4, <2>5, MovedSound, Zenon
<1>4. CASE ~PastDue
  <2>1. /\ pqueue' = pqueue \o pending \o w /\ pending' = <<>>
        /\ UNCHANGED <<dsa_map, alarms, time_due>>
    BY <1>4, Zenon DEF Gather
  <2> DEFINE q == <<>>
  <2>2. q \in Seq(Alarms) /\ IsInjective(q) /\ Range(q) = {}
    BY DEF IsInjective, Range
  <2>3. pqueue' = pqueue \o pending \o q \o w
    <3>1. pqueue \o pending \in Seq(Events)
      BY SeqMonotonic, ConcatProperties DEF TypeOK, Events
    <3>2. (pqueue \o pending) \o <<>> = pqueue \o pending
      BY <3>1, ConcatEmptySeq, Zenon
    <3>3. QED
      BY <2>1, <3>2, Zenon DEF q
  <2> HIDE DEF q
  <2>4. dsa_map' \subseteq dsa_map \ Range(q) /\ Range(q) \subseteq dsa_map
    BY <2>1, <2>2, Zenon
  <2>5. UNCHANGED <<alarms, time_due, watch, posted, current>>
    BY <2>1
  <2>6. QED
    BY <1>1, <2>1, <2>2, <2>3, <2>4, <2>5, MovedSound, Zenon
<1>5. QED
  BY <1>3, <1>4

LEMMA SelectUpdateSound ==
    ASSUME TypeOK, WakeupInv, QueueSound, SelectUpdate
    PROVE  QueueSound'
<1>1. PICK evios \in SetToSeqs((isset \ {MsgPipe}) \cap Active) : Gather(evios)
  BY Zenon DEF SelectUpdate
<1> DEFINE found == (isset \ {MsgPipe}) \cap Active
<1>2. found \subseteq Active /\ IsFiniteSet(found) /\ found \subseteq Watchers
  BY EventLoopAssumption, FS_Subset DEF EventLoopAssumption, Active
<1>3. evios \in Seq(found) /\ IsInjective(evios) /\ Range(evios) \subseteq found
  BY <1>1, <1>2, SetToSeqsLinks, Zenon
<1> HIDE DEF found
<1>4. evios \in Seq(Watchers) /\ Range(evios) \subseteq Active
  BY <1>2, <1>3, SeqMonotonic, Zenon
<1>5. pc = "selected" /\ UNCHANGED <<watch, posted, current, select_due>>
  BY DEF SelectUpdate, polling, world
<1>6. pc' \in {"select", "selected"} => pqueue' = <<>>
  BY DEF SelectUpdate
<1>7. pqueue' = <<>> => Range(evios) = {}
  <2>1. \A S : \A r, t \in Seq(S) : r \o t = <<>> => t = <<>>
    <3> SUFFICES ASSUME NEW S, NEW r \in Seq(S), NEW t \in Seq(S), r \o t = <<>> PROVE t = <<>>
      OBVIOUS
    <3>1. Len(r) + Len(t) = 0 /\ Len(r) \in Nat /\ Len(t) \in Nat
      BY ConcatProperties, LenProperties, EmptySeq, SMT
    <3>2. Len(t) = 0
      BY <3>1, SMT
    <3>3. QED
      BY <3>2, EmptySeq
  <2>2. pqueue \o pending \in Seq(Events) /\ evios \in Seq(Events)
    BY <1>4, SeqMonotonic, ConcatProperties DEF TypeOK, Events
  <2>3. pqueue' = <<>> => evios = <<>>
    <3>1. CASE PastDue
      <4>1. PICK q \in ExpiredInOrder : pqueue' = pqueue \o pending \o q \o evios
        BY <1>1, <3>1, Zenon DEF Gather
      <4>2. q \in Seq(Events)
        BY ExpiredInOrderType
      <4>3. (pqueue \o pending) \o q \in Seq(Events)
        BY <2>2, <4>2, ConcatProperties
      <4>4. QED
        BY <2>1, <2>2, <4>1, <4>3, Zenon
    <3>2. CASE ~PastDue
      <4>1. pqueue' = pqueue \o pending \o evios
        BY <1>1, <3>2, Zenon DEF Gather
      <4>2. QED
        BY <2>1, <2>2, <4>1, Zenon
    <3>3. QED
      BY <3>1, <3>2
  <2>4. Range(<<>>) = {}
    BY DEF Range
  <2>5. QED
    BY <2>3, <2>4, Zenon
<1>8. QED
  BY <1>1, <1>3, <1>4, <1>5, <1>6, <1>7, GatherSound, Zenon

(* Waking from the condition variable, and finding messages pending.        *)
LEMMA CondWakeSound ==
    ASSUME TypeOK, WakeupInv, QueueSound, CondWake
    PROVE  QueueSound'
<1>1. PICK q \in ExpiredInOrder : pqueue' = pqueue \o pending \o q
  BY Zenon DEF CondWake
<1>2. q \in Seq(Alarms) /\ IsInjective(q) /\ Range(q) \subseteq Expired
  BY <1>1, ExpiredLinks, Zenon
<1>3. /\ pc = "cond" /\ pc' \in {"cond", "taking"}
      /\ dsa_map' = dsa_map \ Expired /\ pending' = <<>>
      /\ UNCHANGED <<alarms, time_due, watch, posted, current>>
  BY DEF CondWake, world
<1>4. current = None /\ Expired \subseteq dsa_map
  BY <1>3 DEF QueueSound, Expired
<1>5. dsa_map' \subseteq dsa_map \ Range(q) /\ Range(q) \subseteq dsa_map
  BY <1>2, <1>3, <1>4, Zenon
<1> DEFINE w == <<>>
<1>6. /\ w \in Seq(Watchers) /\ IsInjective(w) /\ Range(w) = {}
      /\ Range(w) \subseteq Active /\ Range(w) \cap Range(pqueue) = {}
  BY DEF IsInjective, Range
<1>7. pqueue' = pqueue \o pending \o q \o w
  <2>1. (pqueue \o pending) \o q \in Seq(Events)
    BY <1>2, SeqMonotonic, ConcatProperties DEF TypeOK, Events
  <2>2. ((pqueue \o pending) \o q) \o <<>> = (pqueue \o pending) \o q
    BY <2>1, ConcatEmptySeq, Zenon
  <2>3. QED
    BY <1>1, <2>2, Zenon DEF w
<1> HIDE DEF w
<1>8. pc' \notin {"select", "selected"}
  BY <1>3
<1>9. QED
  BY <1>2, <1>3, <1>4, <1>5, <1>6, <1>7, <1>8, MovedSound, Zenon

LEMMA CollectPendingSound ==
    ASSUME TypeOK, QueueSound, CollectPending
    PROVE  QueueSound'
<1>1. PICK q \in ExpiredInOrder : pqueue' = q \o pending
  BY Zenon DEF CollectPending, Collected
<1>2. q \in Seq(Alarms) /\ IsInjective(q) /\ Range(q) \subseteq Expired
  BY <1>1, ExpiredLinks, Zenon
<1>3. /\ pc = "taking" /\ pc' = "taking" /\ current = None
      /\ dsa_map' = dsa_map \ Expired /\ pending' = <<>>
      /\ UNCHANGED <<alarms, time_due, watch, posted, current>>
  BY DEF CollectPending, NothingToTake, QueueSound, alarm, world
<1>4. UNCHANGED posted
  BY <1>3
<1>5. /\ Range(pending) \subseteq Msgs /\ Range(q) \subseteq Alarms
      /\ Msgs \cap Alarms = {} /\ Msgs \cap Watchers = {} /\ Alarms \cap Watchers = {}
      /\ None \notin Alarms
  BY <1>2, RangeOfSeq, EventLoopAssumption DEF TypeOK, EventLoopAssumption, Events
<1>6. q \in Seq(Events) /\ pending \in Seq(Events)
  BY <1>2, SeqMonotonic DEF TypeOK, Events
<1>7. Range(pqueue') = Range(q) \cup Range(pending) /\ IsInjective(pqueue')
  <2>1. Range(q) \cap Range(pending) = {} /\ IsInjective(pending)
    BY <1>5 DEF QueueSound
  <2>2. Range(q \o pending) = Range(q) \cup Range(pending)
    BY <1>6, RangeConcatenation
  <2>3. IsInjective(q \o pending)
    BY <1>2, <1>6, <2>1, ConcatInjective, Zenon
  <2>4. QED
    BY <1>1, <2>2, <2>3, Zenon
<1>8. IsInjective(pending') /\ Range(pending') = {}
  BY <1>3 DEF IsInjective, Range
<1>9. Expired \subseteq dsa_map
  BY DEF Expired
<1>10. ASSUME NEW m \in Msgs \cap Range(pqueue') PROVE m \in posted' \ Range(pending')
  BY <1>4, <1>5, <1>7, <1>8, <1>10, Zenon DEF QueueSound
<1>11. ASSUME NEW a \in Alarms \cap Range(pqueue')
       PROVE  a \in alarms' \ (dsa_map' \cup {current'})
  BY <1>2, <1>3, <1>5, <1>7, <1>9, <1>11, Zenon DEF QueueSound
<1>12. Watchers \cap Range(pqueue') = {}
  BY <1>5, <1>7, Zenon
<1>13. dsa_map' \subseteq alarms' /\ current' = None /\ pc' \notin {"select", "selected"}
  BY <1>3 DEF QueueSound
<1>14. QED
  BY <1>7, <1>8, <1>10, <1>11, <1>12, <1>13, Zenon DEF QueueSound

(* Unlinking an event that is dispatched no more.                           *)
LEMMA RemovedSound ==
    ASSUME TypeOK, QueueSound, NEW e, pc = "handling",
           pqueue' = RemoveFirst(pqueue, e),
           UNCHANGED <<pending, posted, pc, current>>,
           \A a \in Alarms \ {e} : (a \in alarms' <=> a \in alarms) /\ (a \in dsa_map' <=> a \in dsa_map),
           \A w \in Watchers \ {e} : watch'[w] = watch[w],
           dsa_map' \subseteq alarms'
    PROVE  QueueSound'
<1>1. /\ IsInjective(pqueue') /\ Range(pqueue') \subseteq Range(pqueue) \ {e}
  BY RemoveFirstLinks, Zenon DEF TypeOK, QueueSound
<1>2. pending' = pending /\ posted' = posted /\ pc' = pc /\ current' = current
  OBVIOUS
<1>3. \A m \in Msgs \cap Range(pqueue') : m \in posted' \ Range(pending')
  BY <1>1, <1>2, Zenon DEF QueueSound
<1>4. \A a \in Alarms \cap Range(pqueue') : a \in alarms' \ (dsa_map' \cup {current'})
  BY <1>1, <1>2 DEF QueueSound
<1>5. pc' \notin {"select", "selected"}
  BY <1>2
<1>6. \A w \in Watchers \cap Range(pqueue') :
         watch'[w] = "active" /\ pc' \notin {"select", "selected"}
  BY <1>1, <1>5 DEF QueueSound
<1>7. /\ IsInjective(pending') /\ Range(pending') \subseteq posted'
      /\ current' # None => pc' = "handling"
  BY <1>2, Zenon DEF QueueSound
<1>8. QED
  BY <1>1, <1>3, <1>4, <1>5, <1>6, <1>7, Zenon DEF QueueSound

(* Posting to the shared queue.                                             *)
LEMMA PostSound ==
    ASSUME TypeOK, QueueSound, NEW m \in Msgs, Post(m)
    PROVE  QueueSound'
<1>1. /\ pending' = Append(pending, m) /\ m \notin posted /\ posted' = posted \cup {m}
      /\ UNCHANGED <<pc, current, pqueue, select_due, alarms, dsa_map, time_due, watch>>
  BY DEF Post, polling, alarm
<1>2. /\ Range(pending') = Range(pending) \cup {m}
      /\ IsInjective(pending) /\ m \notin Range(pending) => IsInjective(pending')
  <2>1. /\ Range(Append(pending, m)) = Range(pending) \cup {m}
        /\ IsInjective(pending) /\ m \notin Range(pending) => IsInjective(Append(pending, m))
    BY AppendLinks DEF TypeOK
  <2>2. QED
    BY <1>1, <2>1, Zenon
<1>3. m \notin Range(pending) /\ IsInjective(pending')
  BY <1>1, <1>2 DEF QueueSound
<1>4. \A n \in Msgs \cap Range(pqueue') : n \in posted' \ Range(pending')
  BY <1>1, <1>2 DEF QueueSound
<1>5. /\ \A a \in Alarms \cap Range(pqueue') : a \in alarms' \ (dsa_map' \cup {current'})
      /\ \A w \in Watchers \cap Range(pqueue') :
            watch'[w] = "active" /\ pc' \notin {"select", "selected"}
      /\ dsa_map' \subseteq alarms'
      /\ current' # None => pc' = "handling"
      /\ pc' \in {"select", "selected"} => \A a \in dsa_map' : select_due' <= time_due'[a]
  BY <1>1 DEF QueueSound
<1>6. IsInjective(pqueue') /\ Range(pending') \subseteq posted'
  BY <1>1, <1>2, Zenon DEF QueueSound
<1>7. QED
  BY <1>3, <1>4, <1>5, <1>6, Zenon DEF QueueSound

(* Taking an event.                                                         *)
LEMMA TakeQueuedSound ==
    ASSUME TypeOK, QueueSound, TakeQueued
    PROVE  QueueSound'
<1>1. /\ pqueue # <<>> /\ pqueue' = Tail(pqueue) /\ current' = Head(pqueue)
      /\ pc' = "handling"
      /\ UNCHANGED <<pending, posted, alarms, dsa_map, time_due, watch>>
  BY DEF TakeQueued, shared, alarm, world
<1>2. /\ Range(pqueue') \subseteq Range(pqueue)
      /\ IsInjective(pqueue) => IsInjective(pqueue') /\ current' \notin Range(pqueue')
  BY <1>1, TailLinks, Zenon DEF TypeOK
<1>3. pc' \notin {"select", "selected"}
  BY <1>1
<1>4. /\ \A m \in Msgs \cap Range(pqueue') : m \in posted' \ Range(pending')
      /\ \A a \in Alarms \cap Range(pqueue') : a \in alarms' \ (dsa_map' \cup {current'})
      /\ \A w \in Watchers \cap Range(pqueue') :
            watch'[w] = "active" /\ pc' \notin {"select", "selected"}
  BY <1>1, <1>2, <1>3 DEF QueueSound
<1>5. QED
  BY <1>1, <1>2, <1>3, <1>4 DEF QueueSound

(* Every step keeps the queues sound.                                       *)
LEMMA QueueStep ==
    ASSUME TypeOK, WakeupInv, QueueSound, [Next]_vars
    PROVE  QueueSound'
<1>1. ASSUME NEW m \in Msgs, Post(m) PROVE QueueSound'
  BY <1>1, PostSound, Zenon
<1>2. ASSUME NEW m \in Msgs, PostLocal(m) PROVE QueueSound'
  BY <1>2 DEF PostLocal, shared, polling, alarm, QueueSound
<1>3. ASSUME NEW a \in Alarms, NEW due \in Time, CreateAlarm(a, due) PROVE QueueSound'
  <2>1. pc' = "handling" /\ a \notin alarms /\ a # current
    BY <1>3 DEF CreateAlarm
  <2>2. a \notin Range(pqueue)
    BY <2>1 DEF QueueSound
  <2>3. QED
    BY <1>3, <2>1, <2>2 DEF CreateAlarm, shared, polling, world, QueueSound
<1>4. ASSUME NEW a \in Alarms, DeleteAlarm(a) PROVE QueueSound'
  <2>1. pqueue' = RemoveFirst(pqueue, a) /\ pc = "handling"
    BY <1>4 DEF DeleteAlarm
  <2>2. UNCHANGED <<pending, posted, pc, current>>
    BY <1>4 DEF DeleteAlarm, shared, world
  <2>3. /\ \A b \in Alarms \ {a} : (b \in alarms' <=> b \in alarms) /\ (b \in dsa_map' <=> b \in dsa_map)
        /\ \A w \in Watchers \ {a} : watch'[w] = watch[w]
        /\ dsa_map' \subseteq alarms'
    BY <1>4 DEF DeleteAlarm, QueueSound
  <2>4. QED
    BY <2>1, <2>2, <2>3, RemovedSound, Zenon
<1>5. ASSUME NEW a \in Alarms, NEW due \in Time, AdjustAlarm(a, due) PROVE QueueSound'
  <2>1. pqueue' = RemoveFirst(pqueue, a) /\ pc = "handling"
    BY <1>5 DEF AdjustAlarm, Requeued, TypeOK
  <2>2. UNCHANGED <<pending, posted, pc, current>>
    BY <1>5 DEF AdjustAlarm, shared, world
  <2>3. /\ \A b \in Alarms \ {a} : (b \in alarms' <=> b \in alarms) /\ (b \in dsa_map' <=> b \in dsa_map)
        /\ \A w \in Watchers \ {a} : watch'[w] = watch[w]
        /\ dsa_map' \subseteq alarms'
    BY <1>5 DEF AdjustAlarm, QueueSound
  <2>4. QED
    BY <2>1, <2>2, <2>3, RemovedSound, Zenon
<1>6. ASSUME NEW w \in Watchers, NEW how \in {"none", "paused"}, StopWatcher(w, how)
      PROVE  QueueSound'
  <2>1. pqueue' = RemoveFirst(pqueue, w) /\ pc = "handling"
    BY <1>6 DEF StopWatcher
  <2>2. UNCHANGED <<pending, posted, pc, current>>
    BY <1>6 DEF StopWatcher, world
  <2>3. /\ \A b \in Alarms \ {w} : (b \in alarms' <=> b \in alarms) /\ (b \in dsa_map' <=> b \in dsa_map)
        /\ \A v \in Watchers \ {w} : watch'[v] = watch[v]
        /\ dsa_map' \subseteq alarms'
    BY <1>6 DEF StopWatcher, alarm, QueueSound, TypeOK
  <2>4. QED
    BY <2>1, <2>2, <2>3, RemovedSound, Zenon
<1>7. ASSUME NEW w \in Watchers, CreateWatcher(w) \/ ResumeWatcher(w) PROVE QueueSound'
  BY <1>7 DEF CreateWatcher, ResumeWatcher, alarm, world, TypeOK, QueueSound
<1>8. CASE ConsumeInput
  BY <1>8 DEF ConsumeInput, shared, polling, alarm, QueueSound
<1>9. CASE TakeLocal
  <2>1. /\ current' \in Msgs /\ pc' = "handling"
        /\ UNCHANGED <<pending, posted, pqueue, alarms, dsa_map, time_due, watch>>
    BY <1>9, HeadTailProperties DEF TakeLocal, shared, alarm, world, TypeOK
  <2>2. current' \notin Alarms
    BY <2>1, EventLoopAssumption DEF EventLoopAssumption
  <2>3. QED
    BY <2>1, <2>2 DEF QueueSound
<1>10. CASE TakeQueued
  BY <1>10, TakeQueuedSound
<1>11. CASE HandlerReturn
  <2>1. None \notin Alarms
    BY EventLoopAssumption DEF EventLoopAssumption, Events
  <2>2. QED
    BY <1>11, <2>1 DEF HandlerReturn, shared, polling, world, QueueSound
<1>12. CASE CollectPending
  BY <1>12, CollectPendingSound
<1>13. CASE StartCondWait
  BY <1>13 DEF StartCondWait, NothingToTake, alarm, polling, world, QueueSound
<1>14. CASE StartSelect
  <2>1. /\ pqueue' = <<>> /\ pc' = "select" /\ pc = "taking" /\ select_due' = FirstDue
        /\ UNCHANGED <<pending, posted, pqueue, alarms, dsa_map, time_due, watch, current>>
    BY <1>14 DEF StartSelect, NothingToTake, alarm, world
  <2>2. Range(pqueue') = {}
    BY <2>1 DEF Range
  <2>3. \A a \in dsa_map' : select_due' <= time_due'[a]
    BY <2>1, FirstDueBound
  <2>4. QED
    BY <2>1, <2>2, <2>3 DEF QueueSound
<1>15. CASE CondWake
  BY <1>15, CondWakeSound
<1>16. CASE SelectReturns
  BY <1>16 DEF SelectReturns, shared, alarm, world, QueueSound
<1>17. CASE ReadInterrupted
  <2> DEFINE w == <<>>
  <2>1. w \in Seq(Watchers) /\ IsInjective(w) /\ Range(w) = {} /\ Range(w) \subseteq Active
    BY DEF IsInjective, Range
  <2>2. /\ pc = "selected" /\ Gather(w) /\ UNCHANGED <<watch, posted, current, select_due>>
    BY <1>17 DEF ReadInterrupted, polling, world
  <2> HIDE DEF w
  <2>3. QED
    BY <2>1, <2>2, GatherSound, Zenon
<1>18. CASE SelectUpdate
  BY <1>18, SelectUpdateSound
<1>19. CASE Tick
  BY <1>19 DEF Tick, shared, polling, alarm, QueueSound
<1>20. ASSUME NEW w \in Watchers, BecomeReady(w) PROVE QueueSound'
  BY <1>20 DEF BecomeReady, shared, polling, alarm, QueueSound
<1>21. CASE UNCHANGED vars
  BY <1>21 DEF vars, shared, polling, alarm, world, QueueSound
<1>22. QED
  BY <1>1, <1>2, <1>3, <1>4, <1>5, <1>6, <1>7, <1>8, <1>9, <1>10, <1>11, <1>12, <1>13, <1>14,
     <1>15, <1>16, <1>17, <1>18, <1>19, <1>20, <1>21, Zenon
     DEF Next, Handler, Loop, Environment
-----------------------------------------------------------------------------
(***************************************************************************)
(* The theorems about the queues.                                          *)
(***************************************************************************)
QueueInv == IndInv /\ QueueSound

(* QueueInv is inductive.                                                   *)
THEOREM QueueInductive == Spec => []QueueInv
<1>1. Init => QueueSound
  <2>1. Range(<<>>) = {} /\ IsInjective(<<>>)
    BY DEF Range, IsInjective
  <2>2. QED
    BY <2>1 DEF Init, QueueSound
<1>2. IndInv /\ QueueSound /\ [Next]_vars => QueueSound'
  BY QueueStep DEF IndInv
<1>3. QED
  BY <1>1, <1>2, Inductive, PTL DEF Spec, QueueInv

(* Nothing is linked twice, dispatched after its removal or left waiting    *)
(* for its time while it is queued, whatever handlers and posters do.       *)
THEOREM QueuesAlwaysSound == Spec => []QueueSound
BY QueueInductive, PTL DEF QueueInv

(* A thread that collects what is pending puts the alarms before it.        *)
LEMMA CollectedInOrder ==
    ASSUME TypeOK, CollectPending, NEW i \in DOMAIN pqueue', NEW j \in DOMAIN pqueue',
           i < j, pqueue'[j] \in Alarms
    PROVE  pqueue'[i] \in Alarms
<1>1. PICK q \in ExpiredInOrder : pqueue' = q \o pending
  BY Zenon DEF CollectPending, Collected
<1>2. q \in Seq(Alarms) /\ pending \in Seq(Msgs)
  BY <1>1, ExpiredLinks, Zenon DEF TypeOK
<1>3. /\ i \in 1..(Len(q) + Len(pending)) /\ j \in 1..(Len(q) + Len(pending))
      /\ \A k \in 1..(Len(q) + Len(pending)) :
           (q \o pending)[k] = IF k <= Len(q) THEN q[k] ELSE pending[k - Len(q)]
  BY <1>1, <1>2
<1>4. \A k \in 1..Len(q) : q[k] \in Alarms
  BY <1>2
<1>5. j <= Len(q)
  <2> SUFFICES ASSUME ~ (j <= Len(q)) PROVE FALSE
    OBVIOUS
  <2>1. pqueue'[j] = pending[j - Len(q)] /\ j - Len(q) \in 1..Len(pending)
    BY <1>1, <1>2, <1>3
  <2>2. pqueue'[j] \in Msgs
    BY <1>2, <2>1
  <2> QED
    BY <2>2, EventLoopAssumption DEF EventLoopAssumption
<1> QED
  BY <1>1, <1>2, <1>3, <1>4, <1>5

(* Messages never overtake an alarm that is due when they are moved to the  *)
(* thread's queue: it is moved with them in all of the ways in which the    *)
(* loop moves them, and before them when the thread collects while busy.    *)
THEOREM AlarmsFirst == Spec => NoAlarmOvertaken
<1> DEFINE Due == pending # <<>> /\ pending' = <<>> =>
                    /\ \A a \in dsa_map' : time_due[a] > now
                    /\ pc = "taking" => \A i, j \in DOMAIN pqueue' :
                         i < j /\ pqueue'[j] \in Alarms => pqueue'[i] \in Alarms
<1>1. ASSUME QueueInv, [Next]_vars PROVE [Due]_vars
  <2> USE <1>1 DEF QueueInv, IndInv
  <2>1. /\ \A a \in dsa_map : time_due[a] \in Int
        /\ now \in Int /\ select_due \in Int
    <3>1. Time \subseteq Int /\ NoDue \in Int
      BY EventLoopAssumption DEF EventLoopAssumption, Time, NoDue
    <3>2. QED
      BY <3>1 DEF TypeOK
  <2>2. ASSUME dsa_map' = dsa_map \ Expired PROVE \A a \in dsa_map' : time_due[a] > now
    BY <2>1, <2>2 DEF Expired
  <2>3. ASSUME pc = "selected", NEW more, Gather(more) PROVE Due
    <3>1. CASE PastDue
      BY <2>2, <2>3, <3>1 DEF Gather
    <3>2. CASE ~PastDue
      <4>1. dsa_map' = dsa_map /\ now < select_due
        BY <2>1, <2>3, <3>2 DEF Gather, PastDue
      <4>2. \A a \in dsa_map : select_due <= time_due[a]
        BY <2>3 DEF QueueSound
      <4>3. \A a \in dsa_map' : time_due[a] > now
        BY <2>1, <4>1, <4>2
      <4>4. QED
        BY <2>3, <4>3
    <3>3. QED
      BY <3>1, <3>2
  <2>4. ASSUME pending' = pending PROVE Due
    BY <2>4
  <2>5. ASSUME NEW m \in Msgs, Post(m) PROVE Due
    <3>1. pending' = Append(pending, m)
      BY <2>5 DEF Post
    <3>2. pending' # <<>>
      BY <3>1 DEF TypeOK
    <3>3. QED
      BY <3>2
  <2>6. CASE CollectPending \/ CondWake
    <3>1. \A a \in dsa_map' : time_due[a] > now
      BY <2>2, <2>6 DEF CollectPending, CondWake
    <3>2. CASE CollectPending
      BY <3>1, <3>2, CollectedInOrder
    <3>3. CASE CondWake
      BY <3>1, <3>3 DEF CondWake
    <3> QED
      BY <2>6, <3>2, <3>3
  <2>7. CASE ReadInterrupted
    BY <2>3, <2>7, Zenon DEF ReadInterrupted
  <2>8. CASE SelectUpdate
    BY <2>3, <2>8, Zenon DEF SelectUpdate
  <2>9. CASE UNCHANGED vars
    BY <2>9
  <2> HIDE DEF Due
  <2>10. ASSUME NEW m \in Msgs, PostLocal(m) PROVE Due
    BY <2>4, <2>10 DEF PostLocal, shared
  <2>11. ASSUME NEW a \in Alarms, NEW due \in Time,
                CreateAlarm(a, due) \/ AdjustAlarm(a, due)
         PROVE  Due
    BY <2>4, <2>11 DEF CreateAlarm, AdjustAlarm, shared
  <2>12. ASSUME NEW w \in Watchers, NEW how,
                CreateWatcher(w) \/ StopWatcher(w, how) \/ ResumeWatcher(w) \/ BecomeReady(w)
         PROVE  Due
    BY <2>4, <2>12 DEF CreateWatcher, StopWatcher, ResumeWatcher, BecomeReady, shared
  <2>13. ASSUME \/ ConsumeInput \/ TakeLocal \/ TakeQueued \/ HandlerReturn
                \/ StartCondWait \/ StartSelect \/ SelectReturns \/ Tick
         PROVE  Due
    BY <2>4, <2>13 DEF ConsumeInput, TakeLocal, TakeQueued, HandlerReturn, StartCondWait,
       StartSelect, SelectReturns, Tick, shared
  <2>14. ASSUME NEW a \in Alarms, DeleteAlarm(a) PROVE Due
    BY <2>4, <2>14 DEF DeleteAlarm, shared
  <2>15. QED
    BY <2>5, <2>6, <2>7, <2>8, <2>9, <2>10, <2>11, <2>12, <2>13, <2>14, Zenon
       DEF Next, Handler, Loop, Environment
<1>2. QED
  BY <1>1, QueueInductive, PTL DEF Spec, NoAlarmOvertaken
-----------------------------------------------------------------------------
(***************************************************************************)
(* The thread as a Mailbox.  The shared lane is what is left of the        *)
(* thread's queue without alarms and watchers, and what is pending.        *)
(***************************************************************************)
Lane == Keep(pqueue, Msgs) \o pending

LEMMA KeepEvents ==
    ASSUME NEW s \in Seq(Events), NEW t \in Seq(Events)
    PROVE  Keep(s \o t, Msgs) = Keep(s, Msgs) \o Keep(t, Msgs)
BY KeepConcat

LEMMA EventsAssociative ==
    ASSUME NEW s \in Seq(Events), NEW t \in Seq(Events), NEW u \in Seq(Events)
    PROVE  (s \o t) \o u = s \o (t \o u)
BY ConcatAssociative

(* Alarms and watchers added to the thread's queue do not show.             *)
LEMMA LaneMoved ==
    ASSUME TypeOK, NEW x \in Seq(Alarms \cup Watchers)
    PROVE  /\ Keep(pqueue \o pending \o x, Msgs) = Lane
           /\ Keep(x, Msgs) = <<>> /\ x \in Seq(Events)
<1>1. (Alarms \cup Watchers) \cap Msgs = {}
  BY EventLoopAssumption DEF EventLoopAssumption
<1>2. pqueue \in Seq(Events) /\ pending \in Seq(Events) /\ x \in Seq(Events)
  BY SeqMonotonic DEF TypeOK, Events
<1>3. pqueue \o pending \in Seq(Events)
  BY <1>2, ConcatProperties, Zenon
<1>4. Keep((pqueue \o pending) \o x, Msgs) = Keep(pqueue \o pending, Msgs) \o Keep(x, Msgs)
  <2> DEFINE c == pqueue \o pending
  <2>1. c \in Seq(Events)
    BY <1>3
  <2> HIDE DEF c
  <2>2. Keep(c \o x, Msgs) = Keep(c, Msgs) \o Keep(x, Msgs)
    BY <1>2, <2>1, KeepEvents, Zenon
  <2>3. QED
    BY <2>2 DEF c
<1>5. Keep(x, Msgs) = <<>>
  BY <1>1, KeepNone, Zenon
<1>6. Keep(pqueue \o pending, Msgs) = Keep(pqueue, Msgs) \o Keep(pending, Msgs)
  BY <1>2, KeepEvents, Zenon
<1>7. Keep(pending, Msgs) = pending
  BY KeepAll, Zenon DEF TypeOK
<1>8. Keep(pqueue \o pending, Msgs) \in Seq(Events)
  BY <1>3, KeepIsSeq, Zenon
<1>9. Keep(pqueue \o pending, Msgs) \o <<>> = Keep(pqueue \o pending, Msgs)
  BY <1>8, ConcatEmptySeq, Zenon
<1>10. QED
  BY <1>2, <1>4, <1>5, <1>6, <1>7, <1>9, Zenon DEF Lane

(* Unlinking an alarm or a watcher does not show.                           *)
LEMMA LaneRemoved ==
    ASSUME TypeOK, NEW e, e \notin Msgs
    PROVE  Keep(RemoveFirst(pqueue, e), Msgs) = Keep(pqueue, Msgs)
<1>1. pqueue \in Seq(Events)
  BY DEF TypeOK
<1>2. CASE NotLinked(pqueue, e)
  BY <1>2, Zenon DEF NotLinked
<1>3. CASE Unlinked(Events, pqueue, e)
  <2>1. PICK u \in Seq(Events), v \in Seq(Events) :
            pqueue = u \o (<<e>> \o v) /\ RemoveFirst(pqueue, e) = u \o v
    BY <1>3, Zenon DEF Unlinked
  <2> DEFINE one == <<e>>
  <2>2. one \in Seq(Events) /\ Keep(one, Msgs) = <<>>
    <3>1. e \in Events
      BY <1>3, Zenon DEF Unlinked
    <3>2. one \in Seq({e}) /\ {e} \cap Msgs = {}
      OBVIOUS
    <3>3. one \in Seq(Events)
      BY <3>1
    <3> HIDE DEF one
    <3>4. QED
      BY <3>2, <3>3, KeepNone, Zenon
  <2>3. pqueue = u \o (one \o v)
    BY <2>1
  <2> HIDE DEF one
  <2>4. one \o v \in Seq(Events)
    BY <2>2, ConcatProperties, Zenon
  <2>5. Keep(one \o v, Msgs) = Keep(v, Msgs)
    <3>1. Keep(one \o v, Msgs) = Keep(one, Msgs) \o Keep(v, Msgs)
      <4>1. one \in Seq(Events)
        BY <2>2
      <4>2. QED
        BY <4>1, KeepEvents, Zenon
    <3>2. Keep(v, Msgs) \in Seq(Events)
      BY KeepIsSeq, Zenon
    <3>3. QED
      BY <2>2, <3>1, <3>2, ConcatEmptySeq, Zenon
  <2>6. Keep(u \o (one \o v), Msgs) = Keep(u, Msgs) \o Keep(one \o v, Msgs)
    <3> DEFINE c == one \o v
    <3>1. c \in Seq(Events)
      BY <2>4
    <3> HIDE DEF c
    <3>2. Keep(u \o c, Msgs) = Keep(u, Msgs) \o Keep(c, Msgs)
      BY <3>1, KeepEvents, Zenon
    <3>3. QED
      BY <3>2 DEF c
  <2>7. Keep(u \o v, Msgs) = Keep(u, Msgs) \o Keep(v, Msgs)
    BY KeepEvents, Zenon
  <2>8. QED
    BY <2>1, <2>3, <2>5, <2>6, <2>7, Zenon
<1>4. QED
  BY <1>1, <1>2, <1>3, RemoveFirstShape, Zenon

(* Taking the first event of the queue takes the first message of the lane, *)
(* if the event is a message.                                               *)
LEMMA LaneTaken ==
    ASSUME TypeOK, pqueue # <<>>
    PROVE  \/ Keep(Tail(pqueue), Msgs) \o pending = Lane
           \/ Lane # <<>> /\ Keep(Tail(pqueue), Msgs) \o pending = Tail(Lane)
<1> DEFINE h    == Head(pqueue)
           t    == Tail(pqueue)
           one  == <<h>>
           rest == Keep(t, Msgs)
<1>1. h \in Events /\ t \in Seq(Events) /\ pqueue = one \o t /\ pending \in Seq(Events)
  <2>1. pqueue = one \o t
    BY TailLinks, Zenon DEF TypeOK
  <2>2. h \in Events /\ t \in Seq(Events)
    BY HeadTailProperties DEF TypeOK
  <2>3. pending \in Seq(Events)
    BY SeqMonotonic DEF TypeOK, Events
  <2>4. QED
    BY <2>1, <2>2, <2>3
<1> HIDE DEF h, t
<1>2. one \in Seq({h}) /\ one \in Seq(Events)
  BY <1>1
<1>3. rest \in Seq(Events)
  BY <1>1, KeepIsSeq, Zenon
<1>4. Keep(pqueue, Msgs) = Keep(one, Msgs) \o rest
  <2>1. pqueue = one \o t /\ one \in Seq(Events) /\ t \in Seq(Events)
    BY <1>1, <1>2
  <2> HIDE DEF one
  <2>2. Keep(one \o t, Msgs) = Keep(one, Msgs) \o Keep(t, Msgs)
    BY <2>1, KeepEvents, Zenon
  <2>3. QED
    BY <2>1, <2>2
<1> HIDE DEF rest
<1>5. CASE h \in Msgs
  <2>1. one \in Seq(Msgs)
    BY <1>5
  <2>2. Keep(one, Msgs) = one
    BY <2>1, KeepAll, Zenon
  <2>3. Lane = (one \o rest) \o pending
    BY <1>4, <2>2, Zenon DEF Lane
  <2>4. (<<h>> \o rest) \o pending = <<h>> \o (rest \o pending)
    BY <1>1, <1>2, <1>3, EventsAssociative, Zenon
  <2>5. rest \o pending \in Seq(Events)
    BY <1>1, <1>3, ConcatProperties, Zenon
  <2>6. \A q \in Seq(Events) : <<h>> \o q # <<>> /\ Tail(<<h>> \o q) = q
    BY <1>1
  <2>7. QED
    BY <2>3, <2>4, <2>5, <2>6, Zenon DEF rest, t
<1>6. CASE h \notin Msgs
  <2>1. {h} \cap Msgs = {}
    BY <1>6
  <2>2. Keep(one, Msgs) = <<>>
    BY <1>2, <2>1, KeepNone, Zenon
  <2>3. Keep(pqueue, Msgs) = rest
    BY <1>3, <1>4, <2>2, ConcatEmptySeq, Zenon
  <2>4. QED
    BY <2>3, Zenon DEF Lane, rest, t
<1>7. QED
  BY <1>5, <1>6

(* Moving what is pending, with alarms and watchers, does not show.         *)
LEMMA GatherShowsNothing ==
    ASSUME TypeOK, NEW w \in Seq(Watchers), Gather(w)
    PROVE  Lane' = Lane
<1>1. pending' = <<>>
  BY DEF Gather
<1>2. PICK x \in Seq(Alarms \cup Watchers) : pqueue' = pqueue \o pending \o x
  <2>1. w \in Seq(Alarms \cup Watchers)
    BY SeqMonotonic
  <2>2. CASE PastDue
    <3>1. PICK q \in ExpiredInOrder : pqueue' = pqueue \o pending \o q \o w
      BY <2>2, Zenon DEF Gather
    <3>2. q \in Seq(Alarms \cup Watchers) /\ q \in Seq(Events)
      BY <3>1, ExpiredLinks, SeqMonotonic DEF Events
    <3>3. q \o w \in Seq(Alarms \cup Watchers)
      BY <2>1, <3>2, ConcatProperties, Zenon
    <3>4. pqueue \o pending \in Seq(Events) /\ w \in Seq(Events)
      BY SeqMonotonic, ConcatProperties DEF TypeOK, Events
    <3>5. ((pqueue \o pending) \o q) \o w = (pqueue \o pending) \o (q \o w)
      <4> DEFINE c == pqueue \o pending
      <4>1. c \in Seq(Events)
        BY <3>4
      <4> HIDE DEF c
      <4>2. (c \o q) \o w = c \o (q \o w)
        BY <3>2, <3>4, <4>1, EventsAssociative, Zenon
      <4>3. QED
        BY <4>2 DEF c
    <3>6. QED
      BY <3>1, <3>3, <3>5, Zenon
  <2>3. CASE ~PastDue
    BY <2>1, <2>3, Zenon DEF Gather
  <2>4. QED
    BY <2>2, <2>3
<1>3. Keep(pqueue', Msgs) = Lane
  BY <1>2, LaneMoved, Zenon
<1>4. Lane \in Seq(Events)
  <2>1. Keep(pqueue, Msgs) \in Seq(Events)
    BY KeepIsSeq, Zenon DEF TypeOK
  <2>2. pending \in Seq(Events)
    BY SeqMonotonic DEF TypeOK, Events
  <2>3. QED
    BY <2>1, <2>2, ConcatProperties, Zenon DEF Lane
<1>5. Lane' = Lane \o <<>>
  BY <1>1, <1>3, Zenon DEF Lane
<1>6. QED
  BY <1>4, <1>5, ConcatEmptySeq, Zenon

(* Every step of the thread is one of its mailbox, or does not show.        *)
LEMMA MailboxStep ==
    ASSUME TypeOK, TypeOK', [Next]_vars
    PROVE  [Box!Next]_(Box!vars)
<1> DEFINE Same == UNCHANGED <<lqueue, Lane, posted>>
<1>1. Same => [Box!Next]_(Box!vars)
  BY DEF Box!vars, Lane
<1>2. UNCHANGED <<lqueue, pqueue, pending, posted>> => Same
  BY DEF Lane
<1>3. Keep(pqueue, Msgs) \in Seq(Events) /\ pending \in Seq(Events)
  <2>1. Keep(pqueue, Msgs) \in Seq(Events)
    BY KeepIsSeq, Zenon DEF TypeOK
  <2>2. QED
    BY <2>1, SeqMonotonic DEF TypeOK, Events
<1>4. ASSUME NEW m \in Msgs, Post(m) PROVE Box!PostShared(m)
  <2>1. /\ m \notin posted /\ posted' = posted \cup {m}
        /\ UNCHANGED <<lqueue, pqueue>> /\ pending' = Append(pending, m)
    BY <1>4 DEF Post
  <2>2. Keep(pqueue, Msgs) \o Append(pending, m) = Append(Keep(pqueue, Msgs) \o pending, m)
    <3> DEFINE k == Keep(pqueue, Msgs)
    <3>1. k \in Seq(Events) /\ pending \in Seq(Events) /\ m \in Events
      BY <1>3 DEF Events
    <3> HIDE DEF k
    <3>2. k \o Append(pending, m) = Append(k \o pending, m)
      BY <3>1
    <3>3. QED
      BY <3>2 DEF k
  <2>3. QED
    BY <2>1, <2>2, Zenon DEF Box!PostShared
<1>5. ASSUME NEW m \in Msgs, PostLocal(m) PROVE Box!PostLocal(m)
  BY <1>5 DEF PostLocal, LocalLast, shared, Box!PostLocal
<1>6. ASSUME NEW e, e \notin Msgs, UNCHANGED <<lqueue, pending, posted>>,
             pqueue' = RemoveFirst(pqueue, e)
      PROVE  Same
  BY <1>6, LaneRemoved, Zenon DEF Lane
<1>7. /\ \A a \in Alarms : a \notin Msgs
      /\ \A w \in Watchers : w \notin Msgs
  BY EventLoopAssumption DEF EventLoopAssumption
<1>8. ASSUME NEW a \in Alarms, DeleteAlarm(a) PROVE Same
  BY <1>6, <1>7, <1>8 DEF DeleteAlarm, shared, world
<1>9. ASSUME NEW a \in Alarms, NEW due \in Time, AdjustAlarm(a, due) PROVE Same
  <2>1. UNCHANGED <<lqueue, pending, posted>>
    BY <1>9 DEF AdjustAlarm, shared, world
  <2>2. pqueue' = RemoveFirst(pqueue, a) \/ pqueue' = pqueue
    BY <1>9 DEF AdjustAlarm, Requeued
  <2>3. QED
    BY <1>2, <1>6, <1>7, <2>1, <2>2
<1>10. ASSUME NEW w \in Watchers, NEW how, StopWatcher(w, how) PROVE Same
  BY <1>6, <1>7, <1>10 DEF StopWatcher, world
<1>11. CASE TakeLocal
  <2>1. Box!TakeLocal
    BY <1>11 DEF TakeLocal, shared, world, Box!TakeLocal
  <2>2. QED
    BY <2>1 DEF Box!Next, Box!Take
<1>12. CASE TakeQueued
  <2>1. /\ lqueue = <<>> /\ pqueue # <<>> /\ pqueue' = Tail(pqueue)
        /\ UNCHANGED <<lqueue, pending, posted>>
    BY <1>12 DEF TakeQueued, shared, world
  <2>2. CASE Keep(Tail(pqueue), Msgs) \o pending = Lane
    BY <1>1, <2>1, <2>2, Zenon DEF Lane
  <2>3. CASE Lane # <<>> /\ Keep(Tail(pqueue), Msgs) \o pending = Tail(Lane)
    <3>1. Box!TakeShared
      BY <2>1, <2>3, Zenon DEF Box!TakeShared, Lane
    <3>2. QED
      BY <3>1, Zenon DEF Box!Next, Box!Take
  <2>4. QED
    BY <2>1, <2>2, <2>3, LaneTaken, Zenon
<1>13. CASE CollectPending
  <2>1. PICK q \in ExpiredInOrder : pqueue' = q \o pending
    BY <1>13, Zenon DEF CollectPending, Collected
  <2>2. pqueue = <<>> /\ pending' = <<>> /\ UNCHANGED <<lqueue, posted>>
    BY <1>13 DEF CollectPending, NothingToTake, world
  <2>3. q \in Seq(Alarms \cup Watchers) /\ q \in Seq(Events)
    BY <2>1, ExpiredLinks, SeqMonotonic DEF Events
  <2>4. Keep(q, Msgs) = <<>>
    BY <2>3, LaneMoved, Zenon
  <2>5. Keep(q \o pending, Msgs) = Keep(q, Msgs) \o Keep(pending, Msgs)
    BY <1>3, <2>3, KeepEvents, Zenon
  <2>6. Keep(pending, Msgs) = pending
    BY KeepAll, Zenon DEF TypeOK
  <2>7. <<>> \o pending = pending /\ pending \o <<>> = pending /\ Keep(<<>>, Msgs) = <<>>
    BY <1>3, ConcatEmptySeq, KeepEmpty, Zenon
  <2>8. Lane' = Lane
    BY <2>1, <2>2, <2>4, <2>5, <2>6, <2>7, Zenon DEF Lane
  <2>9. QED
    BY <1>1, <2>2, <2>8
<1>14. CASE CondWake
  <2>1. PICK q \in ExpiredInOrder : pqueue' = pqueue \o pending \o q
    BY <1>14, Zenon DEF CondWake
  <2>2. pending' = <<>> /\ UNCHANGED <<lqueue, posted>>
    BY <1>14 DEF CondWake, world
  <2>3. q \in Seq(Alarms \cup Watchers)
    BY <2>1, ExpiredLinks, SeqMonotonic
  <2>4. Keep(pqueue', Msgs) = Lane
    BY <2>1, <2>3, LaneMoved, Zenon
  <2>5. Lane' = Lane \o <<>>
    BY <2>2, <2>4, Zenon DEF Lane
  <2>6. Lane \in Seq(Events)
    BY <1>3, ConcatProperties, Zenon DEF Lane
  <2>7. Lane' = Lane
    BY <2>5, <2>6, ConcatEmptySeq, Zenon
  <2>8. QED
    BY <1>1, <2>2, <2>7
<1>15. CASE ReadInterrupted
  <2>1. <<>> \in Seq(Watchers) /\ Gather(<<>>) /\ UNCHANGED <<lqueue, posted>>
    BY <1>15, EmptySeq DEF ReadInterrupted, world
  <2>2. QED
    BY <1>1, <2>1, GatherShowsNothing, Zenon
<1>16. CASE SelectUpdate
  <2> DEFINE found == (isset \ {MsgPipe}) \cap Active
  <2>1. PICK evios \in SetToSeqs(found) : Gather(evios)
    BY <1>16, Zenon DEF SelectUpdate
  <2>2. IsFiniteSet(found) /\ found \subseteq Watchers
    BY EventLoopAssumption, FS_Subset DEF EventLoopAssumption, Active
  <2>3. evios \in Seq(Watchers)
    <3> HIDE DEF found
    <3>1. QED
      BY <2>1, <2>2, SetToSeqsLinks, SeqMonotonic, Zenon
  <2>4. UNCHANGED <<lqueue, posted>>
    BY <1>16 DEF SelectUpdate, world
  <2>5. Lane' = Lane
    BY <2>1, <2>3, GatherShowsNothing, Zenon
  <2>6. QED
    BY <1>1, <2>4, <2>5
<1>17. ASSUME \/ \E a \in Alarms, due \in Time : CreateAlarm(a, due)
              \/ \E w \in Watchers : CreateWatcher(w) \/ ResumeWatcher(w) \/ BecomeReady(w)
              \/ ConsumeInput \/ HandlerReturn \/ StartCondWait \/ StartSelect
              \/ SelectReturns \/ Tick \/ UNCHANGED vars
       PROVE  Same
  <2>1. UNCHANGED <<lqueue, pqueue, pending, posted>>
    BY <1>17 DEF CreateAlarm, CreateWatcher, ResumeWatcher, BecomeReady, ConsumeInput,
       HandlerReturn, StartCondWait, StartSelect, SelectReturns, Tick, vars, shared, world
  <2>2. QED
    BY <1>2, <2>1
<1>18. QED
  <2> HIDE DEF Same
  <2>1. ASSUME NEW m \in Msgs, Post(m) \/ PostLocal(m) PROVE Box!Next
    BY <1>4, <1>5, <2>1, Zenon DEF Box!Next
  <2>2. QED
    BY <1>1, <1>8, <1>9, <1>10, <1>11, <1>12, <1>13, <1>14, <1>15, <1>16, <1>17, <2>1, Zenon
       DEF Next, Handler, Loop, Environment

(* To those who post to it, a thread is a Mailbox: no message is lost,      *)
(* duplicated or reordered within its lane, and the local lane goes first.  *)
(* (That every message is taken in the end is ImplementsMailbox, for TLC.)  *)
THEOREM MailboxImplemented == Spec => Box!Init /\ [][Box!Next]_(Box!vars)
<1>1. Init => Box!Init
  <2>1. Keep(<<>>, Msgs) \o <<>> = <<>>
    BY KeepEmpty
  <2>2. QED
    BY <2>1 DEF Init, Box!Init
<1>2. TypeOK /\ TypeOK' /\ [Next]_vars => [Box!Next]_(Box!vars)
  BY MailboxStep
<1>3. QED
  BY <1>1, <1>2, TypeCorrect, PTL DEF Spec
=============================================================================
