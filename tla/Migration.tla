----------------------------- MODULE Migration -----------------------------
(***************************************************************************)
(* coexx threads and the kernels that move between them: move_to_thread,   *)
(* the export of a kernel from its thread and its import by another one,   *)
(* posting to a kernel wherever it is, and a thread that has no kernel     *)
(* left deciding whether to leave its event loop.                          *)
(*                                                                         *)
(* A thread is waited for here in the simplest way: a waiting thread goes  *)
(* on once something is pending.  That no wake-up is lost is what module   *)
(* EventLoop establishes.  An action is a critical section under           *)
(* glob.rwlock or sched.mutex, with the thread-local code before it.       *)
(***************************************************************************)
EXTENDS Integers, SequencesExt, Filter

CONSTANTS Kernels,     \* r4Kernel objects
          Main,        \* the thread that created the kernels
          Spawned,     \* the threads started by Thread::spawn_new
          WithPred,    \* threads whose loop was given a quit predicate
          Answers,     \* what a quit predicate may answer
          None,        \* no thread, or no kernel
          MaxMsgs,     \* bound on the messages posted
          MaxMoves     \* bound on the calls of move_to_thread

Threads == {Main} \cup Spawned

ASSUME MigrationAssumption ==
    /\ Main \notin Spawned
    /\ WithPred \subseteq Threads
    /\ Answers \subseteq BOOLEAN
    /\ None \notin Threads \cup Kernels
    /\ MaxMsgs \in Nat
    /\ MaxMoves \in Nat

VARIABLES
    thread,        \* r4Kernel::_thread
    target,        \* r4Kernel::_target_thread
    tid_map,       \* glob.tid_map: thread "in", "disabled" (NULL) or "out"
    pc,            \* where each thread is
    current,       \* the kernel whose handler a thread runs
    list_kernel,   \* d4Thread::_list_kernel
    quit_enabled,  \* d4Thread::_quit_check_enabled
    lqueue,        \* d4Thread::_lqueue
    pqueue,        \* d4Thread::_pqueue
    pending,       \* Sched::pending
    moves,         \* calls of move_to_thread that recorded or cancelled a request
    hop,           \* how often a kernel was exported
    posted,        \* the messages posted, in order
    done           \* the messages dispatched

glob   == <<thread, tid_map>>
queues == <<lqueue, pqueue, pending>>
ghost  == <<moves, hop, posted, done>>
vars   == <<glob, target, pc, current, list_kernel, quit_enabled, queues, ghost>>

(* Events: messages by number, and the system events that move a kernel.    *)
Msg(k, n)         == [type |-> "msg", kernel |-> k, msg |-> n]
Export(k)         == [type |-> "export", kernel |-> k]
Import(k, lq, pq) == [type |-> "import", kernel |-> k, lqueue |-> lq, pqueue |-> pq]

Belonging(q, k) == {e \in ToSet(q) : e.kernel = k}    \* is_event_of

Of(q, k) == Keep(q, Belonging(q, k))

(* Mutant: what belongs to the kernel is copied, not removed.               *)
NotOfKept(q, k) == q

NotOf(q, k) == Keep(q, ToSet(q) \ Belonging(q, k))

(***************************************************************************)
(* Initially all kernels are on the thread that created them, which runs   *)
(* the start handler of a session of one of them; its loop may quit at     *)
(* once.  A spawned thread is in its loop and has no kernel.               *)
(***************************************************************************)
Init ==
    /\ thread = [k \in Kernels |-> Main]
    /\ target = [k \in Kernels |-> None]
    /\ tid_map = [t \in Threads |-> "in"]
    /\ pc = [t \in Threads |-> IF t = Main THEN "handling" ELSE "taking"]
    /\ \E k \in Kernels : current = [t \in Threads |-> IF t = Main THEN k ELSE None]
    /\ list_kernel = [t \in Threads |-> IF t = Main THEN Kernels ELSE {}]
    /\ quit_enabled = [t \in Threads |-> t = Main]
    /\ lqueue = [t \in Threads |-> <<>>]
    /\ pqueue = [t \in Threads |-> <<>>]
    /\ pending = [t \in Threads |-> <<>>]
    /\ moves = 0
    /\ hop = [k \in Kernels |-> 0]
    /\ posted = <<>>
    /\ done = {}
-----------------------------------------------------------------------------
(***************************************************************************)
(* Posting (post_event).                                                   *)
(***************************************************************************)
Record(k, lane) ==
    /\ Len(posted) < MaxMsgs
    /\ posted' = Append(posted, [kernel |-> k, lane |-> lane, hop |-> hop[k]])
    /\ UNCHANGED <<moves, hop, done>>

(* From any thread to another kernel: under glob.rwlock held for reading,   *)
(* to the pending queue of the thread the kernel is assigned to.            *)
PostShared(k) ==
    /\ Record(k, "shared")
    /\ pending' = [pending EXCEPT ![thread[k]] = Append(@, Msg(k, Len(posted')))]
    /\ UNCHANGED <<glob, target, pc, current, list_kernel, quit_enabled, lqueue, pqueue>>

(* From a handler to its own kernel: to the thread's local queue.           *)
PostLocal(t) ==
    LET k == current[t]
    IN  /\ pc[t] = "handling"
        /\ Record(k, "local")
        /\ lqueue' = [lqueue EXCEPT ![thread[k]] = Append(@, Msg(k, Len(posted')))]
        /\ UNCHANGED <<glob, target, pc, current, list_kernel, quit_enabled, pqueue, pending>>
-----------------------------------------------------------------------------
(***************************************************************************)
(* Moving a kernel.                                                        *)
(***************************************************************************)

(* move_to_thread, called by a handler.  Its own thread cancels an earlier  *)
(* request; a thread that is not in tid_map is refused; otherwise the       *)
(* request is recorded, with one export event for the first one.            *)
MoveToThread(t, to) ==
    LET k == current[t]
    IN  /\ pc[t] = "handling"
        /\ moves < MaxMoves
        /\ moves' = moves + 1
        /\ to = thread[k] \/ tid_map[to] = "in"
        /\ target' = [target EXCEPT ![k] = IF to = thread[k] THEN None ELSE to]
        /\ lqueue' = IF to = thread[k] \/ target[k] # None
                     THEN lqueue
                     ELSE [lqueue EXCEPT ![t] = Cons(Export(k), @)]
        /\ UNCHANGED <<glob, pc, current, list_kernel, quit_enabled, pqueue, pending,
                       hop, posted, done>>

(* The next event a thread takes: local ones first.                         *)
NextEvent(t) == Head(IF lqueue[t] # <<>> THEN lqueue[t] ELSE pqueue[t])

Taking(t, type) ==
    /\ pc[t] = "taking"
    /\ lqueue[t] # <<>> \/ pqueue[t] # <<>>
    /\ NextEvent(t).type = type

RestLocal(t)  == IF lqueue[t] # <<>> THEN Tail(lqueue[t]) ELSE <<>>
RestQueued(t) == IF lqueue[t] # <<>> THEN pqueue[t] ELSE Tail(pqueue[t])

(* Mutants: the pending queue is forgotten; it goes before the other one.   *)
TakenAlongUncollected(t, k) == Import(k, Of(RestLocal(t), k), Of(RestQueued(t), k))

TakenAlongPendingFirst(t, k) ==
    Import(k, Of(RestLocal(t), k), Of(pending[t], k) \o Of(RestQueued(t), k))

(* What an exported kernel takes along: its local messages, and the shared  *)
(* ones, those the thread has collected before those that are pending.      *)
TakenAlong(t, k) == Import(k, Of(RestLocal(t), k), Of(RestQueued(t), k) \o Of(pending[t], k))

(* Mutant: the kernel stays in the list of the thread it leaves.            *)
KernelsKept(t, k) == list_kernel[t]

KernelsLeft(t, k) == list_kernel[t] \ {k}

(* Mutant: the target thread is not looked up again.                        *)
FoundBefore(to) == TRUE

(* glob.find_thread, at the time of the export: the thread may have left    *)
(* its loop, or be about to, since the move was asked for.                  *)
Found(to) == tid_map[to] = "in"

(* _export_kernel_local_data, under glob.rwlock held for writing and both   *)
(* threads' mutexes: everything of the kernel goes into one import event at *)
(* the head of what is pending on the target thread.                        *)
DispatchExport(t) ==
    LET k  == NextEvent(t).kernel
        to == target[k]
    IN  /\ Taking(t, "export")
        /\ target' = [target EXCEPT ![k] = None]
        /\ IF to \in Threads \ {t} /\ Found(to)
           THEN /\ thread' = [thread EXCEPT ![k] = to]
                /\ hop' = [hop EXCEPT ![k] = @ + 1]
                /\ list_kernel' = [list_kernel EXCEPT ![t] = KernelsLeft(t, k)]
                /\ lqueue' = [lqueue EXCEPT ![t] = NotOf(RestLocal(t), k)]
                /\ pqueue' = [pqueue EXCEPT ![t] = NotOf(RestQueued(t), k)]
                /\ pending' = [pending EXCEPT ![t] = NotOf(@, k),
                                              ![to] = Cons(TakenAlong(t, k), @)]
           ELSE /\ lqueue' = [lqueue EXCEPT ![t] = RestLocal(t)]
                /\ pqueue' = [pqueue EXCEPT ![t] = RestQueued(t)]
                /\ UNCHANGED <<thread, hop, list_kernel, pending>>
        /\ UNCHANGED <<tid_map, pc, current, quit_enabled, moves, posted, done>>

(* _import_kernel_local_data: the kernel joins the thread, what it brought  *)
(* goes behind what the thread has queued already.                          *)
DispatchImport(t) ==
    LET ev == NextEvent(t)
    IN  /\ Taking(t, "import")
        /\ list_kernel' = [list_kernel EXCEPT ![t] = @ \cup {ev.kernel}]
        /\ lqueue' = [lqueue EXCEPT ![t] = RestLocal(t) \o ev.lqueue]
        /\ pqueue' = [pqueue EXCEPT ![t] = RestQueued(t) \o ev.pqueue]
        /\ UNCHANGED <<glob, target, pc, current, quit_enabled, pending, ghost>>
-----------------------------------------------------------------------------
(***************************************************************************)
(* The loop.                                                               *)
(***************************************************************************)
DispatchMsg(t) ==
    /\ Taking(t, "msg")
    /\ current' = [current EXCEPT ![t] = NextEvent(t).kernel]
    /\ done' = done \cup {NextEvent(t).msg}
    /\ lqueue' = [lqueue EXCEPT ![t] = RestLocal(t)]
    /\ pqueue' = [pqueue EXCEPT ![t] = RestQueued(t)]
    /\ pc' = [pc EXCEPT ![t] = "handling"]
    /\ UNCHANGED <<glob, target, list_kernel, quit_enabled, pending, moves, hop, posted>>

(* Mutant: _current_kernel is not reset after dispatch().                   *)
CurrentKept(t) == current[t]

CurrentAfter(t) == None

HandlerReturn(t) ==
    /\ pc[t] = "handling"
    /\ pc' = [pc EXCEPT ![t] = "taking"]
    /\ current' = [current EXCEPT ![t] = CurrentAfter(t)]
    /\ UNCHANGED <<glob, target, list_kernel, quit_enabled, queues, ghost>>

(* Mutant: a waiting thread is not woken.                                   *)
MayCollectUnlessWaiting(t) == pc[t] = "taking" /\ lqueue[t] = <<>> /\ pqueue[t] = <<>>

MayCollect(t) ==
    \/ pc[t] = "taking" /\ lqueue[t] = <<>> /\ pqueue[t] = <<>>
    \/ pc[t] = "waiting"

(* Collect what is pending, before waiting or when a wait ends.             *)
CollectPending(t) ==
    /\ MayCollect(t)
    /\ pending[t] # <<>>
    /\ pqueue' = [pqueue EXCEPT ![t] = pending[t]]
    /\ pending' = [pending EXCEPT ![t] = <<>>]
    /\ pc' = [pc EXCEPT ![t] = "taking"]
    /\ UNCHANGED <<glob, target, current, list_kernel, quit_enabled, lqueue, ghost>>

(* Nothing at all to do.  A thread that has no kernel, and had one or was   *)
(* started without need of one, asks whether to quit; otherwise it waits.   *)
Idle(t) ==
    /\ pc[t] = "taking" /\ lqueue[t] = <<>> /\ pqueue[t] = <<>> /\ pending[t] = <<>>
    /\ pc' = [pc EXCEPT ![t] = IF quit_enabled[t] /\ list_kernel[t] = {} /\ t \in WithPred
                               THEN "checking" ELSE "waiting"]
    /\ quit_enabled' = [quit_enabled EXCEPT ![t] = @ \/ list_kernel[t] # {}]
    /\ UNCHANGED <<glob, target, current, list_kernel, queues, ghost>>

(* _quit_loop_check, its section under glob.rwlock: the queue looked at is  *)
(* the thread's own.                                                        *)
GotSystemEvent(t) == pqueue[t] # <<>>

QuitCheck(t) ==
    /\ pc[t] = "checking"
    /\ IF GotSystemEvent(t)
       THEN /\ pc' = [pc EXCEPT ![t] = "taking"]
            /\ UNCHANGED tid_map
       ELSE /\ pc' = [pc EXCEPT ![t] = "asking"]
            /\ tid_map' = [tid_map EXCEPT ![t] = "disabled"]
    /\ UNCHANGED <<thread, target, current, list_kernel, quit_enabled, queues, ghost>>

(* The user's predicate answers, outside the lock; then the thread leaves   *)
(* tid_map and its loop, or is restored.                                    *)
QuitAnswer(t, quit) ==
    /\ pc[t] = "asking"
    /\ tid_map' = [tid_map EXCEPT ![t] = IF quit THEN "out" ELSE "in"]
    /\ pc' = [pc EXCEPT ![t] = IF quit THEN "stopped" ELSE "taking"]
    /\ quit_enabled' = [quit_enabled EXCEPT ![t] = IF quit THEN t = Main ELSE @]
    /\ UNCHANGED <<thread, target, current, list_kernel, queues, ghost>>

(* The main thread may call run_event_loop again; a spawned thread whose    *)
(* loop has returned ends, and its d4Thread is deleted.                     *)
RunAgain ==
    /\ pc[Main] = "stopped"
    /\ pc' = [pc EXCEPT ![Main] = "taking"]
    /\ tid_map' = [tid_map EXCEPT ![Main] = "in"]
    /\ UNCHANGED <<thread, target, current, list_kernel, quit_enabled, queues, ghost>>
-----------------------------------------------------------------------------
Loop(t) ==
    \/ DispatchMsg(t) \/ DispatchExport(t) \/ DispatchImport(t)
    \/ HandlerReturn(t)
    \/ CollectPending(t) \/ Idle(t)
    \/ QuitCheck(t)
    \/ \E quit \in Answers : QuitAnswer(t, quit)

Handler(t) ==
    \/ PostLocal(t)
    \/ \E to \in Threads : MoveToThread(t, to)

Next ==
    \/ \E t \in Threads : Loop(t) \/ Handler(t)
    \/ \E k \in Kernels : PostShared(k)
    \/ RunAgain

(* Every thread is scheduled, a handler returns and a predicate answers;    *)
(* nobody is obliged to post or to move a kernel.                           *)
Spec == Init /\ [][Next]_vars /\ \A t \in Threads : WF_vars(Loop(t))
-----------------------------------------------------------------------------
(***************************************************************************)
(* Properties.                                                             *)
(***************************************************************************)
EventQueue(t) == lqueue[t] \o pqueue[t] \o pending[t]    \* in the order taken

ImportsOf(t, k) == {i \in DOMAIN EventQueue(t) :
                       EventQueue(t)[i].type = "import" /\ EventQueue(t)[i].kernel = k}

TypeOK ==
    /\ thread \in [Kernels -> Threads]
    /\ target \in [Kernels -> Threads \cup {None}]
    /\ tid_map \in [Threads -> {"in", "disabled", "out"}]
    /\ pc \in [Threads -> {"taking", "handling", "waiting", "checking", "asking", "stopped"}]
    /\ current \in [Threads -> Kernels \cup {None}]
    /\ \A t \in Threads : pc[t] = "handling" <=> current[t] # None
    /\ list_kernel \in [Threads -> SUBSET Kernels]
    /\ quit_enabled \in [Threads -> BOOLEAN]
    /\ \A t \in Threads : \A i \in DOMAIN EventQueue(t) :
          /\ EventQueue(t)[i].type \in {"msg", "export", "import"}
          /\ EventQueue(t)[i].kernel \in Kernels
    /\ moves \in 0 .. MaxMoves
    /\ hop \in [Kernels -> 0 .. moves]
    /\ done \subseteq DOMAIN posted

(* A kernel is always in exactly one place: in the list of the thread it is *)
(* assigned to, or in the one import event on its way into that list        *)
(* (_export_kernel_local_data, _import_kernel_local_data).                  *)
OneHome ==
    \A k \in Kernels :
        /\ \A t \in Threads \ {thread[k]} : k \notin list_kernel[t] /\ ImportsOf(t, k) = {}
        /\ Cardinality(ImportsOf(thread[k], k)) = (IF k \in list_kernel[thread[k]] THEN 0 ELSE 1)

(* A handler runs only on the thread its kernel is assigned to and has      *)
(* arrived at, so never two handlers of a kernel at once: a message sent to *)
(* a kernel in transit must not be taken before the import event.           *)
RunsAtHome ==
    \A t \in Threads : current[t] # None =>
        thread[current[t]] = t /\ current[t] \in list_kernel[t]

(* A message posted and not dispatched is in one queue, once: that of its   *)
(* kernel's thread, or inside the import event the kernel travels in.       *)
Copies(t, n) ==
    LET here(q) == {i \in DOMAIN q : q[i].type = "msg" /\ q[i].msg = n}
        q       == EventQueue(t)
        imports == {i \in DOMAIN q : q[i].type = "import"}
    IN  Cardinality(here(q))
            + Cardinality(UNION {{i} \X here(q[i].lqueue) : i \in imports})
            + Cardinality(UNION {{i} \X here(q[i].pqueue) : i \in imports})

NothingLost ==
    \A n \in DOMAIN posted : \A t \in Threads :
        Copies(t, n) = (IF n \notin done /\ t = thread[posted[n].kernel] THEN 1 ELSE 0)

(* Messages to one kernel are dispatched in the order they were posted in,  *)
(* as far as they go through the same lane and, in the shared one, while    *)
(* the kernel stays assigned to one thread.                                 *)
InOrder(m, n) ==
    /\ posted[m].kernel = posted[n].kernel
    /\ posted[m].lane = posted[n].lane
    /\ posted[n].lane = "local" \/ posted[m].hop = posted[n].hop

PostOrderKept ==
    \A n \in done : \A m \in 1 .. n - 1 : InOrder(m, n) => m \in done

(* A thread that has passed its last check and asks whether to quit, or has *)
(* left its loop, gets no kernel any more, also not one whose move was      *)
(* asked for before: nobody would import it (_quit_loop_check, find_thread).*)
LeavingGetsNoKernel ==
    [][\A t \in Threads : pc[t] \in {"asking", "stopped"} =>
          \A k \in Kernels : thread'[k] = t => thread[k] = t]_vars

(* Whatever has been posted is dispatched, however often its kernel moves,  *)
(* unless a thread leaves its loop.  (The posts being bounded, it is enough *)
(* that time and again nothing is left to dispatch.)                        *)
EveryPostDispatched ==
    []<>(DOMAIN posted \subseteq done \/ \E t \in Threads : pc[t] = "stopped")

(* The comment in _quit_loop_check: a thread is disabled in tid_map only if *)
(* nothing is pending for it, an import above all.                          *)
DisabledOnlyWhenNothingPending ==
    \A t \in Threads : pc[t] = "asking" => pending[t] = <<>>
=============================================================================
