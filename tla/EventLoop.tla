----------------------------- MODULE EventLoop -----------------------------
(***************************************************************************)
(* One d4Thread of coexx: its event loop (dequeue_event, _select_io), the  *)
(* three queues it takes events from, the alarms and I/O watchers of its   *)
(* sessions, and the protocol by which other threads wake it.              *)
(*                                                                         *)
(* Other threads touch the thread only through `pending', the scheduler    *)
(* state, the condition variable and the notification pipe, all guarded by *)
(* sched.mutex.  Every critical section under that mutex is one action.    *)
(* The thread's own queues and maps need no lock; what the loop does       *)
(* between two critical sections is one action per step that another       *)
(* thread, the clock or a descriptor can interleave with.                  *)
(*                                                                         *)
(* The thread modelled hosts kernels that stay on it: kernels moving       *)
(* between threads, and a thread that leaves its loop because it has no    *)
(* kernel, are the subject of module Migration.                            *)
(***************************************************************************)
EXTENDS Integers, SequencesExt, Filter

CONSTANTS Msgs,      \* messages (EvMsg); each one is posted at most once
          Alarms,    \* alarm events (EvAlarm)
          Watchers,  \* I/O watchers (EvIO)
          MaxTime,   \* bound of the times an alarm may be set for
          MaxNow,    \* bound of the clock
          None,      \* no event is being dispatched
          MsgPipe    \* the notification pipe among the descriptors polled

Events == Msgs \cup Alarms \cup Watchers
Time   == 0 .. MaxTime

ASSUME EventLoopAssumption ==
    /\ IsFiniteSet(Alarms)
    /\ IsFiniteSet(Watchers)
    /\ Msgs \cap Alarms = {}
    /\ Msgs \cap Watchers = {}
    /\ Alarms \cap Watchers = {}
    /\ None \notin Events
    /\ MsgPipe \notin Watchers
    /\ MaxTime \in Nat /\ MaxNow \in Time

VARIABLES
    \* shared with posting threads, guarded by sched.mutex
    state,          \* Sched::state
    pending,        \* Sched::pending
    io_requests,    \* Sched::io_requests, the number of active watchers
    signalled,      \* the condition variable's waiter has been signalled
    msgpipe_flag,   \* Sched::msgpipe_flag
    pipe_open,      \* the notification pipe has been created
    pipe_bytes,     \* bytes in the notification pipe
    \* the loop itself
    pc,             \* where the loop is
    current,        \* the event being dispatched
    lqueue,         \* _lqueue, intra-kernel messages
    pqueue,         \* _pqueue
    timestamp,      \* _timestamp, the thread's cached time
    select_due,     \* the deadline _select_io was called with
    isset,          \* the descriptors the last select() reported
    \* alarms and watchers
    alarms,         \* the alarms that exist
    dsa_map,        \* those waiting in _dsa_map for their time
    time_due,       \* EvAlarm::_time_due
    watch,          \* each watcher: "none", "active" or "paused"
    \* the world outside
    now,            \* the clock
    ready,          \* watchers whose descriptor is ready
    posted          \* the messages posted so far

shared  == <<state, pending, io_requests, signalled, msgpipe_flag, pipe_open, pipe_bytes>>
wakeup  == <<signalled, msgpipe_flag, pipe_bytes>>
polling == <<select_due, isset>>
alarm   == <<alarms, dsa_map, time_due>>
world   == <<now, ready, posted>>
vars    == <<shared, pc, current, lqueue, pqueue, timestamp, polling, alarm, watch, world>>

NoDue == MaxTime + 1    \* _select_io called without a deadline

TypeOK ==
    /\ state \in {"BUSY", "WAIT"}
    /\ pending \in Seq(Msgs)
    /\ io_requests \in Nat
    /\ signalled \in BOOLEAN
    /\ msgpipe_flag \in Nat
    /\ pipe_open \in BOOLEAN
    /\ pipe_bytes \in Nat
    /\ pc \in {"taking", "handling", "cond", "select", "selected"}
    /\ current \in Events \cup {None}
    /\ lqueue \in Seq(Msgs)
    /\ pqueue \in Seq(Events)
    /\ timestamp \in Time
    /\ select_due \in Time \cup {NoDue}
    /\ isset \in SUBSET (Watchers \cup {MsgPipe})
    /\ alarms \in SUBSET Alarms
    /\ dsa_map \in SUBSET Alarms
    /\ time_due \in [Alarms -> Time]
    /\ watch \in [Watchers -> {"none", "active", "paused"}]
    /\ now \in Time
    /\ ready \in SUBSET Watchers
    /\ posted \in SUBSET Msgs

(***************************************************************************)
(* Initially the thread runs the code that creates its first kernel and    *)
(* sessions, before run_event_loop() is called: as in a handler, that code *)
(* posts, sets alarms and watches descriptors.                             *)
(***************************************************************************)
Init ==
    /\ state = "BUSY"
    /\ pending = <<>>
    /\ io_requests = 0
    /\ signalled = FALSE
    /\ msgpipe_flag = 0
    /\ pipe_open = FALSE
    /\ pipe_bytes = 0
    /\ pc = "handling"
    /\ current = None
    /\ lqueue = <<>>
    /\ pqueue = <<>>
    /\ timestamp = 0
    /\ select_due = NoDue
    /\ isset = {}
    /\ alarms = {}
    /\ dsa_map = {}
    /\ time_due = [a \in Alarms |-> 0]
    /\ watch = [w \in Watchers |-> "none"]
    /\ now = 0
    /\ ready = {}
    /\ posted = {}
-----------------------------------------------------------------------------
(***************************************************************************)
(* Posting.                                                                *)
(***************************************************************************)

(* Mutant: once the pipe exists, it is always the way to wake the thread.   *)
PollsOnceOpen == pipe_open

(* A thread with an active watcher polls descriptors when it waits.         *)
Polls == io_requests # 0

(* Mutant: every wake-up writes a byte.                                     *)
ByteAlways == TRUE

(* A byte is written only if the last one has been read.                    *)
ByteNeeded == msgpipe_flag = 0

(* _wakeup_waiting_thread: through the pipe when the thread polls           *)
(* descriptors, through the condition variable otherwise.  A signal is      *)
(* lost unless the thread is blocked on the condition variable.             *)
Wakeup ==
    IF Polls
    THEN /\ UNCHANGED signalled
         /\ IF ByteNeeded
            THEN /\ pipe_bytes' = pipe_bytes + 1
                 /\ msgpipe_flag' = 1
            ELSE UNCHANGED <<pipe_bytes, msgpipe_flag>>
    ELSE /\ signalled' = (signalled \/ pc = "cond")
         /\ UNCHANGED <<pipe_bytes, msgpipe_flag>>

(* The wake-up rule of enqueue_msg_event, given that `pending' grows.       *)
WakeupIfFirst ==
    IF state = "WAIT" /\ Len(pending') = 1 THEN Wakeup ELSE UNCHANGED wakeup

(* enqueue_msg_event, priority 0 and up: a message from another thread at   *)
(* any time, or from a handler to another kernel of the same thread.        *)
Post(m) ==
    /\ m \notin posted
    /\ posted' = posted \cup {m}
    /\ pending' = Append(pending, m)
    /\ WakeupIfFirst
    /\ UNCHANGED <<state, io_requests, pipe_open, pc, current, lqueue, pqueue,
                   timestamp, polling, alarm, watch, now, ready>>

(* Mutant: put_head for put_tail.                                           *)
LocalFirst(m) == <<m>> \o lqueue

LocalLast(m) == Append(lqueue, m)

(* enqueue_msg_event, priority below 0: a handler posts to its own kernel,  *)
(* or yields.                                                               *)
PostLocal(m) ==
    /\ pc = "handling"
    /\ m \notin posted
    /\ posted' = posted \cup {m}
    /\ lqueue' = LocalLast(m)
    /\ UNCHANGED <<shared, pc, current, pqueue, timestamp, polling, alarm, watch, now, ready>>
-----------------------------------------------------------------------------
(***************************************************************************)
(* Alarms.  delay_set and delay_adjust take a positive delay from          *)
(* `timestamp', the time the running event was taken.                      *)
(***************************************************************************)

(* create_alarm.  The alarm object being dispatched keeps its identity      *)
(* until its handler returns, so it is not the one created.                 *)
CreateAlarm(a, due) ==
    /\ pc = "handling"
    /\ a \notin alarms
    /\ a # current
    /\ due > timestamp
    /\ alarms' = alarms \cup {a}
    /\ dsa_map' = dsa_map \cup {a}
    /\ time_due' = [time_due EXCEPT ![a] = due]
    /\ UNCHANGED <<shared, pc, current, lqueue, pqueue, timestamp, polling, watch, world>>

(* delete_alarm, called by alarm_remove: an alarm that is already queued is *)
(* taken out of the queue.                                                  *)
DeleteAlarm(a) ==
    /\ pc = "handling"
    /\ a \in alarms
    /\ alarms' = alarms \ {a}
    /\ dsa_map' = dsa_map \ {a}
    /\ pqueue' = RemoveFirst(pqueue, a)
    /\ UNCHANGED <<shared, pc, current, lqueue, timestamp, polling, time_due, watch, world>>

(* Mutant: the adjusted alarm is left in the queue.                         *)
StillQueued(a, due) == pqueue

Requeued(a, due) == IF timestamp < due THEN RemoveFirst(pqueue, a) ELSE pqueue

(* adjust_alarm: the new time is later than `timestamp', so an alarm that   *)
(* is already queued goes back to waiting.                                  *)
AdjustAlarm(a, due) ==
    /\ pc = "handling"
    /\ a \in alarms
    /\ due > timestamp
    /\ pqueue' = Requeued(a, due)
    /\ dsa_map' = dsa_map \cup {a}
    /\ time_due' = [time_due EXCEPT ![a] = due]
    /\ UNCHANGED <<shared, pc, current, lqueue, timestamp, polling, alarms, watch, world>>

Expired == {a \in dsa_map : time_due[a] <= now}

(* The expired alarms in the order _dsa_map keeps them, by time; alarms due *)
(* at the same time are ordered by identifiers, here in either order.       *)
ExpiredInOrder ==
    {q \in SetToSeqs(Expired) :
        \A i, j \in DOMAIN q : i < j => time_due[q[i]] <= time_due[q[j]]}

(* Mutant: _select_io is always called without a deadline.                  *)
NeverDue == NoDue

FirstDue == IF dsa_map = {} THEN NoDue ELSE Min({time_due[a] : a \in dsa_map})
-----------------------------------------------------------------------------
(***************************************************************************)
(* I/O watchers.  io_requests counts the active ones; it changes without   *)
(* the mutex, but only while the thread is BUSY.                           *)
(***************************************************************************)

(* Mutant: stopping a watcher that is paused already counts once more.      *)
CountedDownAlways(w) == io_requests - 1

CountedDown(w) == IF watch[w] = "active" THEN io_requests - 1 ELSE io_requests

(* Mutant: a new or resumed watcher is not counted.                         *)
NotCounted(w) == io_requests

CountedUp(w) == io_requests + 1

(* create_io_watcher of a watcher that does not exist yet; selecting again  *)
(* on one that exists changes only its name and argument.                   *)
CreateWatcher(w) ==
    /\ pc = "handling"
    /\ watch[w] = "none"
    /\ watch' = [watch EXCEPT ![w] = "active"]
    /\ io_requests' = CountedUp(w)
    /\ UNCHANGED <<state, pending, signalled, msgpipe_flag, pipe_open, pipe_bytes, pc, current,
                   lqueue, pqueue, timestamp, polling, alarm, world>>

(* delete_io_watcher (to "none") and pause_io_watcher (to "paused"): both   *)
(* take the watcher's event out of the queue.                               *)
StopWatcher(w, how) ==
    /\ pc = "handling"
    /\ watch[w] # "none"
    /\ pqueue' = RemoveFirst(pqueue, w)
    /\ watch' = [watch EXCEPT ![w] = how]
    /\ io_requests' = CountedDown(w)
    /\ UNCHANGED <<state, pending, signalled, msgpipe_flag, pipe_open, pipe_bytes, pc, current,
                   lqueue, timestamp, polling, alarm, world>>

(* resume_io_watcher *)
ResumeWatcher(w) ==
    /\ pc = "handling"
    /\ watch[w] = "paused"
    /\ watch' = [watch EXCEPT ![w] = "active"]
    /\ io_requests' = CountedUp(w)
    /\ UNCHANGED <<state, pending, signalled, msgpipe_flag, pipe_open, pipe_bytes, pc, current,
                   lqueue, pqueue, timestamp, polling, alarm, world>>

(* The handler reads or writes the descriptor it was called for.            *)
ConsumeInput ==
    /\ pc = "handling"
    /\ current \in ready
    /\ ready' = ready \ {current}
    /\ UNCHANGED <<shared, pc, current, lqueue, pqueue, timestamp, polling, alarm, watch, now, posted>>
-----------------------------------------------------------------------------
(***************************************************************************)
(* The loop: dequeue_event, part "taking".                                 *)
(***************************************************************************)
TakeLocal ==
    /\ pc = "taking"
    /\ lqueue # <<>>
    /\ current' = Head(lqueue)
    /\ lqueue' = Tail(lqueue)
    /\ timestamp' = now
    /\ pc' = "handling"
    /\ UNCHANGED <<shared, pqueue, polling, alarm, watch, world>>

TakeQueued ==
    /\ pc = "taking"
    /\ lqueue = <<>>
    /\ pqueue # <<>>
    /\ current' = Head(pqueue)
    /\ pqueue' = Tail(pqueue)
    /\ timestamp' = now
    /\ pc' = "handling"
    /\ UNCHANGED <<shared, lqueue, polling, alarm, watch, world>>

(* The end of dispatch: an alarm its handlers did not delete is deleted     *)
(* now, even when a handler adjusted it (dispatch_alarm).                   *)
HandlerReturn ==
    /\ pc = "handling"
    /\ pc' = "taking"
    /\ current' = None
    /\ alarms' = alarms \ {current}
    /\ dsa_map' = dsa_map \ {current}
    /\ UNCHANGED <<shared, lqueue, pqueue, timestamp, polling, time_due, watch, world>>

NothingToTake == pc = "taking" /\ lqueue = <<>> /\ pqueue = <<>>

(* Mutant: the messages are queued first.                                   *)
MessagesFirst(expired) == pending \o expired

(* The alarms that expired meanwhile, then _pqueue_pending_events.          *)
Collected(expired) == expired \o pending

(* Messages are pending: first queue the alarms that expired meanwhile.     *)
CollectPending ==
    /\ NothingToTake
    /\ pending # <<>>
    /\ timestamp' = now
    /\ \E expired \in ExpiredInOrder : pqueue' = Collected(expired)
    /\ dsa_map' = dsa_map \ Expired
    /\ pending' = <<>>
    /\ UNCHANGED <<state, io_requests, wakeup, pipe_open, pc, current, lqueue, polling,
                   alarms, time_due, watch, world>>

(* Nothing is pending and nothing is polled: block on the condition         *)
(* variable.                                                                *)
StartCondWait ==
    /\ NothingToTake
    /\ pending = <<>>
    /\ io_requests = 0
    /\ state' = "WAIT"
    /\ signalled' = FALSE
    /\ pc' = "cond"
    /\ UNCHANGED <<pending, io_requests, msgpipe_flag, pipe_open, pipe_bytes, current, lqueue,
                   pqueue, timestamp, polling, alarm, watch, world>>

(* Nothing is pending but descriptors are polled: create the notification   *)
(* pipe the first time, and go on to _select_io with the first deadline.    *)
StartSelect ==
    /\ NothingToTake
    /\ pending = <<>>
    /\ io_requests # 0
    /\ state' = "WAIT"
    /\ pipe_open' = TRUE
    /\ select_due' = FirstDue
    /\ pc' = "select"
    /\ UNCHANGED <<pending, io_requests, wakeup, current, lqueue, pqueue, timestamp, isset,
                   alarm, watch, world>>
-----------------------------------------------------------------------------
(***************************************************************************)
(* Waiting on the condition variable.  The wait may end spuriously; it     *)
(* must end after a signal or once the first alarm is due.                 *)
(***************************************************************************)
CondWake ==
    /\ pc = "cond"
    /\ \E expired \in ExpiredInOrder : pqueue' = pqueue \o pending \o expired
    /\ dsa_map' = dsa_map \ Expired
    /\ pending' = <<>>
    /\ timestamp' = now
    /\ signalled' = FALSE
    /\ IF pqueue' # <<>>
       THEN state' = "BUSY" /\ pc' = "taking"
       ELSE UNCHANGED <<state, pc>>
    /\ UNCHANGED <<io_requests, msgpipe_flag, pipe_open, pipe_bytes, current, lqueue, polling,
                   alarms, time_due, watch, world>>

CondWakeDue == (signalled \/ Expired # {}) /\ CondWake
-----------------------------------------------------------------------------
(***************************************************************************)
(* Polling descriptors: _select_io.                                        *)
(***************************************************************************)
Active  == {w \in Watchers : watch[w] = "active"}
Polled  == (Active \cap ready) \cup (IF pipe_bytes > 0 THEN {MsgPipe} ELSE {})
PastDue == select_due <= now

(* select() returns with every descriptor that is ready, or with none at    *)
(* the deadline.  A call that a signal interrupts is just made again.       *)
SelectReturns ==
    /\ pc = "select"
    /\ Polled # {} \/ PastDue
    /\ isset' = Polled
    /\ pc' = "selected"
    /\ UNCHANGED <<shared, current, lqueue, pqueue, timestamp, select_due, alarm, watch, world>>

(* The first half of the guarded update: pending messages, then the alarms  *)
(* if the deadline has passed; `more' is what the second half appends.      *)
Gather(more) ==
    /\ IF PastDue
       THEN /\ \E expired \in ExpiredInOrder : pqueue' = pqueue \o pending \o expired \o more
            /\ dsa_map' = dsa_map \ Expired
       ELSE /\ pqueue' = pqueue \o pending \o more
            /\ UNCHANGED dsa_map
    /\ pending' = <<>>
    /\ timestamp' = now
    /\ UNCHANGED <<alarms, time_due>>

(* Reading the notification pipe is interrupted: back to select(), the byte *)
(* and what was gathered still there.                                       *)
ReadInterrupted ==
    /\ pc = "selected"
    /\ MsgPipe \in isset
    /\ Gather(<<>>)
    /\ pc' = "select"
    /\ UNCHANGED <<state, io_requests, wakeup, pipe_open, current, lqueue, polling, watch, world>>

(* read() takes up to eight bytes; the code aborts unless it got one.       *)
BytesRead == IF MsgPipe \in isset THEN Min({pipe_bytes, 8}) ELSE 0

(* The guarded update: empty the pipe, then queue an event per ready        *)
(* watcher.  Descriptors reported while a byte is on its way count it in    *)
(* msgpipe_flag.                                                            *)
SelectUpdate ==
    LET fds  == isset \ {MsgPipe}
        flag == IF MsgPipe \in isset THEN 0 ELSE msgpipe_flag
    IN  /\ pc = "selected"
        /\ pipe_bytes' = pipe_bytes - BytesRead
        /\ msgpipe_flag' = IF fds # {} /\ flag # 0 THEN flag + 1 ELSE flag
        /\ \E evios \in SetToSeqs(fds \cap Active) : Gather(evios)
        /\ IF pqueue' # <<>>
           THEN state' = "BUSY" /\ pc' = "taking"
           ELSE pc' = "select" /\ UNCHANGED state
        /\ UNCHANGED <<io_requests, signalled, pipe_open, current, lqueue, polling, watch, world>>
-----------------------------------------------------------------------------
(***************************************************************************)
(* The clock and the descriptors.                                          *)
(***************************************************************************)
Tick ==
    /\ now < MaxNow
    /\ now' = now + 1
    /\ UNCHANGED <<shared, pc, current, lqueue, pqueue, timestamp, polling, alarm, watch, ready, posted>>

BecomeReady(w) ==
    /\ w \notin ready
    /\ ready' = ready \cup {w}
    /\ UNCHANGED <<shared, pc, current, lqueue, pqueue, timestamp, polling, alarm, watch, now, posted>>
-----------------------------------------------------------------------------
Handler ==
    \/ \E m \in Msgs : PostLocal(m)
    \/ \E a \in Alarms : DeleteAlarm(a)
    \/ \E a \in Alarms, due \in Time : CreateAlarm(a, due) \/ AdjustAlarm(a, due)
    \/ \E w \in Watchers :
          CreateWatcher(w) \/ StopWatcher(w, "none") \/ StopWatcher(w, "paused") \/ ResumeWatcher(w)
    \/ ConsumeInput

Loop ==
    \/ TakeLocal \/ TakeQueued \/ HandlerReturn
    \/ CollectPending \/ StartCondWait \/ StartSelect
    \/ CondWake
    \/ SelectReturns \/ ReadInterrupted \/ SelectUpdate

Environment ==
    \/ \E m \in Msgs : Post(m)
    \/ Tick
    \/ \E w \in Watchers : BecomeReady(w)

Next == Handler \/ Loop \/ Environment

(***************************************************************************)
(* The operating system runs the thread: each step of the loop that stays  *)
(* possible is taken, a handler returns, a wait that may end does end.  A  *)
(* read of the pipe is not interrupted for ever.  Time passes.  Nobody is  *)
(* obliged to post, and no descriptor to become ready.                     *)
(***************************************************************************)
Fairness ==
    /\ WF_vars(TakeLocal \/ TakeQueued \/ CollectPending \/ StartCondWait \/ StartSelect)
    /\ WF_vars(HandlerReturn)
    /\ WF_vars(CondWakeDue)
    /\ WF_vars(SelectReturns)
    /\ SF_vars(SelectUpdate)
    /\ WF_vars(Tick)

Spec == Init /\ [][Next]_vars /\ Fairness
-----------------------------------------------------------------------------
(***************************************************************************)
(* Properties.                                                             *)
(***************************************************************************)

(* No wake-up is lost (enqueue_msg_event, dequeue_event, _select_io): when  *)
(* the thread waits although something is queued for it, its wait is bound  *)
(* to end, whichever way it waits and whatever way it waited before.        *)
NoLostWakeup ==
    state = "WAIT" =>
        /\ lqueue = <<>>
        /\ pending # <<>> \/ pqueue # <<>> =>
              \/ pc = "cond" /\ signalled
              \/ pc \in {"select", "selected"} /\ pipe_bytes > 0

(* The notification pipe and its flag agree: a byte is in the pipe exactly  *)
(* while the flag is up, so that a read always gets the single byte it      *)
(* expects (else _select_io aborts), a write never finds the pipe missing,  *)
(* and the flag stays within the assertion of _select_io.                   *)
PipeSound ==
    /\ pipe_bytes = (IF msgpipe_flag = 0 THEN 0 ELSE 1)
    /\ msgpipe_flag <= 2
    /\ pc = "selected" /\ MsgPipe \in isset => pipe_bytes = 1
    /\ state = "WAIT" /\ io_requests # 0 => pipe_open

(* What makes the two above inductive: how the state of the scheduler, the  *)
(* place of the loop, io_requests and the pipe go together.  A byte may be  *)
(* left over from an earlier wait; then the flag is already up, and no      *)
(* further byte is written.                                                 *)
WakeupInv ==
    /\ state = (IF pc \in {"cond", "select", "selected"} THEN "WAIT" ELSE "BUSY")
    /\ msgpipe_flag \in 0 .. 2
    /\ pipe_bytes = (IF msgpipe_flag = 0 THEN 0 ELSE 1)
    /\ pc \in {"cond", "select", "selected"} => lqueue = <<>>
    /\ pc = "cond" =>
          /\ io_requests = 0
          /\ pqueue = <<>>
          /\ pending # <<>> => signalled
    /\ pc \in {"select", "selected"} =>
          /\ io_requests # 0
          /\ pipe_open
          /\ pending # <<>> \/ pqueue # <<>> => pipe_bytes = 1
    /\ pc = "selected" =>
          IF MsgPipe \in isset THEN pipe_bytes = 1 ELSE msgpipe_flag <= 1

(* An event is linked once (the queues are intrusive lists): nothing is     *)
(* twice in the queues, a message in one of them has been posted, a queued  *)
(* alarm is one that exists and does not wait for its time too, a queued    *)
(* watcher is active, and the event being dispatched is not queued again.   *)
(* While the thread polls, no watcher is queued and no alarm is due before  *)
(* the deadline it polls with.                                              *)
QueueSound ==
    /\ IsInjective(pqueue)
    /\ IsInjective(pending)
    /\ Range(pending) \subseteq posted
    /\ \A m \in Msgs \cap Range(pqueue) : m \in posted \ Range(pending)
    /\ \A a \in Alarms \cap Range(pqueue) : a \in alarms \ (dsa_map \cup {current})
    /\ \A w \in Watchers \cap Range(pqueue) :
          watch[w] = "active" /\ pc \notin {"select", "selected"}
    /\ dsa_map \subseteq alarms
    /\ current # None => pc = "handling"
    /\ pc \in {"select", "selected"} => \A a \in dsa_map : select_due <= time_due[a]

(* io_requests, which decides how the thread waits and how it is woken, is  *)
(* the number of active watchers after every create, delete, pause, resume. *)
IoRequestsExact == io_requests = Cardinality(Active)

(* Messages do not overtake alarms: whenever pending messages are moved to  *)
(* the thread's queue, every alarm that is due by then is moved with them,  *)
(* and before them if the thread was busy.  (A thread that waited gets the  *)
(* messages it was woken for first.)                                        *)
NoAlarmOvertaken ==
    [][pending # <<>> /\ pending' = <<>> =>
         /\ \A a \in dsa_map' : time_due[a] > now
         /\ pc = "taking" => \A i, j \in DOMAIN pqueue' :
              i < j /\ pqueue'[j] \in Alarms => pqueue'[i] \in Alarms]_vars

(* An alarm that is due is dispatched, removed or adjusted, whatever else   *)
(* the thread waits for.                                                    *)
Overdue(a) == a \in alarms /\ time_due[a] <= now /\ a # current

AlarmFires == \A a \in Alarms : Overdue(a) ~> ~Overdue(a)

(* A ready descriptor with an active watcher gets its handler called,       *)
(* unless the watcher is removed or paused meanwhile.                       *)
Unserved(w) == w \in ready /\ watch[w] = "active" /\ w # current

WatcherServed == \A w \in Watchers : Unserved(w) ~> ~Unserved(w)

(* To its posters the thread is a Mailbox: its own queue without alarms and *)
(* watchers, followed by what is pending, is the shared lane.               *)
Box == INSTANCE Mailbox WITH
           local  <- lqueue,
           shared <- Keep(pqueue, Msgs) \o pending,
           posted <- posted

ImplementsMailbox == Box!Spec
=============================================================================
