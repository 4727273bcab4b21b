# coexx in TLA+

coexx is a C++ library of event-driven *sessions*.  Sessions live in *kernels*,
kernels run on *threads*, and a kernel may move from one thread to another
while other threads post messages to its sessions.  A session may drive a
*hierarchical state machine*.  This directory holds TLA+ models of these parts,
the TLC configurations that check them on small instances, and proofs, checked
by TLAPS, of what matters most for every instance.

All paths below are relative to the root of the repository.

## 1. Inventory

| component | code | state it keeps | operations | what makes it correct |
|---|---|---|---|---|
| thread event loop | `src/coe-thread--d4t.cpp` | `_lqueue`, `_pqueue`, `sched` (state, pending, io_requests, msgpipe_flag), the pipe, `_dsa_map`, `_fms_map` | `enqueue_msg_event`, `dequeue_event`, `_select_io`; alarms and watchers: create, delete, adjust, pause, resume | no wake-up is lost; an event is linked once; the pipe holds at most one byte; due alarms and ready descriptors are served; messages of one lane stay in order |
| migration, quitting threads | `src/coe-thread--d4t.cpp`, `src/coe-kernel.cpp` | `_thread`, `_target_thread`, `_list_kernel`, `glob.tid_map` | `move_to_thread`, export, import, `_quit_loop_check` | a kernel is in one place, handlers run only there, no message is lost or doubled, order is kept while the kernel stays |
| identifiers | `src/coe--util.h` | `_last`, `_overflow` | `generate_next`, twice | a new identifier is not in use |
| sessions and their tree | `src/coe-session--r4s.cpp`, `src/coe-kernel--r4k.cpp`, `src/coe-kernel.cpp` | parent, children, `stopper`, `sid_map`, handlers | start, stop, deferred deletion | no event of a deleted session is left; children are stopped and deleted before parents |
| arguments of handlers, callbacks, postbacks | `src/coe-kernel.cpp`, `src/coe--context.cpp`, `src/coe-kernel--imp.cpp`, `src/coe-callback-sev.cpp`, `src/coe-postback-sev.cpp` | `_locked` of each argument, the owner of each argument, `_refcnt` of each implementation, the stack of execution contexts | post, yield, call, start, stop, alarms, watchers, callbacks and postbacks: make, copy, call, post, reset | an argument has one owner, is freed once and not while it is read; the types a handler reads are those it is given |
| hierarchical state machines | `src/coe-hsm.cpp`, `src/coe-hsm--exec.cpp`, `include/coe-hsm.h` | `_active`, `_target`, histories and counters of each machine | `transit`, `transit_ex`, `terminate`, completion, histories, saving and restoring | a settled machine is in the legal configuration last aimed at; actions nest |
| thread creation | `src/coe-thread.cpp` | the record shared with the creator | `spawn_new`, `coe_thread_entry` | the creator returns with the identifier |
| configuration, singletons | `src/coe-config--d4c.cpp` | the singletons | `instance`, `destroy_d4t` | created once |
| synchronisation | `src/coe-sys-sync.cpp` | pthread objects | lock, wait, guards | locks are taken in one order |
| lists, strings, memory, time, statistics, type information | `src/coe--list.h`, `src/coe-coestr.cpp`, ... | data | linking, formatting, arithmetic | an element is in one list at most |

How they interact: a handler runs on the thread of its kernel and calls
directly into the loop's structures (alarms, watchers, its own local queue).
Another thread reaches a kernel only by `post_event`, which looks the kernel up
under `glob.rwlock`, appends to `sched.pending` of the kernel's thread under
`sched.mutex`, and wakes that thread if it waits.  Moving a kernel is an
*export* event on its thread and an *import* event on the other one.  Every
handler runs in an execution context, which locks the arguments it reads and
has one slot for a *continuation*; a state machine uses that slot to complete
its transitions when the handler has returned.

Hard parts: the two ways of waiting and waking (condition variable, and
notification pipe with `select`), chosen by a counter the waker reads; the
byte in the pipe that outlives its wait; alarms and watchers changed while
their event is queued; kernels that move while messages are posted to them;
threads that quit while a kernel is on its way; stops that nest and outlive
their handlers; arguments dropped by the handler that reads them; transitions
asked for from inside the actions of other transitions.  `PROJECT.json` lists
each of these hazards at its line, with the properties that cover it.

## 2. Modules

| module | models | relation |
|---|---|---|
| `Mailbox` | what a thread promises to those who post to it: two first-in first-out lanes, the local one served first | abstract |
| `EventLoop` | one `d4Thread`: loop, wake-up, alarms, watchers, clock, descriptors | implements `Mailbox` |
| `EventLoopProofs` | types, counts, wake-up, pipe; queues, alarms first, the step simulation of `Mailbox` | theorems about `EventLoop` |
| `Migration` | threads and kernels: moving, posting, quitting | composes threads whose waiting is `EventLoop`'s |
| `MigrationProofs` | one home, handlers at home; nothing lost or doubled, the order of posting, types | theorems about `Migration` |
| `Filter`, `FilterProofs` | the part of a queue that a loop selects (the export loops, the queue without alarms and watchers), and what is true of it | used by `EventLoop`, `Migration` and their proofs |
| `Idents` | `IdentGenerator` | |
| `IdentsProofs` | what the search returns, without its recursion; no identifier in use is handed out | theorems about `Idents` |
| `Lifecycle` | what a kernel promises about its sessions | abstract |
| `LifecycleProofs` | types, parents, connectedness | theorems about `Lifecycle` |
| `SessionTree`, `MCSessionTree` | the sessions of one kernel: starting, stopping, deleting, nested handlers, posts | implements `Lifecycle` |
| `SessionTreeProofs` | the walks over the tree, the inductive invariant, one lemma per action; the safety properties, the order of stop handlers, the step simulation of `Lifecycle` | theorems about `SessionTree` |
| `Params`, `MCParams` | who owns and locks the arguments of handlers; callbacks and postbacks | |
| `ParamsProofs` | owners, locks, references, types, one lemma per action | theorems about `Params` |
| `Hsm`, `MCHsm` | the executor of state machines | |
| `HsmProofs` | counters, settled configurations, the last request, startup and cleanup, nesting, restoring, assertions, one lemma per action | theorems about `Hsm` |

The `MC` modules give the instances that a configuration cannot write down:
the tree of states, the handlers' types, symmetry sets.

### EventLoop

`pc` is where the loop is: *taking* (top of `dequeue_event`), *handling* (in
`dispatch`), *cond* (blocked on the condition variable), *select* (about to
call, or in, `select`) and *selected* (`select` has returned, `sched.mutex` not
yet taken).  Each critical section under `sched.mutex` is one action:
`Post` (with its wake-up), `CollectPending`, `StartCondWait`, `StartSelect`,
`CondWake`, `ReadInterrupted`, `SelectUpdate`.  Between `select` and
`SelectUpdate` another thread can post, which is where a byte is left over.
What a handler may do is one action per call of the API; only the loop's
thread does these, so they need no finer grain.

Abstractions: a message, an alarm and a watcher are model values that stand
for their event objects; a watcher is one descriptor and mode.  Alarms due at
the same time are queued in either order (the code orders them by session and
alarm identifier).  `select` is one step that reports what is ready or that the
deadline has passed; a signal that interrupts it only makes the loop call it
again.  A descriptor that is ready stays so until the handler it is reported
to consumes it.

### Migration

Waiting is reduced here to its outcome: a waiting thread goes on once
something is pending, which is what `EventLoop` establishes.  `PostShared`
holds `glob.rwlock` for reading, `DispatchExport` for writing, so each is one
action; `move_to_thread` and the dispatches are thread-local up to that lock.
`_quit_loop_check` is cut at its lock: `QuitCheck` is the first critical
section, `QuitAnswer` the predicate and the second one; between the dequeue
that returned NULL (`Idle`), `QuitCheck` and `QuitAnswer` other threads act.
Messages are numbered in the order they are posted; `hop` counts how often a
kernel was exported, so that order can be stated.  The alarms and watchers a
kernel takes along are not represented.

### Idents

Both `generate_next` functions over ints of four bits, where adding one to the
largest wraps around to the smallest.  `Release` takes an identifier out of
use at any time.

### Lifecycle and SessionTree

`Lifecycle` is what a program may rely on: sessions form a tree below the
kernel's own; a stop takes effect on everything below at once; a stopped
session accepts no message; deletion comes after the last accepted message was
consumed and takes the whole subtree.

`SessionTree` is how the code does it.  `stack` is the stack of execution
contexts and of calls to `stop_session_tree`: a handler may start a session
(whose start handler runs at once), call another one's handler, or stop a tree
(whose stop handlers run at once), and each of these may do the same.
`stop_session_tree` is cut at its critical sections: `StopSession` marks the
tree (`_set_stopper`, write lock), `QueueDelete` queues the delete event
(`sched.mutex`), `CallStop` runs the next stop handler of `_call_stop`, whose
return removes the session's handlers, and `RemoveSids` gives up the
identifiers (write lock).  A poster outside holds the read lock from
`FindTarget` to `EnqueueEvent`.  `DispatchDelete` is `destroy()`.

The recursions of `_set_stopper`, `_call_stop`, `_remove_sid` and `destroy()`
over `_list_children` are `Reached(s, D)`: all that a walk from `s` meets which
enters only the sessions in `D`.  The first three differ from the last in
`D`: they do not enter a session that has another stopper.  Which session
`_call_stop` comes to next is `ToCall`: one of those left over, after all that
are below it and all that are below earlier siblings; the frame on the stack
remembers whose stop handler has returned.

Abstractions: a session has at most one alarm and one event handler, and which
alarms expire is left open (`EventLoop` has the clock).  Stop handlers always
exist; one that does nothing stands for none.  Watchers are deleted as alarms
are and are left to `EventLoop`; so is waiting.  Not represented: the program
deleting a session object itself (`~Session` stops the session first),
unregistrars, handlers run by `~Session` of the program's classes inside
`destroy()`, moves to another thread while a delete event is queued.  The
kernel's own session is never stopped: nothing in the code forbids it, but its
deletion would leave the kernel without its bottom context.

### Params

The heap says of each argument whether it exists and what `_locked` is:
positive while contexts read it, negative once its owner has gone and only
readers are left.  A frame of `stack` is an execution context with the prefix
and the argument it locks, what the call must delete when it returns
(`owned`), and what the handler itself still holds.  Every call of the API that
takes an argument is an action, with its refusals: an unknown target, no
handler for the types (`Found` may always fail), a watcher that exists
already.  Access to freed memory or a failed assertion makes the argument
*broken*, so that `NothingBroken` says there is none.  Any queued event may be
dispatched next, so the properties do not depend on the order `EventLoop`
gives.  Left out: handles that other threads drop (their count is atomic, the
lock of the prefix is not), and the pools that memory comes from.

### Hsm

The functions of `_MachineExecutor` call each other and user code recursively;
`stack` is that recursion, and one action runs the code of a function up to
the next call that can reach user code.  Entry and exit actions may ask for
further transitions (`Asking`), as handlers do (`Calls`).  `Continue` is the
kernel running `_complete_transition`.  `Respawn` saves a stable machine,
starts a copy and restores it: `save_machine_state`, `_start_copy`, with the
transitions and histories replayed in the order of the code.  `TopDown` is the
order in which `walk_top_down` visits the states, a constant like the tree, and
`VisitedBefore` says what makes it that order; what `record_transit` takes out of
its list again, because the next target is a child, is `Passed`.  A failed
assertion or a null state is `failed`.

What the model brought to light and no property states, because no document
promises otherwise: an exit action that calls `terminate` leads to states entered
after `on__cleanup` and without another `on__startup` (section 4); a transition that
an entry action cuts off can leave a state at `_active` -2 while the machine is out; a restored machine may have less
history, because restoring is refused where no ancestor retains any; and a context
has one continuation slot, so two machines driven by one handler overwrite each
other's.

`ActionsNest` is about order.  That `on__exit` runs once each time a state is left is
not expressed: a second call for a state at `_active` -2 would change no flag.

## 3. Runs

| run | instance | shows |
|---|---|---|
| `eventloop` | 2 messages, 2 alarms, 1 watcher, alarms set for 0..2, clock 0..1 | `NoLostWakeup`, `PipeSound`, `WakeupInv`, `QueueSound`, `IoRequestsExact`, `NoAlarmOvertaken`; `AlarmFires`, `WatcherServed`; `ImplementsMailbox`, with the mailbox's liveness |
| `migration` | 2 kernels, 2 threads and any posters, 3 messages, 4 moves, predicates that answer either way | `OneHome`, `RunsAtHome`, `NothingLost`, `PostOrderKept`, `LeavingGetsNoKernel`; `EveryPostDispatched` unless a thread leaves its loop |
| `migration_quit` | 1 kernel, 2 threads, 2 messages, 3 moves | finding 1 |
| `idents_predicate` | 4-bit ints, up to 4 identifiers in use | `NewIdUnused` for alarms |
| `idents_map` | the same, with the map | finding 2 |
| `sessiontree_safety` | 3 sessions, 1 poster, 2 requests, nesting 5, symmetric | `NoDanglingEvent`, `DeletedOnceByStopper`, `ParentOutlivesChild`, `Connected`, `StoppedOnceBeforeDeleted`, `ChildrenFirst` |
| `sessiontree_live` | 2 sessions, 1 poster, 2 requests, nesting 5 | `StoppedIsDeleted`, `ImplementsLifecycle` with its liveness |
| `sessiontree_handlers` | 1 session, 1 request | finding 3 |
| `hsm` | 13 states: an OR state with shallow history beside an AND state with deep history in one region; entry and exit actions that ask once until the machine settles | `CountsExact`, `StableMeansSettled`, `LastRequestWins`, `StartedWhileIn`, `RestoredSame`, `ActionsNest`, `Settles` |
| `hsm_transit_ex` | the same tree, `transit_ex` to a target above the exiting state | finding 4 |
| `hsm_exit_asks` | the same tree, one region's exit action asks for `transit` | finding 5 |
| `params` | 2 sessions, 2 arguments, 1 alarm, 2 callbacks, 1 postback, 2 implementations, at most 2 things that wait, 3 nested calls, 4 of both, symmetric | `OwnedOnce`, `LocksExact`, `ArgumentsGood`, `RefcntExact`, `NothingBroken` |

Why the bounds are enough.  A wake-up can only be lost between one post and
the next wait; two messages make one that wakes and one that finds the thread
woken, or two waits of different kinds in a row.  A watcher switches the way of
waiting, and with it a left-over byte meets a later wait.  Two alarms make one
that is first and one that is not, due together or one after the other; times
that the clock does not reach keep an alarm in the map.  Four moves let a kernel
move away and come back, ask, cancel and ask again while the first export is
queued, or be asked to go to a thread that had a kernel, gave it back and leaves
its loop meanwhile, with one more for the other kernel; a request that is changed
to a third thread is left to the theorems, which hold for any number; three
messages put one in each of the local queue, the collected queue and the
pending queue at the moment of an export.  Four bits are enough for the search
to start at every distance from the end of the range.  Three sessions make
every shape of tree in which a stop finds a part already stopped, with siblings
and with a chain; a nesting of five lets a stop handler stop an ancestor and
that one's stop handler still act.  A *request* is a post, a call, a handler or
alarm registered or removed; starts and stops are bounded by the sessions, and
one message in flight is enough to be overtaken by a delete event.  The tree of
states has an AND state in an OR state, OR states in both, both kinds of history
and two levels below a region, so that an inherited history and a default child
are both taken.  Two arguments are a prefix and an argument of one call; two
nested calls above a dispatched event let the inner handler drop what both
outer ones read.

`MaxNow` and `MaxTime` bound the clock and the times alarms are set for;
`MaxMsgs`, `MaxMoves`, `MaxOwed`, `MaxRequests`, `MaxAsks` and `MaxThings` bound
what is asked for; `MaxDepth` and `MaxTotal` bound nesting; `LastValue` and
`MaxLive` bound identifiers.  Each appears in guards only.

Deadlock checking is off where the system may stop: when the messages, moves
and requests allowed by the bounds are used up and everything is handled, all
threads wait, as they do in the program; a state machine that has failed stops
for good.  In `EventLoop` and `Idents` a step is always possible.  `TypeOK` of
`Idents` with the map documents what the fields hold and was checked on the
instance above; it is proved of the search, and so are those of `SessionTree`,
`Params` and `Hsm`.

### Fairness

`EventLoop`: the operating system runs the thread, so the steps of the loop
that stay possible are taken (`WF`); a handler returns; a wait that may end
because of a signal or a deadline ends; `select` returns when something is
ready.  `SelectUpdate` has strong fairness because a read of the pipe may be
interrupted any number of times, but not for ever.  `Tick` is fair: time
passes.  Nothing is assumed of posters, handlers' calls or descriptors.
`Migration`: each thread's loop is scheduled (`WF` per thread), which includes
that handlers return and predicates answer.
`SessionTree`: handlers return, the kernel's thread goes on with a stop and
with its loop, and a poster releases the lock it holds (`WF`); that handlers do
not post to themselves for ever is part of the bound on requests.
`Hsm`: a call that has begun goes on to its end (`WF`); `Continue` has strong
fairness because a handler may call again before it returns, but does return,
and then the kernel runs the continuation.

## 4. Proofs

Every theorem holds for all values of the constants that satisfy the module's
assumption, which TLC evaluates in the runs.

### The event loop

Assumed (`EventLoopAssumption`): alarms and watchers are finitely many, the
kinds of events are apart, and the bounds of the clock are natural numbers.  `EventLoopProofs`:

* `TypeCorrect`, `RequestsCounted`, `WakeupInvariant`: `TypeOK`,
  `IoRequestsExact` and `WakeupInv` are invariants.
* `NoWakeupLost`, `PipeAlwaysSound`: so are `NoLostWakeup` and `PipeSound`.

The argument.  `NoLostWakeup` is not inductive: whether a wake-up is on its way
depends on how the thread waits, which depends on `io_requests`, and on what is
in the pipe, which depends on earlier waits.  `WakeupInv` says how these go
together.  While the thread is in `select` or has returned from it, `io_requests`
is not zero, so that posters use the pipe; while it blocks on the condition
variable `io_requests` is zero, so that they signal.  The pipe holds one byte
exactly while the flag is up; a byte left over makes the next `select` return,
and a poster that finds the flag up may rely on it.  Descriptors reported
without the pipe were reported when it was empty, so at most one byte can have
been written since, and the flag, counted up once, stays below 3.  `TypeOK`
needs `IoRequestsExact`, because a watcher that stops counts down; the three
are proved together as `IndInv`, one step per action.

Its second half builds on that:

* `QueueInductive`, `QueuesAlwaysSound`: `QueueSound` is an invariant.
* `AlarmsFirst`: `NoAlarmOvertaken` holds of every step.
* `MailboxImplemented`: initial states map to initial states of `Mailbox`, and
  every step to a step of it or a stutter.

The argument.  A watcher is queued only while the loop is not polling, since
the queue is empty when a poll starts and what a poll reports is queued when it
has ended; an alarm is in the map, in the queue, or dispatched, never in two of
these; and the deadline of a poll was the first alarm's when it was computed
and no handler has run since.  For the refinement the thread's queue without
alarms and watchers, followed by what is pending, is the mailbox's shared lane
(`Keep` of `Filter`).  Collecting moves the pending messages behind an empty
filtered queue and so is a stutter; taking an alarm, queueing watchers or
removing an alarm does not change what is kept; and a message taken from the
head is the head of what is kept.

`FilterProofs` states what the loops over a queue compute: the result keeps
order and type, distributes over concatenation, and has as many elements as
there are places that satisfy the condition.  `Keep` is defined by a recursive
function; its induction is carried by a set of numbers closed under successor,
whose complement has no least element (`NatSetInduction`, `SeqSetInduction`).

### Identifiers

Assumed (`IdentsAssumption`): an int has more positive values than identifiers
can be in use, and both numbers are natural.  The width of an int is left open.
In `IdentsProofs`, about the generator that searches with a predicate:

* `IdentsTyped`: `IdentsInv` is an invariant, which contains `TypeOK`.
* `IdUnused`: `NewIdUnused` holds of every step.

The argument.  `FirstUnused` follows the code's loop by a recursive function, and
nothing is known of such a function but that it satisfies its equation if
anything does.  `SearchExists` therefore gives a solution that does not recur:
the least unused identifier from the start on or, if there is none, from 1 on;
from the largest int, whose increment wraps around, it is that of a search that
starts at the smallest.  It is well defined because fewer identifiers are in use
than are positive (`SomeUnused`, the pigeonhole).  So `FirstUnused` satisfies its
equation, and `SearchReaches` follows it backwards: where the search ends with an
unused identifier from one number, it does from every number before it, down to
the smallest int; the two places where it wraps around join the rest.  Before the
count itself has wrapped around, all that is in use is at most `last`, and the next
number is free.

### Migration

Assumed (`MigrationAssumption`): the main thread is not a spawned one, `None` is
neither a thread nor a kernel, and the bounds are natural numbers.

* `HomeInductive`: `IndInv` is an invariant.
* `HandlersAtHome`, `AlwaysOneHome`: so are `RunsAtHome` and `OneHome`.
* `NoKernelForLeaving`: every step satisfies `LeavingGetsNoKernel`.

The argument.  Neither invariant is inductive: that a message is not taken before
the import event of its kernel depends on where in the queue the event is, and
that there is one import event depends on what the other threads have.
`IndInv` says how a kernel `k` and a thread `t` can stand to each other, in
terms of the *share* of `k` in each queue of `t`: *away* (nothing of it), *arrived*
(in the list, and its share is messages and exports only), or *expected* (not
in the list, nothing in the local queue, and an import event stands before
everything else of it).  Every kernel has arrived or is expected at its own
thread and is away from all others (`Placed`).  Taking an event of `k` that is
not an import means that `k` has arrived; an export turns arrived into away and
away into expected on the target thread; an import turns expected into arrived;
collecting, posting and asking to move keep each relation.  What an import
brings belongs to its kernel (`TakenAlongCarries`), so the other kernels' shares
stay as they are.  `OneHome` counts the import events, by `KeepCount`.
`NoKernelForLeaving` needs only that a thread which asks its predicate, or has
stopped, is not in `tid_map` (`LeavingInv`), where the export looks again for the
thread it was asked to go to.

Its second half follows the messages:

* `DeliveryInductive`: `DeliveryInv`, together with `IndInv`, is an invariant.
* `AlwaysInPostOrder`, `AlwaysNothingLost`, `TypeCorrect`: so are
  `PostOrderKept`, `NothingLost` and `TypeOK`.

The argument.  Of the shares of a kernel in its thread's queues, and of what its
import event brings, `LocalFlow` and `SharedFlow` make one sequence per lane, in
the order in which the messages will be taken wherever they are now: what an
import event brings goes behind what has been collected and, once it is
collected itself, before what is pending.  `DeliveryInv` says that a flow
contains the messages due to the kernel in its lane and no others (`Due`), and
that two messages of one *stay* are in the order of their numbers (`InLine`);
in the local lane all messages count as one stay, in the shared lane those
posted while `hop` had the same value.  Posting appends a message to a flow;
dispatching takes the first; exporting, collecting and importing leave the flow
as it is, with one exception: while the import event is pending, what it brings
is behind it, but a collected import puts it behind what was collected with it.
There a message may be overtaken by one posted after the move, which is why
order is promised stay by stay: `Flows` records that what travels in a pending
import event is of an earlier stay than anything posted now.  `PostOrderKept`
follows at the dispatch, since a message of the same stay still due would be
further ahead in the flow.

`NothingLost` counts.  By `InLine` a message stands in a flow exactly once if it
is due, and not at all otherwise (`LineCount`), so the copies in the shares and
in the import event add up to one or to none (`CopiesOf`).  Every message in a
queue belongs to the share of its kernel, at that kernel's thread
(`QueuedIsDue`), every one in an import event to the kernel that the event
brings (`CarriedIsDue`), and there is one such event at most by `OneHome`; so
the sets counted by `NothingLost` have these sizes.  `TypeOK` needs that a
kernel is exported at most once for each recorded request (`CountInv`).

### Lifecycle

Assumed (`LifecycleAssumption`): the kernel's session is not one of the others.

* `Invariance`: `IndInv`, the conjunction of `TypeOK`, `ParentsStay` and
  `Connected`, is an invariant; `TypeCorrect`, `ParentsAlwaysStay` and
  `AlwaysConnected` state its parts.

`Lifecycle` has no run of its own: what it says of the code is what
`ImplementsLifecycle` checks and `Refinement` proves.  In particular `Settled`, that
nothing is owed to a tree when it is deleted, is a promise and no test in
`destroy()`: that it is kept rests on the order of the queues.

The argument.  What is below a session is the smallest set closed under taking
children (`BelowClosed`, `BelowLeast`), so no induction over the tree is
needed: a stop changes a session only together with its children, which keeps
live sessions below live ones; and if a set contains the kernel's session and
is closed after a deletion, the set together with what was deleted was closed
before, so all that is left is still connected.  The parts need each other: a
start keeps the tree connected because a new session has no parent yet, which
is part of `TypeOK`.  Together with `Refinement` below, these theorems speak
about the code's states.

### The sessions of a kernel

Assumed (`SessionTreeAssumption`): the kernel's session is not one of the others,
`None` is not a session, the bounds are natural numbers, and the threads that
post are finitely many (a count of posters is a number).  The sessions need not
be finitely many.  In `SessionTreeProofs`:

* `Invariance`: `IndInv` is an invariant; `TypeCorrect` is its first part.
* `NeverDangling`, `AlwaysDeletedOnce`, `ParentsOutlive`, `AlwaysConnected`,
  `AlwaysStoppedOnce`: `NoDanglingEvent`, `DeletedOnceByStopper`,
  `ParentOutlivesChild`, `Connected` and `StoppedOnceBeforeDeleted` are invariants.
* `StopsChildrenFirst`: every step satisfies `ChildrenFirst`.
* `Refinement`: initial states map to initial states of `Lifecycle`, and every
  step to a step of it or a stutter.

The argument.  None of the properties is inductive, and they hold for one
another's sake.  That no event dangles depends on the order of the queues when a
delete event is dispatched; that depends on a stopped session getting no more
messages, and this on its whole tree having been marked.  `IndInv` has a part
for each kind of state:

* `TreeInv`: `children` and `parent` agree, and everything attached is below the
  kernel's session.  `Upwards` draws from it what an induction over the tree
  would give: a set of attached sessions without the kernel's that contains the
  parents of its members is empty.
* `StopperInv`: a session that is stopped has the stopper of its parent, or is a
  stopper itself.  So the sessions of one stopper are connected, and a walk that
  enters only those meets all of them (`StoppedByIs`).
* `QueueInv`: a session that stops itself has one delete event, or the stop
  that will queue it is on top of the stack; in `_pqueue` followed by `pending`
  nothing stands behind a delete event that refers to a session below its root
  (`Before` of `FilterProofs`).  A message behind it is impossible since posting
  is refused from then on, with `local.rwlock` held; a message before it is
  dispatched first; and the deletion of a tree that contains trees stopped
  earlier finds their delete events gone.  `_lqueue` is empty when a delete event
  is dispatched, for it holds messages only and goes first.
* `StackInv`: the stops on the stack are of different trees; each knows a set of
  sessions it has called which is closed downwards within its tree, and the
  frame above it is the handler of the one it calls.
* `CallInv`: the stop handler of a stopped session has begun, and once, if the
  stop of its stopper has called it or has left the stack; its identifier is
  given up when the stop leaves the stack.

There is one lemma per action.  `ChildrenFirst` follows at `CallStop`, with the
nested stops found by `CallInv`.

For the refinement a session is *live* while attached and not stopped,
*stopped* while attached and stopped; what it is owed is the messages queued for
it and the posters that have found it (`Outstanding`).  A call, a return, an
alarm, `QueueDelete`, `CallStop` and `RemoveSids` are stutters: the abstract
stop is `StopSession`, in one step for the whole tree.  `FindTarget` is
`Accept`, the message queued later by `EnqueueEvent` being owed already.
`DispatchDelete` is `Delete`; that nothing is owed then to any session of the
tree follows from `QueueInv`, since the event stands first and everything for
the tree would stand before it.  That what is owed stays within the bound of
`Lifecycle` is `OwedBounded`: it never exceeds the number of requests.

### Arguments, callbacks and postbacks

Assumed (`ParamsAssumption`): arguments have types, and at least one value each
(the code has no `ValParam0`); the root session is one of the sessions; the ranges
of identifiers are apart from `None`, and callbacks from postbacks; sessions,
alarms, handles and what handles share are finitely many (owners are counted);
the depth of calls is bounded by a number.  The arguments need not be finitely
many.  In `ParamsProofs`:

* `Inductive`: `IInv` is an invariant.
* `AlwaysOwnedOnce`, `AlwaysLocksExact`, `AlwaysArgumentsGood`,
  `AlwaysRefcntExact`, `AlwaysNothingBroken`: so are the five properties the run
  checks; `TypeCorrect`: so is `TypeOK`.

The argument is a ledger.  `Own` counts the owners of each argument and `Lock`
its readers, as sums of tallies: a *tally* counts the places of one component (a
queue, the alarms, the stack ...) whose value names the argument.  `Account` says
that the books balance: an argument that exists has one owner and a `_locked`
that is the number of its readers, or no owner and that number negative; one that
is free has neither, and none is broken.  Each access to the memory has one lemma:
`Destroyed` and `Deleted` take an owner away, `Locked` and `Unlocked` add and
remove a reader, making an argument adds an owner.  Each way to change a component
has one too: it adds the arguments that the new value names to the tally, and
takes those of the old one away (`TallySet`, `TallyMore`, `TallyTail`).  A handler
of the kernel is then a sum of both, and the two sums agree.

The balance is not inductive alone.  `Deleted`, which is what a call does with the
argument it took, breaks an argument that is locked, so no handler and no call may
hold what somebody reads (`Apart`): an argument changes hands only when it is
given to a message, an alarm, a watcher or a handle, and contexts lock only what
those own; a call does not lock its argument.  That the argument of a call is there
for as long as it runs therefore rests on its caller: the call owns it, or the
handler below holds it, which cannot give it away while it waits (`Stacked`).
An alarm may be removed by its own handler, so what is destroyed when the handler
returns depends on `_dispatched_alarm` being that alarm, still there, or nothing
(`Remembered`).  What the handles share exists while one of them does and its
count is the number of handles (`Shared`, `Counted`): an assignment takes from one
and adds to the other, and the other cannot have gone, since the handle assigned
from is counted.

The properties follow by counting.  `Owners` and `Lockers` of the model are sets
of tagged places, which add up to `Own` and `Lock` (`AddTagged`); the types of a
handler are those of its arguments because `syntax_check` compares them one by one
(`SyntaxExact`); and a lock stays within the depth of calls because no context
locks an argument twice: it would own it twice.

### State machines

Assumed: the states are a finite tree, `Above` and `Kids` are what `Parent` makes
them, and only OR and AND states have children (`TreeAssumption`); what handlers
and actions ask for are calls of the API on states of the machine
(`CallsAssumption`); and `TopDown` visits each state before what is below it and
children in order (`WalkAssumption`).  The depth of the tree, how often actions ask
and what they ask for are left open.  In `HsmProofs`:

* `Inductive`: `IInv` is an invariant.
* `CountersAreExact`, `SettledIsLegal`, `LastOneWins`, `TypeCorrect`: so are
  `CountsExact`, `StableMeansSettled`, `LastRequestWins` and `TypeOK`.
* `InOnlyWhileStarted`, `EntriesAndExitsNest`: under `ExitsStay`, which says that
  no exit action asks for `terminate()`, `StartedWhileIn` is an invariant and
  every step satisfies `ActionsNest`.  The hypothesis is needed.  When an exit
  action calls `terminate` inside a transition, `do_cleanup` runs as soon as the
  counters agree (`src/coe-hsm--exec.cpp:519`), the transition that was leaving
  goes on to its targets (line 226), and they are entered in a machine that is not
  started; TLC finds this, in 55 states, when `Asking` of `MCHsm.cfg` is
  `(<<"ex", E1>> :> {terminate})`.  An entry action that calls `terminate` does no
  such harm, and is in the run.

The argument.  What is promised is promised of a machine at rest, and a step is
taken by a machine in the middle of several transitions, each cut off by the next.
`IInv` therefore explains every departure from a legal configuration by a call on
the stack that will mend it:

* `Aimed`: a state that is in is a target, or *doomed*: a call that leaves it, or
  a state above it, is under way.
* `Complete`: a state that is in has a target among its children (an AND state has
  all of them), unless it is doomed, or its entry action has not come back
  (`Resumes`), or its regions are being entered one after the other, and then those
  before the index are targets (`Regions`).
* `Path`, `Nested`: the targets, and the states that are in, are each closed upwards,
  and an OR state on the way names the child.
* `ExitsOnce`, `ChildrenFirst`: a state that has started to leave has a call of
  `on__exit`, and the calls that leave its children stand above it on the stack;
  an exit that finds the state left already does nothing.
* `EntersLast`, `EntersInside`: below a call that enters there are only calls that
  enter, so nothing is being left while a state is entered; `enter_target_state` is
  innermost and its parent is in.
* `Goal`: the goal is a target, or a `transit` or `prepare_target_path` is still
  to come that sets another.
* `Counted`, `Levels`: the counters agree with the flags, and the outermost call
  that restores `_action_level` restores that of a machine at rest.

There is one lemma per action.  Most steps replace the innermost call by others,
and `Moved` says where the calls go; lemmas such as `DoomedKept`, `ExitsKept` and
`CompleteKept` say which part of `IInv` survives what.  A transition is cut where
its path meets the targets there are (`Parts`, `PathParts`): what it takes from the
old path is doomed by the `exit_state` that the same step calls.  With an empty
stack all exceptions are gone and `Aimed` and `Complete` make the active states a
legal configuration inside the targets; the counters being equal, it is all of them
(`SettledIs`).

`SInv` adds `started`: `terminate` is called only where nothing but entering is
under way (`EndsOutside`), so that nothing aims at a state once `do_cleanup` has run
(`Off`).  An exit action that calls `terminate` breaks the first part.

The theorems above speak about runs in which the assertions of the code hold; a
failed one is the end of the model's run.

A machine that is restored:

* `RestoredIsSame`: `RestoredSame` is an invariant.

The argument.  `save_machine_state` records the targets of the settled machine from
the top down, without those whose child comes next (`Passed`).  `RInv` follows
the replay: with `conf` the states that were saved, `RestoresTo(conf)` says that
every target is in `conf`, that every state of `conf` is a target already or lies
above a state that some call on the stack is still going to aim at, and that no
state is in until all of them have.  `conf` has one child of each OR state
(`Whole`, which `SettledIsLegal` gives), so a later transition never turns away from
what an earlier one has aimed at.  Once states are being entered nothing is left
to aim at, hence all of `conf` is targeted; the choices that entering makes by
itself (the default child, the history) are never taken, for an OR state has a
target below it.  A machine at rest is in exactly its targets, which are `conf`,
whatever histories were replayed.

A machine that is used with care:

* `CarefulNeverFails`: under `Careful`, `NoFailure` is an invariant.  No assertion
  fails, no state above the root is used, in any nesting of transitions.

`Careful` has three parts.  TLC, and not the proof, says that each is needed, on the
tree of `MCHsm`:

* exit actions ask for nothing.  If one does while its AND state has other regions
  in, these are counted as active while nothing aims at them any more, and
  `assert(_active_count <= _target_count)` (`src/coe-hsm.cpp:251`) fails; this is
  finding 5, and the run `hsm_exit_asks` shows it;
* the state that `transit_ex` leaves is not deeper than the one it enters.
  This is finding 4, and the run `hsm_transit_ex` shows it;
* handlers set histories only in a machine whose entry actions ask for nothing
  either.  A transition that an entry action cuts off leaves states at `_active` -2;
  `set_history` that clears the history above one of them fails its assertion
  (`src/coe-hsm--exec.cpp:465`).

The argument.  `NInv` says what an assertion sees.  Without requests from exit
actions one transition is under way at a time, and its calls stand on the stack in
one order: what leaves, what aims, what follows, what started it, and what enters
(`Ordered`, by `Rank`).  So `exited` is the innermost call whenever there is one
(`ExitedLast`), and its state has not been touched since its exit action ran; when
`transited` runs nothing is being left any more, so by `Aimed` every state in is a
target and the counters compare as asserted; when `terminated` runs the root has
been left (`RootLeaves`), and with it all states.  `common_ancestor` is given the
higher state second, where its level is right, so neither passes the root (`Modest`).

The assertion of `clear_deep_history` needs more, `OInv`: a state that is not out is
below one that is in, where an OR state points (`InBelow`), so below a state that is
out everything is (`OutBelow`).  That follows from no transition being cut off:
a state runs its exit action when all its children are out, also those that have
run theirs already (`AllLeave`), and entering starts when none is half left
(`NoneHalf`).

### Only model-checked

Liveness under fairness is out of the prover's reach: `AlarmFires`,
`WatcherServed`, the liveness in `ImplementsMailbox`, `EveryPostDispatched`,
`StoppedIsDeleted`, the liveness in `ImplementsLifecycle`, `Settles`.  Every
invariant and every action property of a passing run is a theorem.

## 5. Findings

1. `_quit_loop_check` (`src/coe-thread--d4t.cpp:329-343`) announces a second
   look at the pending queue and looks at `_pqueue`, which is always empty
   there.  Run `migration_quit` shows a thread that disables itself while the
   import of a kernel is pending for it; if its predicate answers yes the
   thread leaves its loop and the kernel is lost.
2. `generate_next(map)` (`src/coe--util.h:71-84`) does not find the first gap:
   it stops at the next number.  Run `idents_map` shows it hand out an
   identifier in use.
3. `Kernel::state` (`src/coe-kernel--r4k.cpp:306`) does not ask whether the
   current session has been stopped.  Run `sessiontree_handlers` shows a session
   that stops itself and then registers a handler: the entry stays in
   `_s1ev_cmd` after the session is deleted, although stopping "finally" removes
   all handlers (`src/coe-session--r4s.cpp:192`).
4. `common_ancestor` (`src/coe-hsm--exec.cpp:44`) raises its second state by the
   wrong number of levels when the first one is the higher.  Run
   `hsm_transit_ex` shows a handler's `transit_ex` walk past the root.
5. `is_in_stable_state` (`src/coe-hsm.cpp:251`) asserts that no more states are
   active than targeted.  Run `hsm_exit_asks` shows the assertion fail: an exit action
   in one region of an AND state asks for a transition, as
   `src/contrib/hsm-play/sm1.cpp:80` does, while the other regions are still active
   and their targets are cleared already.

## 6. Not modelled

* **Session tree**: session objects deleted by the program, unregistrars,
  watchers, and a kernel that moves while a delete event is queued.
* **Watcher maps**: `_fms_map` and the lists of sessions, descriptors kept in a
  `short`, alarms and watchers carried along by a move.
* **Locks**: a critical section is one step in every model, so the order of
  `glob.rwlock`, `local.rwlock` and `sched.mutex` is not checked.  Two scheduler
  mutexes are held at once only under `glob.rwlock` held for writing.
* **Thread creation** holds its mutex from before `pthread_create` until the
  identifier has arrived, and waits in a loop: there is nothing to interleave.
* **Configuration and per-kernel singletons**: one double check, whose outcome
  depends on the compiler's and processor's ordering of memory.
* **Lists**: the rings of `coe--list.h` are sequences in the models.
* **Template layer**: the type check between handlers and arguments is in
  `Params`; the generated glue holds no state.
* Strings, memory pools, time arithmetic, statistics, errors, the examples, the
  tests and the contributed tools hold no protocol.

Next would come alarms and watchers that move with their kernel, in `Migration`.
