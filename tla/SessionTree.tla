----------------------------- MODULE SessionTree -----------------------------
(***************************************************************************)
(* The sessions of one coexx kernel: starting them below a parent,         *)
(* stopping a tree of them while its handlers still run, and deleting the  *)
(* tree later, when its delete event is dispatched.  The kernel's thread   *)
(* runs handlers that start, stop and call sessions, so that handlers and  *)
(* stops nest; other threads post messages at the same time.               *)
(*                                                                         *)
(* Everything the kernel's thread does between two critical sections is    *)
(* one action; local.rwlock is held by a thread that posts from the moment *)
(* it has found the session until the event is queued.                     *)
(***************************************************************************)
EXTENDS Integers, SequencesExt, Filter

CONSTANTS Sessions,    \* the sessions a program creates
          Kernel,      \* the kernel session
          Posters,     \* threads that post to the kernel from outside
          None,
          MaxRequests, \* bound on what the program asks for besides starts and stops
          MaxDepth     \* bound on the nesting of handlers and stops

ASSUME SessionTreeAssumption ==
    /\ Kernel \notin Sessions
    /\ None \notin Sessions \cup {Kernel}
    /\ MaxRequests \in Nat /\ MaxDepth \in Nat
    /\ IsFiniteSet(Posters)

Nodes == {Kernel} \cup Sessions

VARIABLES
    life,       \* r4Session object: "new", "attached" or "deleted"
    parent,     \* r4Session::_parent
    children,   \* r4Session::_list_children
    stopper,    \* r4Session::local.stopper
    sid_map,    \* r4Kernel::local.sid_map: the sessions found by identifier
    handlers,   \* r4Kernel::_s1ev_cmd: the sessions with an event handler
    alarm,      \* the alarm in r4Session::_list_alarm
    lqueue,     \* d4Thread::_lqueue
    pqueue,     \* d4Thread::_pqueue
    pending,    \* Sched::pending
    stack,      \* the handlers and stops that run, innermost last
    posting,    \* the session each poster has found, local.rwlock held
    requests,   \* posts, calls, handlers and alarms asked for so far
    stops       \* how often the stop handler of a session was run

tree   == <<life, parent, children>>
local  == <<stopper, sid_map>>
queues == <<lqueue, pqueue, pending>>
vars   == <<tree, local, handlers, alarm, queues, stack, posting, requests, stops>>

(* Events, and what is on the stack.  A stop knows the nodes whose          *)
(* call_stop has returned; its session is the root of what is stopped.      *)
Event(t, s) == [type |-> t, session |-> s]
Handler(s)  == [type |-> "handler", session |-> s, done |-> {}]
Stop(r, at, d) == [type |-> at, session |-> r, done |-> d]

Top      == Last(stack)
Running  == stack # <<>> /\ Top.type = "handler"
Current  == Top.session
Pushed(f) == Append(stack, f)
Below    == Front(stack)

Init ==
    /\ life = [s \in Nodes |-> IF s = Kernel THEN "attached" ELSE "new"]
    /\ parent = [s \in Nodes |-> None]
    /\ children = [s \in Nodes |-> <<>>]
    /\ stopper = [s \in Nodes |-> None]
    /\ sid_map = {Kernel}
    /\ handlers = {}
    /\ alarm = [s \in Nodes |-> "none"]
    /\ lqueue = <<>> /\ pqueue = <<>> /\ pending = <<>>
    /\ stack = <<Handler(Kernel)>>
    /\ posting = [p \in Posters |-> None]
    /\ requests = 0
    /\ stops = [s \in Nodes |-> 0]
-----------------------------------------------------------------------------
(***************************************************************************)
(* Trees of sessions.                                                      *)
(***************************************************************************)
Kids(n) == ToSet(children[n])

(* The session and those below it that a walk meets which enters only the   *)
(* sessions in D: what every set has in it that contains the session and    *)
(* the children in D of all its members.                                    *)
Reached(s, D) ==
    {n \in Nodes : \A X \in SUBSET Nodes :
        s \in X /\ (\A m \in X : Kids(m) \cap D \subseteq X) => n \in X}

Descendants(r) == Reached(r, Nodes)

(* Mutant: the stop goes into sessions that were stopped before.            *)
AllNodes(r) == Reached(r, Nodes)

(* Those whose stopper is r, all of which _call_stop and _remove_sid visit. *)
StoppedBy(r) == Reached(r, {n \in Nodes : stopper[n] = r})

(* Mutant: the lock is not asked for.                                       *)
NotAsked == TRUE

(* local.rwlock is free for a writer.                                       *)
NoReader == \A p \in Posters : posting[p] = None
-----------------------------------------------------------------------------
(***************************************************************************)
(* What a handler may do.                                                  *)
(***************************************************************************)
Request == requests < MaxRequests /\ requests' = requests + 1

MayHaveChildren(p) == stopper[p] = None

(* start_session: attach below the parent, allocate an identifier under     *)
(* local.rwlock, run the start handler.  Below a stopped parent the new     *)
(* session is deleted.                                                      *)
StartSession(s, p) ==
    /\ Running /\ life[s] = "new" /\ life[p] = "attached"
    /\ Len(stack) < MaxDepth
    /\ IF MayHaveChildren(p)
       THEN /\ NoReader
            /\ life' = [life EXCEPT ![s] = "attached"]
            /\ parent' = [parent EXCEPT ![s] = p]
            /\ children' = [children EXCEPT ![p] = Append(@, s)]
            /\ sid_map' = sid_map \cup {s}
            /\ stack' = Pushed(Handler(s))
       ELSE /\ life' = [life EXCEPT ![s] = "deleted"]
            /\ UNCHANGED <<parent, children, sid_map, stack>>
    /\ UNCHANGED <<stopper, handlers, alarm, queues, posting, requests, stops>>

(* Mutant: sessions that are stopped already get a new stopper.             *)
MarksAll(r) ==
    [n \in Nodes |-> IF n \in Descendants(r) THEN r ELSE stopper[n]]

(* _set_stopper, down to sessions that are stopped already.                 *)
Marks(r) ==
    LET marked == Reached(r, {n \in Nodes : stopper[n] = None})
    IN  [n \in Nodes |-> IF n \in marked THEN r ELSE stopper[n]]

(* stop_session, then stop_session_tree: every session of the tree that is  *)
(* not being stopped is marked, under local.rwlock held for writing.        *)
StopSession(r) ==
    /\ Running /\ life[r] = "attached" /\ stopper[r] = None
    /\ Len(stack) + 1 < MaxDepth
    /\ NoReader
    /\ stopper' = Marks(r)
    /\ stack' = Pushed(Stop(r, "marked", {}))
    /\ UNCHANGED <<tree, sid_map, handlers, alarm, queues, posting, requests, stops>>

(* post_event to a session of the same kernel, itself included.  A          *)
(* priority below zero means the local queue.                               *)
PostLocal(to) ==
    /\ Running /\ Request
    /\ to \in sid_map \cup {Current} /\ stopper[to] = None
    /\ \/ lqueue' = Append(lqueue, Event("msg", to)) /\ UNCHANGED pending
       \/ pending' = Append(pending, Event("msg", to)) /\ UNCHANGED lqueue
    /\ UNCHANGED <<tree, local, handlers, alarm, pqueue, stack, posting, stops>>

(* Kernel::yield does not look at the stopper: a session that is stopped    *)
(* still posts to itself, through the local queue.                          *)
Yield ==
    /\ Running /\ Request
    /\ lqueue' = Append(lqueue, Event("msg", Current))
    /\ UNCHANGED <<tree, local, handlers, alarm, pqueue, pending, stack, posting, stops>>

(* call__arg: a session that is found has the handler run at once, even     *)
(* when it is being stopped.                                                *)
Call(on) ==
    /\ Running /\ Request /\ Len(stack) < MaxDepth
    /\ on \in sid_map \cup {Current} /\ on \in handlers
    /\ stack' = Pushed(Handler(on))
    /\ UNCHANGED <<tree, local, handlers, alarm, queues, posting, stops>>

(* state__cmd: register the current session's handler, or remove it.        *)
State ==
    /\ Running /\ Request
    /\ handlers' \in {handlers \cup {Current}, handlers \ {Current}}
    /\ UNCHANGED <<tree, local, alarm, queues, stack, posting, stops>>

Without(q, D) == Keep(q, {e \in ToSet(q) : ~ (e.type = "alarm" /\ e.session \in D)})

CreateAlarm ==
    /\ Running /\ Request /\ alarm[Current] = "none"
    /\ alarm' = [alarm EXCEPT ![Current] = "waiting"]
    /\ UNCHANGED <<tree, local, handlers, queues, stack, posting, stops>>

DeleteAlarm ==
    /\ Running /\ Request /\ alarm[Current] # "none"
    /\ alarm' = [alarm EXCEPT ![Current] = "none"]
    /\ pqueue' = Without(pqueue, {Current})
    /\ UNCHANGED <<tree, local, handlers, lqueue, pending, stack, posting, stops>>
-----------------------------------------------------------------------------
(***************************************************************************)
(* The rest of stop_session_tree.                                          *)
(***************************************************************************)
Stopping(at) == stack # <<>> /\ Top.type = at

(* Mutant: the delete event is queued first.                                *)
DeleteFirst(r) == <<Event("delete", r)>> \o pending

DeleteLast(r) == Append(pending, Event("delete", r))

(* Under sched.mutex the event that deletes the tree is put in the queue.   *)
QueueDelete ==
    /\ Stopping("marked")
    /\ pending' = DeleteLast(Current)
    /\ stack' = Append(Below, Stop(Current, "calling", {}))
    /\ UNCHANGED <<tree, local, handlers, alarm, lqueue, pqueue, posting, requests, stops>>

(* The sessions _call_stop has still to visit.                              *)
Left == StoppedBy(Current) \ Top.done

(* Mutant: a session is visited before those below it.                      *)
ParentsFirst == {n \in Left : n = Current \/ parent[n] \notin Left}

(* The next one: those below a session come before it, and those below one  *)
(* of its children before those below the next.                             *)
ToCall ==
    {n \in Left :
        /\ Kids(n) \cap Left = {}
        /\ \A m \in Left \ {Current} : n \in Descendants(m) =>
              LET siblings == children[parent[m]]
              IN  \A i, j \in DOMAIN siblings :
                    siblings[j] = m /\ i < j => siblings[i] \notin Left}

(* call_stop: the stop handler of the next session runs.                    *)
CallStop ==
    /\ Stopping("calling")
    /\ \E n \in ToCall :
         /\ stack' = Pushed(Handler(n))
         /\ stops' = [stops EXCEPT ![n] = @ + 1]
    /\ UNCHANGED <<tree, local, handlers, alarm, queues, posting, requests>>

(* _remove_sid, under local.rwlock held for writing.                        *)
RemoveSids ==
    /\ Stopping("calling") /\ Left = {}
    /\ NoReader
    /\ sid_map' = sid_map \ StoppedBy(Current)
    /\ stack' = Below
    /\ UNCHANGED <<tree, stopper, handlers, alarm, queues, posting, requests, stops>>

(* A handler returns.  A stop handler's session then loses its handlers; an *)
(* alarm whose handler it was is deleted, unless the handler did so.        *)
HandlerReturn ==
    LET s == Current
        ofStop == Below # <<>> /\ Last(Below).type = "calling"
    IN  /\ Running
        /\ stack' = IF ofStop
                    THEN [Below EXCEPT ![Len(Below)].done = @ \cup {s}]
                    ELSE Below
        /\ handlers' = IF ofStop THEN handlers \ {s} ELSE handlers
        /\ alarm' = [alarm EXCEPT ![s] = IF Below = <<>> /\ @ = "dispatched" THEN "none" ELSE @]
        /\ UNCHANGED <<tree, local, queues, posting, requests, stops>>
-----------------------------------------------------------------------------
(***************************************************************************)
(* The event loop of the kernel's thread.                                  *)
(***************************************************************************)
NextEvent == IF lqueue # <<>> THEN Head(lqueue) ELSE Head(pqueue)

HasEvent(t) == stack = <<>> /\ lqueue \o pqueue # <<>> /\ NextEvent.type = t

RestQueued == IF lqueue # <<>> THEN pqueue ELSE Tail(pqueue)

Taken ==
    /\ lqueue' = IF lqueue # <<>> THEN Tail(lqueue) ELSE lqueue
    /\ pqueue' = RestQueued

(* A handler runs if the session is alive and has one.                      *)
Dispatched(s) ==
    stack' = IF stopper[s] = None /\ s \in handlers THEN <<Handler(s)>> ELSE <<>>

DispatchMsg ==
    /\ HasEvent("msg")
    /\ Taken
    /\ Dispatched(NextEvent.session)
    /\ UNCHANGED <<tree, local, handlers, alarm, pending, posting, requests, stops>>

DispatchAlarm ==
    LET s == NextEvent.session
    IN  /\ HasEvent("alarm")
        /\ Taken
        /\ Dispatched(s)
        /\ alarm' = [alarm EXCEPT ![s] = IF stack' = <<>> THEN "none" ELSE "dispatched"]
        /\ UNCHANGED <<tree, local, handlers, pending, posting, requests, stops>>

(* Mutant: only the session itself is deleted.                              *)
JustItself(r) == {r}

(* What destroy() deletes with a session, by its recursion.                 *)
Destroyed(r) == Descendants(r)

(* EvSys_DeleteSession: destroy() deletes what is below the session, each   *)
(* with its alarms, then the session, and takes it out of its parent's list.*)
DispatchDelete ==
    LET r    == NextEvent.session
        gone == Destroyed(r)
    IN  /\ HasEvent("delete")
        /\ lqueue' = lqueue
        /\ pqueue' = Without(RestQueued, gone)
        /\ life' = [s \in Nodes |-> IF s \in gone THEN "deleted" ELSE life[s]]
        /\ parent' = [s \in Nodes |-> IF s \in gone THEN None ELSE parent[s]]
        /\ children' = [s \in Nodes |-> IF s \in gone THEN <<>>
                                        ELSE Keep(children[s], Sessions \ {r})]
        /\ alarm' = [s \in Nodes |-> IF s \in gone THEN "none" ELSE alarm[s]]
        /\ UNCHANGED <<local, handlers, pending, stack, posting, requests, stops>>

(* Nothing is queued: the alarms that have expired, then what is pending,   *)
(* are queued.                                                              *)
Collect ==
    /\ stack = <<>> /\ lqueue = <<>> /\ pqueue = <<>>
    /\ \E D \in SUBSET {s \in Nodes : alarm[s] = "waiting"} : \E q \in SetToSeqs(D) :
         /\ IsFiniteSet(D) /\ (D # {} \/ pending # <<>>)
         /\ pqueue' = [i \in DOMAIN q |-> Event("alarm", q[i])] \o pending
         /\ alarm' = [s \in Nodes |-> IF s \in D THEN "queued" ELSE alarm[s]]
    /\ pending' = <<>>
    /\ UNCHANGED <<tree, local, handlers, lqueue, stack, posting, requests, stops>>
-----------------------------------------------------------------------------
(***************************************************************************)
(* Other threads: post_event from outside the kernel.                      *)
(***************************************************************************)

(* The session is looked up with local.rwlock held for reading, ...         *)
FindTarget(p, s) ==
    /\ posting[p] = None /\ Request
    /\ s \in sid_map /\ stopper[s] = None
    /\ posting' = [posting EXCEPT ![p] = s]
    /\ UNCHANGED <<tree, local, handlers, alarm, queues, stack, stops>>

(* ... and the event is queued before the lock is released.                 *)
EnqueueEvent(p) ==
    /\ posting[p] # None
    /\ pending' = Append(pending, Event("msg", posting[p]))
    /\ posting' = [posting EXCEPT ![p] = None]
    /\ UNCHANGED <<tree, local, handlers, alarm, lqueue, pqueue, stack, requests, stops>>
-----------------------------------------------------------------------------
UserCode ==
    \/ \E s \in Sessions : \E p \in Nodes : StartSession(s, p)
    \/ \E s \in Sessions : StopSession(s)
    \/ \E s \in Nodes : PostLocal(s) \/ Call(s)
    \/ Yield \/ State \/ CreateAlarm \/ DeleteAlarm

StopTree == QueueDelete \/ CallStop \/ RemoveSids

Loop == DispatchMsg \/ DispatchAlarm \/ DispatchDelete \/ Collect

Next ==
    \/ UserCode \/ HandlerReturn \/ StopTree \/ Loop
    \/ \E p \in Posters : EnqueueEvent(p) \/ \E s \in Nodes : FindTarget(p, s)

(* Handlers return, the thread is scheduled and a poster releases the lock. *)
Fairness ==
    /\ WF_vars(HandlerReturn)
    /\ WF_vars(StopTree)
    /\ WF_vars(Loop)
    /\ \A p \in Posters : WF_vars(EnqueueEvent(p))

Spec     == Init /\ [][Next]_vars
LiveSpec == Spec /\ Fairness
-----------------------------------------------------------------------------
(***************************************************************************)
(* Properties.                                                             *)
(***************************************************************************)
Queued == ToSet(lqueue \o pqueue \o pending)

Attached == {s \in Nodes : life[s] = "attached"}

(* Every variable has a value of its kind (r4Session, r4Kernel, d4Thread).  *)
TypeOK ==
    LET events == [type : {"msg", "alarm", "delete"}, session : Nodes]
    IN  /\ life \in [Nodes -> {"new", "attached", "deleted"}]
        /\ parent \in [Nodes -> Nodes \cup {None}]
        /\ children \in [Nodes -> Seq(Sessions)]
        /\ stopper \in [Nodes -> Sessions \cup {None}]
        /\ sid_map \subseteq Attached
        /\ handlers \subseteq Nodes
        /\ alarm \in [Nodes -> {"none", "waiting", "queued", "dispatched"}]
        /\ lqueue \in Seq(events) /\ pqueue \in Seq(events) /\ pending \in Seq(events)
        /\ stack \in Seq([type : {"handler", "marked", "calling"}, session : Nodes,
                           done : SUBSET Sessions])
        /\ posting \in [Posters -> Nodes \cup {None}]
        /\ requests \in 0..MaxRequests
        /\ stops \in [Nodes -> Nat]

(* No message, alarm or delete event that is queued, or that a poster is    *)
(* about to queue, refers to a session that was deleted: destroy() relies   *)
(* on the queues having been emptied of the tree's events.                  *)
NoDanglingEvent ==
    /\ \A e \in Queued : e.session \in Attached
    /\ \A p \in Posters : posting[p] \in Attached \cup {None}

(* The delete events of a session on their way.                             *)
Deletions(r) ==
    Len(Keep(lqueue \o pqueue \o pending, {Event("delete", r)}))
        + Cardinality({i \in DOMAIN stack : stack[i] = Stop(r, "marked", {})})

(* However stops nest, a session that is being stopped has a stopper which  *)
(* is itself stopped, is above it, and is waiting for exactly one delete    *)
(* event; nobody else waits for one.                                        *)
DeletedOnceByStopper ==
    \A s \in Attached :
        /\ Deletions(s) = IF stopper[s] = s THEN 1 ELSE 0
        /\ stopper[s] # None => /\ stopper[s] \in Attached
                                /\ stopper[stopper[s]] = stopper[s]
                                /\ s \in Descendants(stopper[s])

(* The tree stays a tree: a session's parent outlives it, and is not being  *)
(* stopped unless the session is.                                           *)
ParentOutlivesChild ==
    \A s \in Attached \ {Kernel} :
        /\ parent[s] \in Attached
        /\ s \in Kids(parent[s])
        /\ stopper[parent[s]] # None => stopper[s] # None

(* However handlers start, stop and delete, every session that is not       *)
(* deleted hangs from the kernel's own: the lists of children have neither  *)
(* orphans, which no stop would ever reach, nor rings (start_session,       *)
(* destroy).                                                                *)
Connected == Attached \subseteq Descendants(Kernel)

(* A session is deleted, and its identifier forgotten, only after its stop  *)
(* handler has run, which runs once.                                        *)
StoppedOnceBeforeDeleted ==
    \A s \in Nodes :
        /\ stops[s] <= 1
        /\ s \notin sid_map /\ parent[s] # None => stops[s] = 1

(* What a stop visits: a session's stop handler begins when those of all    *)
(* the sessions below it with the same stopper have returned, and each of   *)
(* the others has been called or is about to be by the stop of its stopper. *)
ChildrenFirst ==
    [][\A s \in Nodes : stops'[s] # stops[s] =>
        \A d \in Descendants(s) \ {s} :
            IF stopper[d] = stopper[s] THEN d \in Top.done
            ELSE \/ stops[d] = 1
                 \/ \E i \in DOMAIN stack : /\ stack[i].type = "calling"
                                           /\ stack[i].session = stopper[d]]_vars

(* "finally, remove all handlers": a deleted session has no entry left in   *)
(* the kernel's table of handlers.                                          *)
NoHandlerLeft == \A s \in Nodes : life[s] = "deleted" => s \notin handlers

(* A session that is stopped is deleted in the end.                         *)
StoppedIsDeleted == \A s \in Sessions : stopper[s] # None ~> life[s] = "deleted"

(***************************************************************************)
(* To the program the kernel keeps the promises of Lifecycle.              *)
(***************************************************************************)
Outstanding(s) ==
    Len(Keep(lqueue \o pqueue \o pending, {Event("msg", s)}))
        + Cardinality({p \in Posters : posting[p] = s})

Status ==
    [s \in Nodes |->
        CASE life[s] = "new"     -> "new"
          [] life[s] = "deleted" -> "gone"
          [] OTHER -> IF stopper[s] = None THEN "live" ELSE "stopped"]

Owed == [s \in Nodes |-> Outstanding(s)]

Abstract ==
    INSTANCE Lifecycle WITH
        Root <- Kernel, Children <- Sessions, MaxOwed <- MaxRequests,
        status <- Status, above <- parent, owed <- Owed

ImplementsLifecycle == Abstract!Spec
=============================================================================
