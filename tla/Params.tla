------------------------------- MODULE Params -------------------------------
(***************************************************************************)
(* Who owns the arguments of handlers, and when they are freed, in one     *)
(* kernel: coe-kernel.cpp, coe--context.cpp, coe-kernel--imp.cpp,          *)
(* coe--event.cpp, coe-callback-sev.cpp, coe-postback-sev.cpp and the      *)
(* dispatch functions of coe-kernel--r4k.cpp.                              *)
(*                                                                         *)
(* An argument (a ValParam) is made by a handler, given to the kernel with *)
(* a message, an alarm, an I/O watcher, a callback or a call, and freed by *)
(* whoever owns it last.  While a handler runs that reads an argument the  *)
(* argument is locked: its owner may go, the last reader then frees it.    *)
(*                                                                         *)
(* A session's position in the tree, the order of events and the loop are  *)
(* those of SessionTree and EventLoop; here any queued event may come next.*)
(***************************************************************************)
EXTENDS Integers, Sequences, FiniteSets, SequencesExt

CONSTANTS
    Sessions, Root,          \* Root runs from the start
    ValParams,               \* the memory arguments are allocated from
    TypeInfos,               \* types of values
    TypeOf,                  \* the types of the values of each argument
    HandlerTypes,            \* what handlers of these sessions take
    IO_Ctx,                  \* the type before the arguments of an I/O event
    Alarms, Callbacks, Postbacks, Impls,
    None,
    MaxThings,               \* bound on the messages that wait, the alarms,
                             \* watchers, callbacks and postbacks together
    MaxDepth,                \* bound on the calls inside one another
    MaxTotal                 \* bound on all of these

Maybe(S) == S \cup {None}
Handles  == Callbacks \cup Postbacks

Requests == [of : Sessions, arg : Maybe(ValParams)]                        \* of alarms
Shares   == [prefix : Maybe(ValParams), target : Sessions, refcnt : Nat]   \* impls

ASSUME ParamsAssumption ==
    /\ Root \in Sessions
    /\ TypeOf \in [ValParams -> Seq(TypeInfos) \ {<<>>}]
    /\ HandlerTypes \subseteq Seq(TypeInfos)
    /\ IO_Ctx \in TypeInfos
    /\ None \notin ValParams \cup Sessions \cup Alarms \cup Impls \cup Requests \cup Shares
    /\ Callbacks \cap Postbacks = {}
    /\ IsFiniteSet(Sessions) /\ IsFiniteSet(Alarms) /\ IsFiniteSet(Impls) /\ IsFiniteSet(Handles)
    /\ MaxDepth \in Nat

VARIABLES
    heap,        \* of each argument: does it exist, and its _locked
    status,      \* of each session
    queue,       \* messages: [to, pfx, arg]
    alarm,       \* alarms: [of, arg], or None
    dispatched,  \* d4Thread::_dispatched_alarm
    watcher,     \* the argument of each session's I/O watcher, in a singleton
    impl,        \* what handles share: [prefix, target, refcnt], or None
    handle,      \* callbacks and postbacks: the impl of each
    stack        \* the execution contexts

vars == <<heap, status, queue, alarm, dispatched, watcher, impl, handle, stack>>
events  == <<queue, alarm, dispatched, watcher>>
handles == <<impl, handle>>

Frame == [of : Sessions, kind : {"post", "alarm", "select", "call", "start"},
          pfx : Maybe(ValParams), arg : Maybe(ValParams),
          owned : Maybe(ValParams),          \* deleted when the call returns
          takes : HandlerTypes,
          held : Maybe(ValParams)]           \* in a unique_ptr of the handler

Init ==
    /\ heap = [p \in ValParams |-> [state |-> "free", locked |-> 0]]
    /\ status = [s \in Sessions |-> IF s = Root THEN "live" ELSE "none"]
    /\ queue = <<>>
    /\ alarm = [a \in Alarms |-> None]
    /\ dispatched = None
    /\ watcher = [s \in Sessions |-> {}]
    /\ impl = [i \in Impls |-> None]
    /\ handle = [h \in Handles |-> None]
    /\ stack = <<>>
-----------------------------------------------------------------------------
(***************************************************************************)
(* The memory.  An access that the code's assertions or the allocator      *)
(* would not survive leaves the argument "broken".                         *)
(***************************************************************************)
Free   == [state |-> "free", locked |-> 0]
Broken == [state |-> "broken", locked |-> 0]
Live(v, n) == [v EXCEPT !.locked = n]

On(h, p, f) == IF p = None THEN h ELSE [h EXCEPT ![p] = IF h[p].state = "live" THEN f ELSE Broken]

(* operator delete: ~ValParam asserts that nothing has it locked.           *)
Deleted(h, p) == On(h, p, IF h[p].locked = 0 THEN Free ELSE Broken)

(* Mutant: destroy does not look at the lock.                               *)
DestroyedAtOnce(h, p) == On(h, p, Free)

(* ValParam::destroy: what is locked is left to the one that unlocks it.    *)
Destroyed(h, p) ==
    LET n == h[p].locked
    IN  On(h, p, IF n = 0 THEN Free ELSE IF n > 0 THEN Live(h[p], -n) ELSE Broken)

Locked(h, p) ==
    LET n == h[p].locked IN On(h, p, Live(h[p], IF n < 0 THEN n - 1 ELSE n + 1))

(* Mutant: the destructor of the context only undoes locks that are        *)
(* positive.                                                               *)
UnlockedOwned(h, p) ==
    LET n == h[p].locked IN On(h, p, IF n > 0 THEN Live(h[p], n - 1) ELSE h[p])

(* ~ExecuteContext, of one of the two it may have locked.                   *)
Unlocked(h, p) ==
    LET n == h[p].locked
    IN  On(h, p, CASE n > 0 -> Live(h[p], n - 1)
                   [] n = -1 -> Free
                   [] n < -1 -> Live(h[p], n + 1)
                   [] OTHER -> Broken)

AllDestroyed(h, args) ==
    [p \in ValParams |-> IF p \in args THEN Destroyed(h, p)[p] ELSE h[p]]

(* An argument is freed with what it was given to, or because the call that *)
(* took it by pointer failed before it was given to anything.               *)
FreedBy(failed, h, p) == IF failed THEN Deleted(h, p) ELSE Destroyed(h, p)
-----------------------------------------------------------------------------
(***************************************************************************)
(* Contexts.                                                               *)
(***************************************************************************)
Types(p) == IF p = None THEN <<>> ELSE TypeOf[p]
PfxTypes(kind, pfx) == IF kind = "select" THEN <<IO_Ctx>> ELSE Types(pfx)

(* No prefix and no argument are null pointers in the code; two types are   *)
(* equal when the pointers are.                                             *)
syntax_check(hT, xT, aT) ==
    CASE xT = <<>> -> hT = aT
      [] aT = <<>> -> hT = xT
      [] OTHER -> /\ Len(hT) = Len(xT) + Len(aT)
                  /\ \A i \in DOMAIN xT : hT[i] = xT[i]
                  /\ \A j \in DOMAIN aT : hT[Len(xT) + j] = aT[j]

(* The handlers that can run, of those that may be found under the name.    *)
Found(kind, pfx, arg) ==
    {hT \in HandlerTypes : syntax_check(hT, PfxTypes(kind, pfx), Types(arg))}

Running == stack # <<>>
Top     == Last(stack)
Current == Top.of
active  == status[Current] = "live"

(* A handler can give away nothing, or what it holds.                       *)
Offers == {None, Top.held}
Given(a) == IF a = None THEN stack ELSE [stack EXCEPT ![Len(stack)].held = None]

(* The argument is freed, of a call by pointer; a unique_ptr keeps it, and  *)
(* nothing changes.                                                         *)
Refuse(failed, a) == heap' = FreedBy(failed, heap, a) /\ stack' = Given(a)

(* The constructor of the context, and execute: the context locks the       *)
(* prefix of a message or a callback, and the argument of an event.         *)
LockedPfx(f) == IF f.kind \in {"post", "call"} THEN f.pfx ELSE None
LockedArg(f) == IF f.kind \in {"post", "alarm", "select"} THEN f.arg ELSE None

Locks(h, f)   == Locked(Locked(h, LockedPfx(f)), LockedArg(f))
Unlocks(h, f) == Unlocked(Unlocked(h, LockedPfx(f)), LockedArg(f))

Things == Len(queue) + Cardinality({al \in Alarms : alarm[al] # None})
            + Cardinality({s \in Sessions : watcher[s] # {}})
            + Cardinality({i \in Impls : impl[i] # None})

(* What happens to arguments when a handler returns: those in its own       *)
(* unique_ptr, the context's destructor, then what the caller owns: the     *)
(* message (~EvMsg destroys the prefix, ~EvUser the argument), the alarm,   *)
(* its argument a if it is still there, or the argument of a call.          *)
AtReturn(h, f, a) ==
    LET unlocked == Unlocks(Deleted(h, f.held), f)
    IN  CASE f.kind = "post"  -> Destroyed(Destroyed(unlocked, f.pfx), f.arg)
          [] f.kind = "alarm" -> Destroyed(unlocked, a)
          [] OTHER            -> Deleted(unlocked, f.owned)

(* A handler runs; or none is found, or it takes other arguments, and the   *)
(* context goes at once.                                                    *)
Executes(rest, s, kind, pfx, arg, owned) ==
    LET frame(hT) == [of |-> s, kind |-> kind, pfx |-> pfx, arg |-> arg,
                      owned |-> owned, takes |-> hT, held |-> None]
        locked == Locks(heap, frame(<<>>))
    IN  /\ Len(rest) < MaxDepth /\ Len(rest) + Things < MaxTotal
        /\ \/ /\ heap' = locked
              /\ \E hT \in Found(kind, pfx, arg) : stack' = Append(rest, frame(hT))
           \/ /\ heap' = AtReturn(locked, frame(<<>>), arg)
              /\ stack' = rest
-----------------------------------------------------------------------------
(***************************************************************************)
(* Handlers: messages.                                                     *)
(***************************************************************************)
(* An argument is made.                                                     *)
Hold(p) ==
    /\ Running /\ Top.held = None /\ heap[p].state = "free"
    /\ heap' = [heap EXCEPT ![p].state = "live"]
    /\ stack' = [stack EXCEPT ![Len(stack)].held = p]
    /\ UNCHANGED <<status, events, handles>>

Room == Things < MaxThings /\ Things + Len(stack) < MaxTotal

Queued(to, pfx, arg) ==
    /\ Room
    /\ queue' = Append(queue, [to |-> to, pfx |-> pfx, arg |-> arg])

(* post, yield, callback, postback, delay_set, delay_adjust, select, call   *)
(* and Callback::call: a name, target, delay or descriptor is not valid, a  *)
(* handle is empty, an alarm is not there, or the session is being stopped. *)
Fail(a) ==
    /\ Running /\ a \in Offers \ {None}
    /\ Refuse(TRUE, a)
    /\ UNCHANGED <<status, events, handles>>

(* Kernel::post and Kernel::anon_post.  Of a target that is not there, or   *)
(* that is being stopped, the message comes back and is deleted.            *)
Post(to, a) ==
    /\ Running /\ a \in Offers
    /\ IF status[to] = "live"
       THEN Queued(to, None, a) /\ stack' = Given(a) /\ UNCHANGED heap
       ELSE Refuse(FALSE, a) /\ UNCHANGED queue
    /\ UNCHANGED <<status, alarm, dispatched, watcher, handles>>

(* Kernel::yield, which a session that is being stopped may use too.        *)
Yield(a) ==
    /\ Running /\ a \in Offers
    /\ Queued(Current, None, a) /\ stack' = Given(a)
    /\ UNCHANGED <<heap, status, alarm, dispatched, watcher, handles>>

(* ValParam::clone: a new argument of the same types.                       *)
Clones(pfx) ==
    IF pfx = None THEN {None}
    ELSE {q \in ValParams : heap[q].state = "free" /\ TypeOf[q] = TypeOf[pfx]}

Cloned(q) == IF q = None THEN heap ELSE [heap EXCEPT ![q].state = "live"]

(* Mutant: the copy is forgotten when the message is refused.               *)
CopyLeft(h, q) == h

(* The message that came back is deleted: ~EvMsg destroys its prefix.       *)
CopyDeleted(h, q) == Destroyed(h, q)

(* Postback::post and Postback::anon_post: the prefix is copied before the  *)
(* message is posted; one that is refused is deleted with copy and argument.*)
PostbackPost(h, a) ==
    /\ Running /\ a \in Offers /\ handle[h] # None
    /\ LET i == impl[handle[h]]
       IN  \E q \in Clones(i.prefix) :
              IF status[i.target] = "live"
              THEN Queued(i.target, q, a) /\ heap' = Cloned(q)
              ELSE heap' = Destroyed(CopyDeleted(Cloned(q), q), a) /\ UNCHANGED queue
    /\ stack' = Given(a)
    /\ UNCHANGED <<status, alarm, dispatched, watcher, handles>>

(* Another thread posts to a session of this kernel.                        *)
PostFromOutside(to, p) ==
    /\ status[to] = "live"
    /\ p # None => heap[p].state = "free"
    /\ Queued(to, None, p)
    /\ heap' = IF p = None THEN heap ELSE [heap EXCEPT ![p].state = "live"]
    /\ UNCHANGED <<status, alarm, dispatched, watcher, handles, stack>>
-----------------------------------------------------------------------------
(***************************************************************************)
(* Handlers: callbacks and postbacks.  A handle shares its impl with its   *)
(* copies; the last one to go frees the impl, and destroys the prefix.     *)
(***************************************************************************)
SameKind(h, g) == {h, g} \subseteq Callbacks \/ {h, g} \subseteq Postbacks

Less(s) == IF s.refcnt = 1 THEN None ELSE [s EXCEPT !.refcnt = @ - 1]

Fewer(m, i) == IF i = None THEN m ELSE [m EXCEPT ![i] = Less(@)]

(* Mutant: a copy is not counted.                                           *)
NoMore(m, i) == m

More(m, i) == IF i = None THEN m ELSE [m EXCEPT ![i].refcnt = @ + 1]

(* The prefix goes with the last handle.                                    *)
Dropped(h, i) ==
    IF i # None /\ impl[i].refcnt = 1 THEN Destroyed(h, impl[i].prefix) ELSE h

(* h = kernel.callback(...), h = kernel.postback(...)                       *)
Make(h, a) ==
    /\ Running /\ a \in Offers /\ active
    /\ Room
    /\ \E i \in Impls :
          /\ impl[i] = None
          /\ impl' = [Fewer(impl, handle[h]) EXCEPT
                        ![i] = [prefix |-> a, target |-> Current, refcnt |-> 1]]
          /\ handle' = [handle EXCEPT ![h] = i]
    /\ heap' = Dropped(heap, handle[h])
    /\ stack' = Given(a)
    /\ UNCHANGED <<status, events>>

(* operator=, the copy constructor, and reset with g empty.                 *)
Assign(h, g) ==
    /\ Running /\ SameKind(h, g) /\ handle[h] # handle[g]
    /\ impl' = More(Fewer(impl, handle[h]), handle[g])
    /\ handle' = [handle EXCEPT ![h] = handle[g]]
    /\ heap' = Dropped(heap, handle[h])
    /\ UNCHANGED <<status, events, stack>>

(* Also the destructor.                                                     *)
Reset(h) ==
    /\ Running /\ handle[h] # None
    /\ impl' = Fewer(impl, handle[h])
    /\ handle' = [handle EXCEPT ![h] = None]
    /\ heap' = Dropped(heap, handle[h])
    /\ UNCHANGED <<status, events, stack>>
-----------------------------------------------------------------------------
(***************************************************************************)
(* Handlers: calls.  The argument is not locked: it stays with the caller, *)
(* in a unique_ptr of the function called or of the caller's own.          *)
(***************************************************************************)
Enters(s, kind, pfx, a, keep) ==
    /\ keep => a # None
    /\ Executes(Given(IF keep THEN None ELSE a), s, kind, pfx, a, IF keep THEN None ELSE a)

(* call__arg finds sessions that are alive, and the current one.            *)
Reachable(s) == status[s] = "live" \/ s = Current

(* Kernel::call and call_keep_arg.                                          *)
Call(on, a, keep) ==
    /\ Running /\ a \in Offers /\ Reachable(on)
    /\ Enters(on, "call", None, a, keep)
    /\ UNCHANGED <<status, events, handles>>

(* Session::call and call_keep_arg: on a session that was started, found or *)
(* not.                                                                     *)
SessionCall(on, a, keep) ==
    /\ Running /\ a \in Offers /\ status[on] \in {"live", "stopped"}
    /\ Enters(on, "call", None, a, keep)
    /\ UNCHANGED <<status, events, handles>>

(* The constructor of ContextSwitch: the handler goes on as the session s.  *)
ContextSwitch(s) ==
    /\ Running /\ status[s] \in {"live", "stopped"}
    /\ Enters(s, "call", None, None, FALSE)
    /\ Len(stack') = Len(stack) + 1
    /\ UNCHANGED <<status, events, handles>>

(* Callback::call and call_keep_arg.                                        *)
CallbackCall(h, a, keep) ==
    /\ Running /\ a \in Offers
    /\ handle[h] # None /\ Reachable(impl[handle[h]].target)
    /\ Enters(impl[handle[h]].target, "call", impl[handle[h]].prefix, a, keep)
    /\ UNCHANGED <<status, events, handles>>

(* Session::start_session: with arguments the start handler does not take,  *)
(* or below a parent that is being stopped, the session is deleted.         *)
StartSession(s, a) ==
    /\ Running /\ a \in Offers /\ status[s] = "none"
    /\ \/ /\ status' = [status EXCEPT ![s] = "live"]
          /\ Enters(s, "start", None, a, FALSE)
          /\ Len(stack') = Len(stack) + 1
       \/ /\ status' = [status EXCEPT ![s] = "deleted"]
          /\ Refuse(TRUE, a)
    /\ UNCHANGED <<events, handles>>

(* stop_session, its stop handlers left out: they take no argument.         *)
StopSession(s) ==
    /\ Running /\ status[s] = "live"
    /\ status' = [status EXCEPT ![s] = "stopped"]
    /\ UNCHANGED <<heap, events, handles, stack>>
-----------------------------------------------------------------------------
(***************************************************************************)
(* Handlers: alarms and I/O watchers.                                      *)
(***************************************************************************)
Mine(al) == alarm[al] # None /\ alarm[al].of = Current

(* Kernel::delay_set.                                                       *)
DelaySet(a) ==
    /\ Running /\ a \in Offers /\ active
    /\ Room
    /\ \E al \in Alarms :
          /\ alarm[al] = None
          /\ alarm' = [alarm EXCEPT ![al] = [of |-> Current, arg |-> a]]
    /\ stack' = Given(a)
    /\ UNCHANGED <<heap, status, queue, dispatched, watcher, handles>>

(* Kernel::delay_adjust with an argument, which takes the old one's place.  *)
DelayAdjust(al, a) ==
    /\ Running /\ a \in Offers /\ active /\ Mine(al)
    /\ heap' = Destroyed(heap, alarm[al].arg)
    /\ alarm' = [alarm EXCEPT ![al].arg = a]
    /\ stack' = Given(a)
    /\ UNCHANGED <<status, queue, dispatched, watcher, handles>>

(* Mutant: the alarm that is being dispatched is not marked as deleted.     *)
StillDispatched(al) == dispatched

Marked(al) == IF dispatched = al THEN None ELSE dispatched

(* Kernel::alarm_remove, the alarm that is being dispatched included.       *)
AlarmRemove(al) ==
    /\ Running /\ active /\ Mine(al)
    /\ dispatched' = Marked(al)
    /\ heap' = Destroyed(heap, alarm[al].arg)
    /\ alarm' = [alarm EXCEPT ![al] = None]
    /\ UNCHANGED <<status, queue, watcher, handles, stack>>

(* Kernel::select: a watcher that is there gets the new argument.           *)
Select(a) ==
    /\ Running /\ a \in Offers /\ active
    /\ watcher[Current] # {} \/ Room
    /\ heap' = AllDestroyed(heap, watcher[Current])
    /\ watcher' = [watcher EXCEPT ![Current] = {a}]
    /\ stack' = Given(a)
    /\ UNCHANGED <<status, queue, alarm, dispatched, handles>>

(* Kernel::select without a name deletes the watcher.                       *)
SelectOff ==
    /\ Running /\ watcher[Current] # {}
    /\ heap' = AllDestroyed(heap, watcher[Current])
    /\ watcher' = [watcher EXCEPT ![Current] = {}]
    /\ UNCHANGED <<status, queue, alarm, dispatched, handles, stack>>
-----------------------------------------------------------------------------
(***************************************************************************)
(* The loop.                                                               *)
(***************************************************************************)
Idle == stack = <<>>

(* r4Kernel::dispatch_evmsg: the context goes before the message does.  A   *)
(* message to a session that is being stopped is only freed.                *)
DispatchMsg ==
    /\ Idle /\ queue # <<>>
    /\ LET m == Head(queue)
       IN  IF status[m.to] = "live"
           THEN Executes(<<>>, m.to, "post", m.pfx, m.arg, None)
           ELSE /\ heap' = Destroyed(Destroyed(heap, m.pfx), m.arg)
                /\ UNCHANGED stack
    /\ queue' = Tail(queue)
    /\ UNCHANGED <<status, alarm, dispatched, watcher, handles>>

(* r4Kernel::dispatch_alarm.                                                *)
DispatchAlarm(al) ==
    /\ Idle /\ alarm[al] # None
    /\ IF status[alarm[al].of] = "live"
       THEN /\ Executes(<<>>, alarm[al].of, "alarm", None, alarm[al].arg, None)
            /\ dispatched' = IF stack' = <<>> THEN None ELSE al
            /\ alarm' = IF stack' = <<>> THEN [alarm EXCEPT ![al] = None] ELSE alarm
       ELSE /\ heap' = Destroyed(heap, alarm[al].arg)
            /\ alarm' = [alarm EXCEPT ![al] = None]
            /\ UNCHANGED <<stack, dispatched>>
    /\ UNCHANGED <<status, queue, watcher, handles>>

(* r4Kernel::dispatch_evio.                                                 *)
DispatchIo(s) ==
    /\ Idle /\ status[s] = "live"
    /\ \E p \in watcher[s] : Executes(<<>>, s, "select", None, p, None)
    /\ UNCHANGED <<status, events, handles>>

(* The rest of the function that called the handler.                        *)
Return ==
    /\ stack # <<>>
    /\ IF Top.kind = "alarm" /\ dispatched # None
       THEN /\ heap' = IF alarm[dispatched] = None THEN [p \in ValParams |-> Broken]
                       ELSE AtReturn(heap, Top, alarm[dispatched].arg)
            /\ alarm' = [alarm EXCEPT ![dispatched] = None]
            /\ dispatched' = None
       ELSE /\ heap' = AtReturn(heap, Top, None)
            /\ UNCHANGED <<alarm, dispatched>>
    /\ stack' = Front(stack)
    /\ UNCHANGED <<status, queue, watcher, handles>>

(* r4Session::destroy, once nothing is queued for the session any more      *)
(* (SessionTree: NoDanglingEvent).                                          *)
DestroySession(s) ==
    /\ Idle /\ status[s] = "stopped"
    /\ \A i \in DOMAIN queue : queue[i].to # s
    /\ LET own  == {al \in Alarms : alarm[al] # None /\ alarm[al].of = s}
           args == watcher[s] \cup {alarm[al].arg : al \in own}
       IN  /\ heap' = AllDestroyed(heap, args)
           /\ alarm' = [al \in Alarms |-> IF al \in own THEN None ELSE alarm[al]]
    /\ watcher' = [watcher EXCEPT ![s] = {}]
    /\ status' = [status EXCEPT ![s] = "deleted"]
    /\ UNCHANGED <<queue, dispatched, handles, stack>>
-----------------------------------------------------------------------------
UserCode ==
    \/ \E p \in ValParams : Hold(p)
    \/ \E s \in Sessions : StopSession(s) \/ ContextSwitch(s)
    \/ \E al \in Alarms : AlarmRemove(al)
    \/ SelectOff
    \/ \E h \in Handles : Reset(h)
    \/ \E h, g \in Handles : Assign(h, g)
    \/ \E a \in Maybe(ValParams) :
          \/ Fail(a) \/ Yield(a) \/ DelaySet(a) \/ Select(a)
          \/ \E s \in Sessions : StartSession(s, a) \/ Post(s, a)
          \/ \E h \in Handles : Make(h, a)
          \/ \E h \in Postbacks : PostbackPost(h, a)
          \/ \E al \in Alarms : DelayAdjust(al, a)
          \/ \E keep \in BOOLEAN :
                \/ \E s \in Sessions : Call(s, a, keep) \/ SessionCall(s, a, keep)
                \/ \E h \in Callbacks : CallbackCall(h, a, keep)

Loop ==
    \/ DispatchMsg \/ Return
    \/ \E al \in Alarms : DispatchAlarm(al)
    \/ \E s \in Sessions : DispatchIo(s) \/ DestroySession(s)

Next ==
    \/ UserCode \/ Loop
    \/ \E s \in Sessions, p \in Maybe(ValParams) : PostFromOutside(s, p)

Spec == Init /\ [][Next]_vars
-----------------------------------------------------------------------------
TypeOK ==
    /\ heap \in [ValParams -> [state : {"free", "live", "broken"},
                               locked : (-MaxDepth)..MaxDepth]]
    /\ status \in [Sessions -> {"none", "live", "stopped", "deleted"}]
    /\ queue \in Seq([to : Sessions, pfx : Maybe(ValParams), arg : Maybe(ValParams)])
    /\ alarm \in [Alarms -> Maybe(Requests)]
    /\ dispatched \in Maybe(Alarms)
    /\ \A s \in Sessions : watcher[s] \subseteq Maybe(ValParams) /\ Cardinality(watcher[s]) <= 1
    /\ impl \in [Impls -> Maybe(Shares)]
    /\ \A i \in Impls : impl[i] # None => impl[i].refcnt \in 1..Cardinality(Handles)
    /\ handle \in [Handles -> Maybe(Impls)]
    /\ stack \in Seq(Frame) /\ Len(stack) <= MaxDepth

(* Who would free the argument p.                                           *)
Owners(p) ==
    {<<i, "arg">> : i \in {i \in DOMAIN queue : queue[i].arg = p}} \cup
    {<<i, "pfx">> : i \in {i \in DOMAIN queue : queue[i].pfx = p}} \cup
    {<<al, "alarm">> : al \in {al \in Alarms : alarm[al] # None /\ alarm[al].arg = p}} \cup
    {<<s, "watcher">> : s \in {s \in Sessions : p \in watcher[s]}} \cup
    {<<i, "impl">> : i \in {i \in Impls : impl[i] # None /\ impl[i].prefix = p}} \cup
    {<<d, "held">> : d \in {d \in DOMAIN stack : stack[d].held = p}} \cup
    {<<d, "owned">> : d \in {d \in DOMAIN stack : stack[d].owned = p}} \cup
    {<<d, "msg">> : d \in {d \in DOMAIN stack : stack[d].kind = "post"
                                                 /\ p \in {stack[d].arg, stack[d].pfx}}}

(* The contexts that have the argument p locked.                            *)
Lockers(p) ==
    {<<d, "pfx">> : d \in {d \in DOMAIN stack : LockedPfx(stack[d]) = p}} \cup
    {<<d, "arg">> : d \in {d \in DOMAIN stack : LockedArg(stack[d]) = p}}

(* Nothing leaks and nothing has two owners: an argument that exists        *)
(* belongs to exactly one message, alarm, watcher, callback, postback,      *)
(* handler or call, or has lost its owner and is left to those that have    *)
(* it locked.                                                               *)
OwnedOnce ==
    \A p \in ValParams :
        Cardinality(Owners(p)) =
            IF heap[p].state = "live" /\ heap[p].locked >= 0 THEN 1 ELSE 0

(* _locked counts the contexts that read the argument, whatever has         *)
(* happened to its owner in the meantime; one that is free has no reader.   *)
LocksExact ==
    \A p \in ValParams :
        Cardinality(Lockers(p)) = (IF heap[p].locked < 0 THEN -1 ELSE 1) * heap[p].locked

(* What a handler was given is there for as long as it is on the stack,     *)
(* though it may remove its own alarm or watcher, or drop the callback that *)
(* it was called through; and it is of the types the handler reads it as.   *)
ArgumentsGood ==
    \A d \in DOMAIN stack :
        LET f == stack[d]
        IN  /\ \A p \in {f.pfx, f.arg} \ {None} : heap[p].state = "live"
            /\ f.takes = PfxTypes(f.kind, f.pfx) \o Types(f.arg)

(* The impl of callbacks and postbacks counts its handles, so that it is    *)
(* there for as long as one of them is.                                     *)
RefcntExact ==
    \A i \in Impls :
        Cardinality({h \in Handles : handle[h] = i}) =
            IF impl[i] = None THEN 0 ELSE impl[i].refcnt

(* No argument is deleted twice, or while it is locked: the assertions of   *)
(* ~ValParam, of destroy and of ~ExecuteContext hold, and the dispatched    *)
(* alarm is not deleted after its handler has removed it.                   *)
NothingBroken == \A p \in ValParams : heap[p].state # "broken"
=============================================================================
