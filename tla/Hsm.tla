---------------------------------- MODULE Hsm ----------------------------------
(* Hierarchical state machines (coe-hsm.h, coe-hsm.cpp, coe-hsm--exec.cpp).    *)
(*                                                                             *)
(* A machine is a tree of BASIC, OR and AND states.  A transition runs in two  *)
(* phases.  transit(), transit_ex() and terminate(), called from a session's   *)
(* handler, move the _target flags, run the exit actions and ask the kernel    *)
(* for a continuation; when the handler returns, the continuation              *)
(* _complete_transition enters the targeted states.  Entry and exit actions    *)
(* are user code: they may ask for further transitions, re-entrantly.          *)
(*                                                                             *)
(* The mutually recursive functions of _MachineExecutor are modelled with an   *)
(* explicit stack of calls, the running one first: a step runs the code of a   *)
(* function up to the next call that can reach user code.  A failed assert()   *)
(* or the use of a null state ends the program: failed.                        *)
EXTENDS Integers, Sequences, FiniteSets, SequencesExt, Filter

CONSTANTS
    States, Root,
    Parent, Above,  \* the parent of each state but Root, and all above it
    Kids,           \* the children of each state, in declaration order
    Type,           \* "basic", "or" or "and", as declared
    TopDown,        \* all of them in the order of walk_top_down
    Declared,       \* the HistoryType each OR state is declared with, else NONE
    Calls,          \* what handlers may ask for: records [op, to, ex]
    HistoryCalls,   \* <<OR state, child or NoState>> for history_child_
    Asking,         \* <<"en", s>> and <<"ex", s>>, the entry and exit actions
                    \* that ask for transitions, mapped to what they ask for
    MaxAsks,        \* ... and how often they do until the machine settles
    NoState         \* NULL

NONE == 0
SHALLOW == 1
DEEP == 2
INHERITED == 3      \* SHALLOW_HISTORY | DEEP_HISTORY

ASSUME TreeAssumption ==
    /\ IsFiniteSet(States) /\ Root \in States /\ NoState \notin States
    /\ Above \in [States -> SUBSET States] /\ Above[Root] = {}
    /\ \A s \in States \ {Root} :
         Parent[s] \in States \ Above[Parent[s]] /\ Above[s] = Above[Parent[s]] \cup {Parent[s]}
    /\ Kids \in [States -> Seq(States)]
    /\ \A s \in States :
         /\ ToSet(Kids[s]) = {c \in States \ {Root} : Parent[c] = s}
         /\ Type[s] = "basic" => Kids[s] = <<>>
         /\ Declared[s] \in {NONE, SHALLOW, DEEP}

Commands ==
    [op : {"transit"}, to : States, ex : States \cup {NoState}]
        \cup [op : {"terminate"}, to : {Root}, ex : {NoState}]

ASSUME CallsAssumption ==
    /\ Calls \subseteq Commands
    /\ \A hook \in DOMAIN Asking : Asking[hook] \subseteq Commands
    /\ HistoryCalls \subseteq States \X (States \cup {NoState})
    /\ MaxAsks \in Nat

\* walk_top_down: a state before what is below it, the children in order
VisitedBefore(s, t) ==
    \/ s \in Above[t]
    \/ \E p \in States : \E m, n \in DOMAIN Kids[p] :
          m < n /\ Kids[p][m] \in Above[s] \cup {s} /\ Kids[p][n] \in Above[t] \cup {t}

ASSUME WalkAssumption ==
    /\ TopDown \in Seq(States) /\ ToSet(TopDown) = States
    /\ \A i, j \in DOMAIN TopDown : i < j => VisitedBefore(TopDown[i], TopDown[j])

VARIABLES
    active,         \* _active of each state
    target,         \* the states whose _target is set
    active_child, target_child, \* of each OR state
    active_count, target_count, \* of the machine
    level,                      \* _action_level: exiting < 0, entering > 0
    started,
    stack,          \* the calls under way, innermost first
    turn,           \* who called: a "handler" or the kernel's "continuation"
    continuation,   \* the continuation slot of the current execution context
    asks,           \* how often entry and exit actions have asked
    goal,           \* (history) the state of the last transition, NoState: none
    saved,          \* (history) what the last respawn saved
    failed          \* "no", or how the program ended: "assert", "null"

flags == <<active, active_count>>
targets == <<target, target_count, target_child>>
vars == <<flags, targets, active_child, level, started, stack, turn,
          continuation, asks, goal, saved, failed>>

-------------------------------------------------------------------------------
(* The tree.                                                                   *)

\* initialize_state makes an OR or AND state without children a basic one
IsOr(s)  == Type[s] = "or" /\ Kids[s] # <<>>
IsAnd(s) == Type[s] = "and" /\ Kids[s] # <<>>
ParentOf(s) == IF s = Root THEN NoState ELSE Parent[s]

UpTo(s, t) == {u \in Above[s] \cup {s} : t \in Above[u] \cup {u}}   \* t above s

state_level(s) == Cardinality(Above[s])

\* n steps up; NoState beyond the root
ancestor_state(s, n) ==
    IF n > state_level(s) THEN NoState
    ELSE CHOOSE t \in Above[s] \cup {s} : state_level(t) = state_level(s) - n

\* The two are raised to one level and then together.  When s1 is the higher one
\* the code raises s2 by n1 (`n2 = n1' in the call) instead of n2 - n1: unless
\* that happens to be the same the two climb past each other and off the tree.
common_ancestor(s1, s2) ==
    LET n1 == state_level(s1)
        n2 == state_level(s2)
        up == IF n1 < n2 THEN ancestor_state(s2, n1) ELSE s2
        at == IF n1 > n2 THEN ancestor_state(s1, n1 - n2) ELSE s1
        meets == {n \in 0..n1 : up # NoState
                                  /\ ancestor_state(at, n) = ancestor_state(up, n)
                                  /\ ancestor_state(at, n) # NoState}
    IN  IF meets = {} THEN NoState
        ELSE ancestor_state(at, CHOOSE n \in meets : \A k \in meets : n <= k)

\* the lowest of some of the states above one
Lowest(on) == CHOOSE t \in on : \A u \in on : u \in Above[t] \cup {t}

\* the first OR state above s
NearestOr(s) ==
    LET ors == {t \in Above[s] : IsOr(t)}
    IN  IF ors = {} THEN NoState ELSE Lowest(ors)

\* an OR state that declares no history inherits a deep one
histype(s) ==
    LET declaring == {t \in Above[s] : IsOr(t) /\ Declared[t] # NONE}
    IN  IF ~IsOr(s) \/ Declared[s] # NONE THEN Declared[s]
        ELSE IF declaring # {} /\ Declared[Lowest(declaring)] = DEEP THEN INHERITED
        ELSE NONE

-------------------------------------------------------------------------------
(* The flags.                                                                  *)

\* is_in_stable_state, and what it asserts
Stable == active_count = target_count
CountsAgree == active_count <= target_count

IsIn(s) == active[s] # 0
Configuration == {s \in States : active[s] = 1}

(* Mutant: a state being exited counts as active.                              *)
NonZero(flag) == IF flag # 0 THEN 1 ELSE 0
\* what a flag adds to _active_count
Counts(flag) == IF flag > 0 THEN 1 ELSE 0

set_active_flag(s, flag) ==
    /\ active' = [active EXCEPT ![s] = flag]
    /\ active_count' = active_count + Counts(flag) - Counts(active[s])

\* _target set in on and cleared in off
set_target_flags(on, off) ==
    /\ target' = (target \ off) \cup on
    /\ target_count' = target_count + Cardinality(on \ target) - Cardinality(off \ on)

\* what clear_target_tree(s) clears
TargetTree(s) ==
    {t \in States :
        /\ t = s \/ s \in Above[t]
        /\ \A u \in UpTo(t, s) :
             /\ u \in target
             /\ u # s /\ IsOr(Parent[u]) => target_child[Parent[u]] = u}

ClearedChildren(tree) ==
    [s \in States |-> IF s \in tree THEN NoState ELSE target_child[s]]

\* what clear_exited_state reaches from the root
Visited ==
    {t \in States :
        \A u \in Above[t] \cup {t} : u # Root =>
            /\ active[Parent[u]] = 1
            /\ IsOr(Parent[u]) => active_child[Parent[u]] = u}

-------------------------------------------------------------------------------
(* What the functions read.                                                    *)

\* the state whose subtree is left; NoState: none
ExitPoint(to, ex) ==
    LET a_to == active[to] > 0
        a_ex == ex # NoState /\ active[ex] > 0
    IN  CASE a_to /\ a_ex  -> common_ancestor(to, ex)
          [] a_to /\ ~a_ex -> to
          [] ~a_to /\ a_ex -> ex
          [] OTHER         -> NoState

OffTheTree(to, ex) ==
    /\ ex # NoState /\ active[to] > 0 /\ active[ex] > 0
    /\ ExitPoint(to, ex) = NoState

\* The untargeted states from s upwards, and the state above them: the first
\* one that is a target already.
Joint(s) ==
    LET on == {u \in Above[s] : u \in target} IN IF on = {} THEN NoState ELSE Lowest(on)
Untargeted(s) == {s} \cup {u \in Above[s] : Joint(s) \in Above[u] \cup {NoState}}

\* the child of an ancestor u of s on the way to s
Toward(u, s) == CHOOSE c \in {s} \cup Above[s] : c # Root /\ Parent[c] = u

\* the child an OR state enters when no transition chose one
DefaultChild(s) ==
    IF histype(s) = NONE \/ active_child[s] = NoState THEN Kids[s][1] ELSE active_child[s]

\* history_child_'s preconditions
CanSetHistory(s, child) ==
    /\ active[s] = 0
    /\ histype(s) # NONE
    /\ child # NoState =>
         /\ ParentOf(child) = s
         /\ histype(s) = INHERITED /\ NearestOr(s) # NoState =>
              active_child[NearestOr(s)] # NoState

\* the states clear_deep_history(t) goes through: down AND states, and down the
\* history of OR states that inherited theirs
DeepHistory(t) ==
    {t} \cup {u \in {v \in States : t \in Above[v]} :
        \A v \in UpTo(u, t) \ {t} :
            /\ IsOr(Parent[v]) =>
                 histype(Parent[v]) = INHERITED /\ active_child[Parent[v]] = v}
Cleared(s) == UNION {DeepHistory(t) : t \in ToSet(Kids[s])}

SetsHistory(s, child) == CanSetHistory(s, child) /\ active_child[s] # child
ClearsDeep(s, child) ==
    /\ SetsHistory(s, child) /\ active_child[s] # NoState
    /\ histype(s) \in {DEEP, INHERITED}

-------------------------------------------------------------------------------
(* Calls.  A frame names the function, the state it is called for and, where   *)
(* it resumes after a call, what it kept: a level, a child's index, a command. *)

Frame(fn, s, kept) == [fn |-> fn, state |-> s, kept |-> kept]
Command(cmd)       == Frame(cmd.op, cmd.to, cmd.ex)

Top == Head(stack)

\* The functions that call is_in_stable_state
AskingIfStable == {"transit", "terminate", "transited", "terminated",
                   "enter_stable_state", "settled", "_complete_transition"}

\* What the running function asserts, and the pointers it follows
Asserts ==
    LET s  == Top.state
        fn == Top.fn
    IN  /\ fn \in AskingIfStable => CountsAgree
        /\ fn = "transit" =>
             /\ ~OffTheTree(s, Top.kept)
             /\ ExitPoint(s, Top.kept) # NoState => ExitPoint(s, Top.kept) \in target
        /\ fn = "terminated" /\ Stable => ~IsIn(Root)
        /\ fn = "prepare_target_path" /\ s \notin target =>
             /\ \A u \in Untargeted(s) \ {s} : target_child[u] = NoState
             /\ LET p == Joint(s)
                IN  p # NoState /\ target_child[p] # NoState =>
                       target_child[p] # Toward(p, s) /\ target_child[p] \in target
        /\ fn = "enter_stable_state" =>
             /\ Top.kept = "_complete_transition" => level = 0
             /\ ~Stable /\ level = 0 => \A t \in Visited : active[t] # -1
        /\ fn = "enter_target_state" => s \in target /\ (active[s] # 1 => level >= 0)
        /\ fn = "entered" /\ active[s] = 1 /\ IsOr(s) =>
             IF target_child[s] # NoState THEN target_child[s] \in target
             ELSE DefaultChild(s) \notin target
        /\ fn = "history_child_" /\ ClearsDeep(s, Top.kept) =>
             \A t \in Cleared(s) : active[t] = 0

Running(fn) == failed = "no" /\ stack # <<>> /\ Top.fn = fn /\ Asserts
Becomes(frames) == stack' = frames \o Tail(stack)
Idle        == failed = "no" /\ stack = <<>>

Init ==
    /\ active = [s \in States |-> 0] /\ active_count = 0
    /\ target = {} /\ target_count = 0
    /\ target_child = [s \in States |-> NoState]
    /\ active_child = [s \in States |-> NoState]
    /\ level = 0 /\ started = FALSE
    /\ stack = <<>> /\ turn = "handler" /\ continuation = FALSE /\ asks = 0
    /\ goal = NoState /\ saved = <<>> /\ failed = "no"

\* The entry or exit action of a state: user code that may ask for a transition
\* before it returns to the frame that called it.
UserAction(hook, frame) ==
    \/ Becomes(<<frame>>) /\ UNCHANGED <<asks, saved>>
    \/ /\ hook \in DOMAIN Asking /\ asks < MaxAsks
       /\ \E cmd \in Asking[hook] : Becomes(<<Command(cmd), frame>>)
       /\ asks' = asks + 1
       /\ saved' = <<>>

-------------------------------------------------------------------------------
(* transit, transit_ex, terminate: state_transition and what follows it.       *)

\* level inside state_transition, and restored when a call returns
Deeper == IF level <= 0 THEN level - 1 ELSE level + 1

Resumed == Top.kept

(* Mutant: a continuation is not asked for.                                    *)
NotAsked == continuation
\* kernel.continuation(), called while the machine is not stable
Asked == continuation \/ ~Stable

(* Mutant: clean up after every completed transition.                          *)
AlwaysCleaned == started /\ ~Stable
\* do_cleanup(), called once the machine is stable and left
Cleaned == started /\ (Stable => IsIn(Root))

(* Mutant: terminate() leaves the targets as they are.                         *)
TargetsKept == {}
\* the targets terminate() clears
Abandoned == TargetTree(Root)

Transit ==
    LET to == Top.state
        x  == ExitPoint(to, Top.kept)
        rest == <<Frame("prepare_target_path", to, 0), Frame("transited", to, level)>>
    IN  /\ Running("transit")
        /\ started' = TRUE
        /\ level' = Deeper
        /\ IF x = NoState THEN Becomes(rest) /\ UNCHANGED targets
           ELSE /\ set_target_flags({x}, TargetTree(x))
                /\ target_child' = ClearedChildren(TargetTree(x))
                /\ Becomes(<<Frame("exit_state", x, 0)>> \o rest)
        /\ UNCHANGED <<flags, active_child, turn, continuation, asks, goal, saved, failed>>

Terminate ==
    /\ Running("terminate")
    /\ level' = Deeper
    /\ goal' = NoState
    /\ set_target_flags({}, Abandoned)
    /\ target_child' = ClearedChildren(Abandoned)
    /\ Becomes(<<Frame("exit_state", Root, 0), Frame("terminated", Root, level)>>)
    /\ UNCHANGED <<flags, active_child, started, turn, continuation, asks, saved, failed>>

\* what follows state_transition
Transited ==
    /\ Running("transited")
    /\ level' = Resumed
    /\ continuation' = Asked
    /\ Becomes(<<>>)
    /\ UNCHANGED <<flags, targets, active_child, started, turn, asks, goal, saved, failed>>

Terminated ==
    /\ Running("terminated")
    /\ level' = Resumed
    /\ continuation' = Asked
    /\ started' = Cleaned
    /\ Becomes(<<>>)
    /\ UNCHANGED <<flags, targets, active_child, turn, asks, goal, saved, failed>>

prepare_target_path ==
    LET s   == Top.state
        p   == Joint(s)
        old == IF p # NoState /\ IsOr(p) THEN target_child[p] ELSE NoState
        on  == Untargeted(s)
    IN  /\ Running("prepare_target_path")
        /\ goal' = s
        /\ IF s \in target THEN Becomes(<<Frame("exit_state", s, 0)>>) /\ UNCHANGED targets
           ELSE \E off \in {IF old = NoState THEN {} ELSE TargetTree(old)} :   \* the one
                /\ set_target_flags(on, off)
                /\ target_child' =
                      [u \in States |->
                          IF IsOr(u) /\ u # s /\ u \in on \cup {p} THEN Toward(u, s)
                          ELSE IF u \in off THEN NoState
                          ELSE target_child[u]]
                /\ Becomes(IF old # NoState /\ active_child[p] # NoState
                           THEN <<Frame("exit_state", active_child[p], 0)>> ELSE <<>>)
        /\ UNCHANGED <<flags, active_child, level, started, turn, continuation,
                       asks, saved, failed>>

-------------------------------------------------------------------------------
(* Leaving: exit_state.                                                        *)

(* Mutant: exit_state does not go down.                                        *)
ExitNone(s) == <<>>
\* the children exit_state goes down to
ExitChildren(s) ==
    IF IsOr(s) THEN (IF active_child[s] = NoState THEN <<>> ELSE <<active_child[s]>>)
    ELSE Kids[s]

\* its end: out, once the parent is being left too
ParentLeaving(s) == IF s = Root THEN TRUE ELSE active[Parent[s]] < 0

exit_state ==
    LET s == Top.state
    IN  /\ Running("exit_state")
        /\ Becomes(CASE active[s] \in {1, -1} ->
                          [i \in DOMAIN ExitChildren(s) |->
                              Frame("exit_state", ExitChildren(s)[i], 0)]
                             \o <<Frame("on__exit", s, 0)>>
                     [] active[s] = -2 -> <<Frame("exited", s, 0)>>
                     [] OTHER -> <<>>)
        /\ IF active[s] = 1 THEN set_active_flag(s, -1) ELSE UNCHANGED flags
        /\ UNCHANGED <<targets, active_child, level, started, turn, continuation,
                       asks, goal, saved, failed>>

on__exit ==
    LET s == Top.state
    IN  /\ Running("on__exit")
        /\ \/ /\ active[s] = -1
              /\ set_active_flag(s, -2)
              /\ UserAction(<<"ex", s>>, Frame("exited", s, 0))
           \/ /\ active[s] # -1
              /\ Becomes(<<Frame("exited", s, 0)>>)
              /\ UNCHANGED <<flags, asks, saved>>
        /\ UNCHANGED <<targets, active_child, level, started, turn, continuation,
                       goal, failed>>

Exited ==
    LET s == Top.state
    IN  /\ Running("exited")
        /\ Becomes(<<>>)
        /\ IF active[s] = -2 /\ ParentLeaving(s) THEN set_active_flag(s, 0)
           ELSE UNCHANGED flags
        /\ UNCHANGED <<targets, active_child, level, started, turn, continuation,
                       asks, goal, saved, failed>>

-------------------------------------------------------------------------------
(* Entering: enter_stable_state, enter_target_state.                           *)

\* enter_stable_state; kept says who called it
enter_stable_state ==
    LET due  == ~Stable /\ level = 0
        next == Frame(Top.kept, Root, 0)
    IN  /\ Running("enter_stable_state")
        /\ active' = [s \in States |->
                        IF due /\ active[s] = -2 /\ s \in Visited THEN 0 ELSE active[s]]
        /\ Becomes(IF due THEN <<Frame("enter_target_state", Root, 0), next>> ELSE <<next>>)
        /\ UNCHANGED <<active_count, targets, active_child, level, started, turn,
                       continuation, asks, goal, saved, failed>>

enter_target_state ==
    LET s    == Top.state
        next == Frame("entered", s, level)
    IN  /\ Running("enter_target_state")
        /\ IF active[s] = 1
           THEN Becomes(<<next>>) /\ UNCHANGED <<flags, level, asks, saved>>
           ELSE /\ set_active_flag(s, 1)
                /\ level' = level + 1
                /\ UserAction(<<"en", s>>, next)
        /\ UNCHANGED <<targets, active_child, started, turn, continuation, goal, failed>>

\* after on__entry: down into the child, or into the first region
Entered ==
    LET s     == Top.state
        inner == IF target_child[s] # NoState THEN target_child[s] ELSE DefaultChild(s)
    IN  /\ Running("entered")
        /\ level' = Resumed
        /\ \/ /\ active[s] = 1 /\ IsOr(s)
              /\ IF inner \in target THEN UNCHANGED targets
                 ELSE /\ set_target_flags({inner}, {})
                      /\ target_child' = [target_child EXCEPT ![s] = inner]
              /\ active_child' = [active_child EXCEPT ![s] = inner]
              /\ Becomes(<<Frame("enter_target_state", inner, 0)>>)
           \/ /\ active[s] # 1 \/ ~IsOr(s)
              /\ Becomes(IF active[s] = 1 /\ IsAnd(s) THEN <<Frame("region", s, 1)>> ELSE <<>>)
              /\ UNCHANGED <<targets, active_child>>
        /\ UNCHANGED <<flags, started, turn, continuation, asks, goal, saved, failed>>

\* the regions of an AND state, one after the other while it stays active
Region ==
    LET s == Top.state
        i == Top.kept
    IN  /\ Running("region")
        /\ IF active[s] = 1 /\ i <= Len(Kids[s])
           THEN /\ set_target_flags({Kids[s][i]}, {})
                /\ Becomes(<<Frame("enter_target_state", Kids[s][i], 0),
                             Frame("region", s, i + 1)>>)
           ELSE Becomes(<<>>) /\ UNCHANGED <<target, target_count>>
        /\ UNCHANGED <<flags, target_child, active_child, level, started, turn,
                       continuation, asks, goal, saved, failed>>

\* enter_stable_state returns to a handler ...
settled ==
    /\ Running("settled")
    /\ Becomes(<<>>)
    /\ UNCHANGED <<flags, targets, active_child, level, started, turn, continuation,
                   asks, goal, saved, failed>>

\* ... or to _complete_transition
_complete_transition ==
    /\ Running("_complete_transition")
    /\ continuation' = Asked
    /\ started' = Cleaned
    /\ turn' = IF continuation' THEN "continuation" ELSE "handler"
    /\ Becomes(<<>>)
    /\ UNCHANGED <<flags, targets, active_child, level, asks, goal, saved, failed>>

-------------------------------------------------------------------------------
(* OR_State::history_child_.                                                   *)

history_child_ ==
    LET s     == Top.state
        child == Top.kept
        set   == SetsHistory(s, child)
        deep  == ClearsDeep(s, child)
    IN  /\ Running("history_child_")
        /\ active_child' =
               [t \in States |->
                   IF deep /\ t \in Cleared(s) /\ histype(t) = INHERITED THEN NoState
                   ELSE IF set /\ t = s THEN child
                   ELSE active_child[t]]
        /\ Becomes(<<>>)
        /\ UNCHANGED <<flags, targets, level, started, turn, continuation, asks,
                       goal, saved, failed>>

-------------------------------------------------------------------------------
(* save_machine_state, and what hsm-play restores from it.                     *)

\* history_child_(): the child an OR state would come back to
HistoryOf(s) == IF active[s] = 1 THEN NoState ELSE active_child[s]

(* Mutant: the child is left out and not the parent.                           *)
PassedBelow(list) ==
    {list[i+1] : i \in {i \in DOMAIN list : i < Len(list) /\ ParentOf(list[i+1]) = list[i]}}
\* of the targets, those that record_transit takes out again: the next one is
\* a child
Passed(list) ==
    {list[i] : i \in {i \in DOMAIN list : i < Len(list) /\ ParentOf(list[i+1]) = list[i]}}

save_machine_state ==
    LET on == Keep(TopDown, target)
    IN  [transit |-> Keep(on, States \ Passed(on)),
         history |-> Keep(TopDown, {s \in States : IsOr(s) /\ HistoryOf(s) # NoState}),
         child   |-> [s \in States |-> HistoryOf(s)],
         active  |-> Configuration]

\* SMSession::_start_copy: the calls it makes
_start_copy(save) ==
    [i \in DOMAIN save.transit |-> Frame("transit", save.transit[i], NoState)]
       \o [i \in DOMAIN save.history |->
              Frame("history_child_", save.history[i], save.child[save.history[i]])]

-------------------------------------------------------------------------------
(* The machine in its session.                                                 *)

InHandler == Idle /\ turn = "handler"
Asks(frames) == stack' = frames /\ asks' = 0

\* A handler asks for a transition
Call ==
    /\ InHandler
    /\ \E cmd \in Calls : Asks(<<Command(cmd)>>)
    /\ saved' = <<>>
    /\ UNCHANGED <<flags, targets, active_child, level, started, turn, continuation,
                   goal, failed>>

\* A handler enters the targeted states itself
EnterNow ==
    /\ InHandler /\ ~Stable
    /\ Asks(<<Frame("enter_stable_state", Root, "settled")>>)
    /\ UNCHANGED <<flags, targets, active_child, level, started, turn, continuation,
                   goal, saved, failed>>

\* A handler sets or clears the history of an OR state
SetHistory ==
    /\ InHandler
    /\ \E h \in HistoryCalls : Asks(<<Frame("history_child_", h[1], h[2])>>)
    /\ saved' = <<>>
    /\ UNCHANGED <<flags, targets, active_child, level, started, turn, continuation,
                   goal, failed>>

\* command_respawn_session: the session dies with its machine, a copy starts
Respawn ==
    /\ InHandler /\ Stable /\ ~continuation
    /\ saved' = <<save_machine_state>>
    /\ Asks(_start_copy(save_machine_state))
    /\ active' = [s \in States |-> 0] /\ active_count' = 0
    /\ target' = {} /\ target_count' = 0
    /\ target_child' = [s \in States |-> NoState]
    /\ active_child' = [s \in States |-> NoState]
    /\ level' = 0 /\ started' = FALSE
    /\ UNCHANGED <<turn, continuation, goal, failed>>

\* The handler or the continuation has returned and another one was asked for
Continue ==
    /\ Idle /\ continuation
    /\ turn' = "continuation"
    /\ continuation' = FALSE
    /\ stack' = <<Frame("enter_stable_state", Root, "_complete_transition")>>
    /\ UNCHANGED <<flags, targets, active_child, level, started, asks, goal, saved,
                   failed>>

Step ==
    \/ Transit \/ Terminate \/ Transited \/ Terminated \/ prepare_target_path
    \/ exit_state \/ on__exit \/ Exited
    \/ enter_stable_state \/ enter_target_state \/ Entered \/ Region
    \/ settled \/ _complete_transition \/ history_child_

\* A failed assert() or a null pointer is the end of the process.
Abort ==
    /\ failed = "no" /\ stack # <<>> /\ ~Asserts
    /\ failed' = IF Top.fn = "transit" /\ OffTheTree(Top.state, Top.kept)
                 THEN "null" ELSE "assert"
    /\ UNCHANGED <<flags, targets, active_child, level, started, stack, turn,
                   continuation, asks, goal, saved>>

Next ==
    \/ Call \/ EnterNow \/ SetHistory \/ Respawn \/ Continue
    \/ Step \/ Abort

Spec == Init /\ [][Next]_vars

\* A call goes on to its end, and a handler does not call for ever: it returns
\* and the kernel runs the continuation.
FairSpec == Spec /\ WF_vars(Step \/ Abort) /\ SF_vars(Continue)

-------------------------------------------------------------------------------
(* Properties.                                                                 *)

Functions ==
    {"transit", "terminate", "transited", "terminated", "prepare_target_path",
     "exit_state", "on__exit", "exited", "enter_stable_state",
     "enter_target_state", "entered", "region", "settled",
     "_complete_transition", "history_child_"}

\* The fields hold what their C++ types and the tree allow, and at rest no
\* entry or exit action is under way.
TypeOK ==
    /\ active \in [States -> -2..1] /\ target \in SUBSET States
    /\ active_child \in [States -> States \cup {NoState}]
    /\ target_child \in [States -> States \cup {NoState}]
    /\ active_count \in Nat /\ target_count \in Nat /\ level \in Int
    /\ \A i \in DOMAIN stack : stack[i].fn \in Functions
    /\ Idle => level = 0
    /\ turn \in {"handler", "continuation"} /\ asks \in 0..MaxAsks
    /\ started \in BOOLEAN /\ continuation \in BOOLEAN
    /\ goal \in States \cup {NoState} /\ failed \in {"no", "assert", "null"}

\* The machine never looks at its states to tell whether it is stable: the
\* counters it compares are kept up flag by flag, through every nesting of
\* transitions, and count exactly the active and the targeted states.
CountsExact ==
    /\ active_count = Cardinality({s \in States : active[s] > 0})
    /\ target_count = Cardinality(target)

\* A configuration of a statechart: what is active is closed towards the root,
\* an active OR state has the one active child it points to, an active AND
\* state has all of them.
Legal(conf) ==
    \A s \in States :
        LET on == conf \cap ToSet(Kids[s])
        IN  /\ s \notin conf => on = {}
            /\ s \in conf /\ IsOr(s)  => on = {active_child[s]}
            /\ s \in conf /\ IsAnd(s) => on = ToSet(Kids[s])

\* is_in_stable_state() compares two counters.  When they agree and no call is
\* under way the machine is in a legal configuration, the one that was aimed
\* at, whatever the handlers, the entry and the exit actions asked for.
StableMeansSettled ==
    Idle /\ Stable =>
        /\ Configuration = target
        /\ Legal(Configuration)

\* Of several transitions asked for in one handler, or from inside entry and exit
\* actions, the one that was aimed last prevails: once the machine settles its
\* state is active, and after a last terminate() nothing is.
LastRequestWins ==
    Idle /\ Stable =>
        IF goal = NoState THEN Configuration = {} ELSE goal \in Configuration

\* Entry and exit actions nest, also when one of them asks for a transition: a
\* state is entered only while the machine is started and its parent is in, and
\* exited after every child that was in.
ActionsNest ==
    [][\A s \in States :
         /\ active[s] # 1 /\ active'[s] = 1 =>
              started /\ (s # Root => active[Parent[s]] = 1)
         /\ active[s] # -2 /\ active'[s] = -2 =>
              started /\ \A c \in ToSet(Kids[s]) : active[c] \in {0, -2}]_vars

\* do_cleanup() runs when the machine is left, and then no state is in; states
\* are in only between on__startup and on__cleanup.
StartedWhileIn == failed = "no" /\ Configuration # {} => started

\* A machine restored from save_machine_state settles in the saved configuration.
RestoredSame ==
    Idle /\ Stable /\ saved # <<>> => Configuration = saved[1].active

\* A machine that is asked for a transition is settled in the end, its continuation
\* not forgotten, unless the program failed.
Settles == ~Stable ~> Stable \/ failed # "no"

\* No legal sequence of calls makes an assertion of the machine fail.
NoFailure == failed = "no"

\* is_in_stable_state() asserts that no more states are active than targeted, at
\* every place where a transition, a terminate() or a continuation asks it.
ActiveWithinTargets ==
    failed = "no" /\ stack # <<>> /\ Top.fn \in AskingIfStable => CountsAgree

===============================================================================
