------------------------------- MODULE HsmProofs -------------------------------
(***************************************************************************)
(* Proofs about Hsm, for every tree of states, every history and every     *)
(* choice of what handlers, entry and exit actions ask for: the counters   *)
(* are exact, and a stable machine at rest is in a legal configuration,    *)
(* the one that was aimed at last.  When no exit action asks for the end   *)
(* of the machine, states are in only while it is started, and entry and   *)
(* exit actions nest.  A machine that is restored settles where the saved  *)
(* one was, and one that is used with care fails none of its assertions.   *)
(*                                                                         *)
(* The statements about a machine at rest are not inductive: between a     *)
(* request and the end of its transition states are in that nothing aims   *)
(* at any more, and targets have not been entered yet.  The invariant      *)
(* therefore says of every state in such a condition which call on the     *)
(* stack will deal with it: what is in is a target or being left (Aimed),  *)
(* what is in aims at a child or has a call that will choose one           *)
(* (Complete), what leaves has its on__exit under way (ExitsOnce) behind   *)
(* those of its children (ChildrenFirst), and the goal is a target or has  *)
(* a call that will make it one (Goal).  With an empty stack all of the    *)
(* exceptions are gone.  The other theorems add to this what they need:    *)
(* SInv when the machine is started, RInv what the calls that restore it   *)
(* have still to aim at, NInv in which order calls stand on the stack when *)
(* exit actions ask for nothing, and OInv that no state is left half way   *)
(* below one that is out when entry actions ask for nothing either.        *)
(***************************************************************************)
EXTENDS Hsm, FilterProofs

-------------------------------------------------------------------------------
(* The tree.                                                                   *)

IsChild(c, s) == c \in States /\ c # Root /\ Parent[c] = s

\* The level of a state is a number.
LEMMA LevelIsNat == ASSUME TreeAssumption, NEW s \in States PROVE state_level(s) \in Nat
<1>1. Above[s] \in SUBSET States /\ IsFiniteSet(States)
  BY DEF TreeAssumption
<1>2. IsFiniteSet(Above[s])
  BY <1>1, FS_Subset
<1> QED
  BY <1>2, FS_CardinalityType DEF state_level

(* A state that is not the root is one level below its parent.               *)
LEMMA LevelOfParent ==
    ASSUME TreeAssumption, NEW s \in States, s # Root
    PROVE  /\ Parent[s] \in States /\ Parent[s] \notin Above[Parent[s]]
           /\ Above[s] = Above[Parent[s]] \cup {Parent[s]}
           /\ state_level(s) = state_level(Parent[s]) + 1
<1> DEFINE p == Parent[s]
<1>1. /\ p \in States /\ p \notin Above[p] /\ Above[s] = Above[p] \cup {p}
      /\ IsFiniteSet(States) /\ Above[p] \in SUBSET States
  BY DEF TreeAssumption
<1> HIDE DEF p
<1>2. IsFiniteSet(Above[p])
  BY <1>1, FS_Subset
<1>3. Cardinality(Above[p] \cup {p}) = Cardinality(Above[p]) + 1
  BY <1>1, <1>2, FS_AddElement, Zenon
<1>4. state_level(s) = state_level(p) + 1
  BY <1>1, <1>3, Zenon DEF state_level
<1> QED
  BY <1>1, <1>4 DEF p

(* What a state has when its parent has it, all states of the tree have.     *)
LEMMA FromTheRoot ==
    ASSUME TreeAssumption, NEW T, \A s \in States : s = Root \/ Parent[s] \in T => s \in T
    PROVE  States \subseteq T
<1> DEFINE less == {p \in Nat \X Nat : p[1] < p[2]}
           levels == {state_level(s) : s \in States \ T}
<1> SUFFICES ASSUME levels # {} PROVE FALSE
  OBVIOUS
<1>1. IsWellFoundedOn(less, Nat)
  BY NatLessThanWellFounded, Zenon DEF OpToRel
<1>2. levels \subseteq Nat
  BY LevelIsNat
<1>3. PICK n \in levels : \A m \in levels : <<m, n>> \notin less
  <2> HIDE DEF less, levels
  <2> QED
    BY <1>1, <1>2, WFMin, Zenon
<1>4. PICK s \in States \ T : state_level(s) = n
  BY <1>3
<1>5. s # Root /\ Parent[s] \notin T
  BY <1>4
<1>6. Parent[s] \in States /\ state_level(s) = state_level(Parent[s]) + 1
  BY <1>4, <1>5, LevelOfParent
<1>7. state_level(Parent[s]) \in levels
  BY <1>5, <1>6
<1>8. <<state_level(Parent[s]), n>> \in less
  <2> DEFINE m == state_level(Parent[s])
  <2>1. m \in Nat /\ n \in Nat /\ n = m + 1
    BY <1>2, <1>3, <1>4, <1>6, <1>7, Zenon
  <2> HIDE DEF m
  <2>2. <<m, n>> \in less
    BY <2>1
  <2> QED
    BY <2>2 DEF m
<1> QED
  BY <1>3, <1>7, <1>8, Zenon

\* Above is transitive.
LEMMA AboveAbove ==
    ASSUME TreeAssumption, NEW s \in States, NEW u \in Above[s]
    PROVE  u \in States /\ Above[u] \subseteq Above[s]
<1> DEFINE T == {t \in States : \A v \in Above[t] : Above[v] \subseteq Above[t]}
<1>1. ASSUME NEW t \in States, t = Root \/ Parent[t] \in T PROVE t \in T
  <2>1. CASE t = Root
    BY <2>1 DEF TreeAssumption
  <2>2. CASE t # Root
    <3>1. Parent[t] \in T /\ Above[t] = Above[Parent[t]] \cup {Parent[t]}
      BY <1>1, <2>2, LevelOfParent
    <3>2. \A v \in Above[Parent[t]] : Above[v] \subseteq Above[Parent[t]]
      BY <3>1
    <3> QED
      BY <3>1, <3>2
  <2> QED
    BY <2>1, <2>2
<1> HIDE DEF T
<1>2. States \subseteq T
  BY <1>1, FromTheRoot
<1> QED
  BY <1>2 DEF T, TreeAssumption

\* The root is above every other state.
LEMMA RootAbove == ASSUME TreeAssumption, NEW s \in States PROVE Root \in Above[s] \cup {s}
<1> DEFINE T == {t \in States : Root \in Above[t] \cup {t}}
<1>1. ASSUME NEW t \in States, t = Root \/ Parent[t] \in T PROVE t \in T
  BY <1>1, LevelOfParent
<1> HIDE DEF T
<1>2. States \subseteq T
  BY <1>1, FromTheRoot
<1> QED
  BY <1>2 DEF T

\* No state is above itself.
LEMMA NotAboveItself == ASSUME TreeAssumption, NEW s \in States PROVE s \notin Above[s]
<1>1. CASE s = Root
  BY <1>1 DEF TreeAssumption
<1>2. CASE s # Root
  <2> SUFFICES ASSUME s \in Above[s] PROVE FALSE
    OBVIOUS
  <2>1. /\ Parent[s] \in States /\ Parent[s] \notin Above[Parent[s]]
        /\ Above[s] = Above[Parent[s]] \cup {Parent[s]}
    BY <1>2, LevelOfParent
  <2>2. s \in Above[Parent[s]]
    BY <2>1
  <2>3. Above[s] \subseteq Above[Parent[s]]
    BY <2>1, <2>2, AboveAbove
  <2> QED
    BY <2>1, <2>3
<1> QED
  BY <1>1, <1>2

(* The way down from a state to one below it starts with one of its children. *)
LEMMA ChildToward ==
    ASSUME TreeAssumption, NEW s \in States, NEW u \in Above[s]
    PROVE  \E c \in Above[s] \cup {s} : IsChild(c, u)
<1> DEFINE T == {t \in States : \A v \in Above[t] : \E c \in Above[t] \cup {t} : IsChild(c, v)}
<1>1. ASSUME NEW t \in States, t = Root \/ Parent[t] \in T PROVE t \in T
  <2>1. CASE t = Root
    BY <2>1 DEF TreeAssumption
  <2>2. CASE t # Root
    BY <1>1, <2>2, LevelOfParent DEF IsChild
  <2> QED
    BY <2>1, <2>2
<1> HIDE DEF T
<1>2. States \subseteq T
  BY <1>1, FromTheRoot
<1> QED
  BY <1>2 DEF T

(* Of the states above one, some have a lowest.                              *)
LEMMA SomeLowest ==
    ASSUME TreeAssumption, NEW s \in States, NEW on \in SUBSET Above[s], on # {}
    PROVE  Lowest(on) \in on /\ \A u \in on : u \in Above[Lowest(on)] \cup {Lowest(on)}
<1> DEFINE T == {r \in States : \A some \in SUBSET Above[r] :
                    some # {} => \E t \in some : \A u \in some : u \in Above[t] \cup {t}}
<1>1. ASSUME NEW r \in States, r = Root \/ Parent[r] \in T PROVE r \in T
  <2>1. CASE r = Root
    BY <2>1 DEF TreeAssumption
  <2>2. CASE r # Root
    <3>1. Parent[r] \in T /\ Above[r] = Above[Parent[r]] \cup {Parent[r]}
      BY <1>1, <2>2, LevelOfParent
    <3>2. ASSUME NEW some \in SUBSET Above[r], some # {}
          PROVE  \E t \in some : \A u \in some : u \in Above[t] \cup {t}
      <4>1. CASE Parent[r] \in some
        BY <3>1, <4>1
      <4>2. CASE Parent[r] \notin some
        BY <3>1, <3>2, <4>2
      <4> QED
        BY <4>1, <4>2
    <3> QED
      BY <3>2
  <2> QED
    BY <2>1, <2>2
<1> HIDE DEF T
<1>2. States \subseteq T
  BY <1>1, FromTheRoot
<1>3. \E t \in on : \A u \in on : u \in Above[t] \cup {t}
  BY <1>2 DEF T
<1> QED
  BY <1>3 DEF Lowest

\* Of two states above one, one is above the other.
LEMMA Chain ==
    ASSUME TreeAssumption, NEW s \in States, NEW u \in Above[s] \cup {s}, NEW v \in Above[s] \cup {s}
    PROVE  u = v \/ u \in Above[v] \/ v \in Above[u]
<1>1. CASE u = s \/ v = s
  BY <1>1
<1>2. CASE u # s /\ v # s
  <2>1. {u, v} \in SUBSET Above[s] /\ {u, v} # {}
    BY <1>2
  <2>2. /\ Lowest({u, v}) \in {u, v}
        /\ \A w \in {u, v} : w \in Above[Lowest({u, v})] \cup {Lowest({u, v})}
    BY <2>1, SomeLowest
  <2> QED
    BY <2>2
<1> QED
  BY <1>1, <1>2

\* Above is a strict order.
LEMMA NotBelowAbove ==
    ASSUME TreeAssumption, NEW s \in States, NEW u \in Above[s]
    PROVE  u \in States /\ u # s /\ s \notin Above[u]
BY AboveAbove, NotAboveItself

\* What is above a child: its parent and what is above that.
LEMMA AboveChild ==
    ASSUME TreeAssumption, NEW s, NEW c, IsChild(c, s)
    PROVE  s \in States /\ Above[c] = Above[s] \cup {s} /\ s # c /\ c \notin Above[s]
<1>1. c \in States /\ c # Root /\ Parent[c] = s
  BY DEF IsChild
<1>2. s \in States /\ Above[c] = Above[s] \cup {s}
  BY <1>1, LevelOfParent
<1> QED
  BY <1>1, <1>2, NotAboveItself

\* Toward is the one child on the way down.
LEMMA TowardIs ==
    ASSUME TreeAssumption, NEW s \in States, NEW u \in Above[s]
    PROVE  /\ IsChild(Toward(u, s), u) /\ Toward(u, s) \in Above[s] \cup {s}
           /\ \A c \in Above[s] \cup {s} : IsChild(c, u) => c = Toward(u, s)
<1> DEFINE w == Toward(u, s)
<1>1. \E c \in {s} \cup Above[s] : c # Root /\ Parent[c] = u
  BY ChildToward DEF IsChild
<1>2. w \in {s} \cup Above[s] /\ w # Root /\ Parent[w] = u
  BY <1>1 DEF Toward
<1>3. w \in States
  BY <1>2, AboveAbove
<1>4. IsChild(w, u)
  BY <1>2, <1>3 DEF IsChild
<1> HIDE DEF w
<1>5. ASSUME NEW c \in Above[s] \cup {s}, IsChild(c, u) PROVE c = w
  <2>1. c = w \/ c \in Above[w] \/ w \in Above[c]
    BY <1>2, Chain
  <2>2. Above[c] = Above[u] \cup {u} /\ Above[w] = Above[u] \cup {u}
        /\ c # u /\ w # u /\ c \notin Above[u] /\ w \notin Above[u]
    BY <1>4, <1>5, AboveChild
  <2> QED
    BY <2>1, <2>2
<1> QED
  BY <1>2, <1>4, <1>5 DEF w
-------------------------------------------------------------------------------
\* A state of the machine, or none.
MaybeState == States \cup {NoState}

\* The calls that can be under way: the function, the state it was called
\* with and what it keeps in a local across the calls it makes.
Frames ==
    [fn : {"transit", "history_child_"}, state : States, kept : MaybeState]
        \cup [fn : {"terminate"}, state : States, kept : {NoState}]
        \cup [fn : {"transited", "terminated", "entered"}, state : States, kept : Int]
        \cup [fn : {"prepare_target_path", "exit_state", "on__exit", "exited",
                    "enter_target_state", "settled", "_complete_transition"},
              state : States, kept : {0}]
        \cup [fn : {"enter_stable_state"}, state : States,
              kept : {"settled", "_complete_transition"}]
        \cup [fn : {"region"}, state : {s \in States : IsAnd(s)}, kept : Nat \ {0}]

\* The types, with what the tree adds: a child that a state remembers is a
\* child of it.
Typed ==
    /\ active \in [States -> -2..1] /\ target \in SUBSET States
    /\ active_child \in [States -> MaybeState] /\ target_child \in [States -> MaybeState]
    /\ \A s \in States : active_child[s] = NoState \/ IsChild(active_child[s], s)
    /\ \A s \in States : target_child[s] = NoState \/ IsChild(target_child[s], s)
    /\ active_count \in Int /\ target_count \in Int /\ level \in Int
    /\ stack \in Seq(Frames)
    /\ turn \in {"handler", "continuation"} /\ asks \in 0..MaxAsks
    /\ started \in BOOLEAN /\ continuation \in BOOLEAN
    /\ goal \in MaybeState /\ failed \in {"no", "assert", "null"}

\* _active_count and _target_count agree with the flags of the states.
Counted ==
    /\ active_count = Cardinality({s \in States : active[s] > 0})
    /\ target_count = Cardinality(target)

\* The calls that restore _curr_level when their callee returns.
Restoring == {"transited", "terminated", "entered"}

\* The level that the outermost of them restores is that of a machine at rest.
Levels ==
    /\ \A i \in DOMAIN stack :
         stack[i].fn \in Restoring /\ (\A j \in DOMAIN stack : j > i => stack[j].fn \notin Restoring)
           => stack[i].kept = 0
    /\ (\A j \in DOMAIN stack : stack[j].fn \notin Restoring) => level = 0

\* The calls made while states are entered, and those made while they are left.
Entering ==
    {"enter_stable_state", "enter_target_state", "entered", "region", "settled",
     "_complete_transition"}
Leaving == {"exit_state", "on__exit"}

\* Nothing is entered from inside a transition
EntersLast ==
    \A i, j \in DOMAIN stack :
        i < j /\ stack[i].fn \in Entering => stack[j].fn \in Entering

Inside == {s \in States : active[s] \in {1, -1}}

\* enter_target_state is always the innermost call; the parent of the state it
\* is about to enter is in, and an OR parent has it for its active child.
EntersInside ==
    \A i \in DOMAIN stack : stack[i].fn = "enter_target_state" =>
        LET s == stack[i].state
        IN  /\ i = 1
            /\ s # Root =>
                 /\ active[Parent[s]] = 1
                 /\ IsOr(Parent[s]) => active_child[Parent[s]] = s

\* A state that has started to leave (-1) has its call of on__exit under way,
\* and no call of on__exit is left for a state that is in.
ExitsOnce ==
    /\ \A i \in DOMAIN stack : stack[i].fn = "on__exit" => active[stack[i].state] # 1
    /\ \A s \in States : active[s] = -1 =>
         \E i \in DOMAIN stack : stack[i].fn = "on__exit" /\ stack[i].state = s

\* on__exit waits for the children that are still in: they leave above it on
\* the stack.
ChildrenFirst ==
    \A i \in DOMAIN stack : stack[i].fn = "on__exit" =>
        \A c \in Inside : IsChild(c, stack[i].state) =>
            \E j \in DOMAIN stack : j < i /\ stack[j].fn \in Leaving /\ stack[j].state = c

\* With a state, all states above it are in, and an OR state has the child that
\* is in for its active child.
Nested ==
    /\ \A s \in Inside : Above[s] \subseteq Inside
    /\ \A s \in Inside : s # Root /\ IsOr(Parent[s]) => active_child[Parent[s]] = s

\* The state, or one above it, is being left.
Doomed(s) ==
    \E i \in DOMAIN stack : stack[i].fn \in Leaving /\ stack[i].state \in Above[s] \cup {s}

\* The targets are closed upwards, and an OR state that leads to one names its
\* child on the way.
Path ==
    /\ \A s \in target : Above[s] \subseteq target
    /\ \A s \in target : s # Root /\ IsOr(Parent[s]) => target_child[Parent[s]] = s

\* What is in is still aimed at, or on its way out.
Aimed == \A s \in Inside : s \in target \/ Doomed(s)

\* The calls that have still to go down from a state: its entry action has
\* not come back, or its regions are being entered one after the other.
Resumes(s) == \E i \in DOMAIN stack : stack[i].fn = "entered" /\ stack[i].state = s
Regions(s) ==
    \E i \in DOMAIN stack :
        /\ stack[i].fn = "region" /\ stack[i].state = s
        /\ \A m \in DOMAIN Kids[s] : m < stack[i].kept => Kids[s][m] \in target

\* A state that is in aims at a child (an AND state at all of them), unless
\* those calls have still to do it or the state is being left.
Complete ==
    \A s \in States : active[s] = 1 =>
        /\ IsOr(s) => target_child[s] \in target \/ Resumes(s) \/ Doomed(s)
        /\ IsAnd(s) => ToSet(Kids[s]) \subseteq target \/ Resumes(s) \/ Regions(s) \/ Doomed(s)

\* Where the last request leads is a target, unless a transit is still on its
\* way to make it one.
Goal ==
    IF goal = NoState THEN target = {}
    ELSE \/ goal \in target
         \/ \E i \in DOMAIN stack : stack[i].fn \in {"transit", "prepare_target_path"}

\* The inductive invariant.  It holds after every step, with the machine in
\* the middle of nested transitions, not only when it is at rest.
IInv ==
    /\ Typed /\ Counted /\ Levels /\ EntersLast /\ EntersInside /\ ExitsOnce /\ ChildrenFirst
    /\ Nested /\ Path /\ Aimed /\ Complete /\ Goal

\* terminate is called from outside of every transition, or from an entry
\* action: below it on the stack only states are being entered.
EndsOutside ==
    \A i, j \in DOMAIN stack :
        i < j /\ stack[i].fn \in {"terminate", "terminated"} => stack[j].fn \in Entering

\* A machine that is not started has neither targets nor states that are in,
\* and nothing under way will aim at a state.
Off ==
    ~started =>
        /\ target = {} /\ Inside = {}
        /\ \A i \in DOMAIN stack : stack[i].fn # "prepare_target_path"

\* No exit action asks for terminate().  When one does, do_cleanup runs while a
\* transition is still under way, and that transition enters states of a machine
\* that is not started: the theorems about `started` need this hypothesis.
ExitsStay ==
    \A hook \in DOMAIN Asking : hook[1] = "ex" => \A cmd \in Asking[hook] : cmd.op # "terminate"

\* The second invariant: `started` against the configuration.
SInv == EndsOutside /\ Off
-------------------------------------------------------------------------------
(* Calls.  A step replaces the innermost call by others.                       *)

\* The innermost call is replaced by fs; all others are as they were.
Moved(fs) ==
    /\ 1 \in DOMAIN stack /\ Top = stack[1] /\ Top \in Frames
    /\ stack' \in Seq(Frames)
    /\ Len(fs) \in Nat /\ DOMAIN fs = 1..Len(fs)
    /\ DOMAIN stack \subseteq Nat \ {0} /\ DOMAIN stack' \subseteq Nat \ {0}
    /\ \A i \in DOMAIN fs : i \in DOMAIN stack' /\ stack'[i] = fs[i]
    /\ \A k \in DOMAIN stack : k > 1 =>
         k + Len(fs) - 1 \in DOMAIN stack' /\ stack'[k + Len(fs) - 1] = stack[k]
    /\ \A i \in DOMAIN stack' :
         \/ i \in DOMAIN fs
         \/ \E k \in DOMAIN stack : k > 1 /\ i = k + Len(fs) - 1 /\ stack'[i] = stack[k]

\* A step that calls fs (Becomes) moves the stack, place by place.
LEMMA Moves ==
    ASSUME stack \in Seq(Frames), stack # <<>>, NEW fs \in Seq(Frames), Becomes(fs)
    PROVE  Moved(fs)
<1> DEFINE t == Tail(stack)
<1>1. /\ Len(stack) \in Nat /\ Len(stack) >= 1 /\ DOMAIN stack = 1..Len(stack)
      /\ Top = stack[1] /\ Top \in Frames
  BY DEF Top
<1>2. t \in Seq(Frames) /\ Len(t) = Len(stack) - 1 /\ \A i \in 1..Len(t) : t[i] = stack[i+1]
  BY HeadTailProperties
<1>3. Len(fs) \in Nat /\ DOMAIN fs = 1..Len(fs)
  OBVIOUS
<1> HIDE DEF t
<1>4. stack' = fs \o t
  BY DEF Becomes, t
<1>5. /\ fs \o t \in Seq(Frames) /\ Len(fs \o t) = Len(fs) + Len(t)
      /\ \A i \in 1 .. Len(fs) + Len(t) : (fs \o t)[i] = IF i <= Len(fs) THEN fs[i] ELSE t[i - Len(fs)]
  BY <1>2, ConcatProperties
<1>6. /\ stack' \in Seq(Frames) /\ DOMAIN stack' = 1 .. Len(fs) + Len(t)
      /\ \A i \in 1 .. Len(fs) + Len(t) : stack'[i] = IF i <= Len(fs) THEN fs[i] ELSE t[i - Len(fs)]
  BY <1>4, <1>5
<1>7. \A i \in DOMAIN fs : i \in DOMAIN stack' /\ stack'[i] = fs[i]
  BY <1>1, <1>2, <1>3, <1>6
<1>8. ASSUME NEW k \in DOMAIN stack, k > 1
      PROVE  k + Len(fs) - 1 \in DOMAIN stack' /\ stack'[k + Len(fs) - 1] = stack[k]
  <2>1. k \in Nat /\ k - 1 \in 1..Len(t) /\ k + Len(fs) - 1 \in 1 .. Len(fs) + Len(t)
        /\ ~ (k + Len(fs) - 1 <= Len(fs)) /\ k + Len(fs) - 1 - Len(fs) = k - 1 /\ (k - 1) + 1 = k
    BY <1>1, <1>2, <1>3, <1>8
  <2> DEFINE i == k + Len(fs) - 1
  <2>2. i \in 1 .. Len(fs) + Len(t) /\ ~ (i <= Len(fs)) /\ i - Len(fs) = k - 1
    BY <2>1
  <2> HIDE DEF i
  <2>3. stack'[i] = t[i - Len(fs)]
    BY <1>6, <2>2, Zenon
  <2>4. t[k - 1] = stack[(k - 1) + 1]
    BY <1>2, <2>1, Zenon
  <2>5. stack'[i] = stack[k]
    BY <2>1, <2>2, <2>3, <2>4, Zenon
  <2> QED
    BY <1>6, <2>2, <2>5 DEF i
<1>9. ASSUME NEW i \in DOMAIN stack', i \notin DOMAIN fs
      PROVE  \E k \in DOMAIN stack : k > 1 /\ i = k + Len(fs) - 1 /\ stack'[i] = stack[k]
  <2> DEFINE k == i - Len(fs) + 1
  <2>1. k \in DOMAIN stack /\ k > 1 /\ i = k + Len(fs) - 1
    BY <1>1, <1>2, <1>3, <1>6, <1>9
  <2> HIDE DEF k
  <2> QED
    BY <1>8, <2>1
<1> QED
  BY <1>1, <1>3, <1>6, <1>7, <1>8, <1>9 DEF Moved

\* New calls of entering stand only on calls of entering.
LEMMA EntersLastKept ==
    ASSUME EntersLast, NEW fs, Moved(fs),
           \A i \in DOMAIN fs : fs[i].fn \in Entering => Top.fn \in Entering,
           \A i, j \in DOMAIN fs : i < j /\ fs[i].fn \in Entering => fs[j].fn \in Entering
    PROVE  EntersLast'
<1> SUFFICES ASSUME NEW i \in DOMAIN stack', NEW j \in DOMAIN stack', i < j,
                    stack'[i].fn \in Entering
             PROVE  stack'[j].fn \in Entering
  BY DEF EntersLast, Entering
<1>1. CASE i \in DOMAIN fs /\ j \in DOMAIN fs
  BY <1>1 DEF Moved
<1>2. CASE i \in DOMAIN fs /\ j \notin DOMAIN fs
  <2>1. PICK k \in DOMAIN stack : k > 1 /\ stack'[j] = stack[k]
    BY <1>2 DEF Moved
  <2>2. stack[1].fn \in Entering /\ 1 \in DOMAIN stack
    BY <1>2 DEF Moved
  <2> QED
    BY <2>1, <2>2 DEF EntersLast, Moved
<1>3. CASE i \notin DOMAIN fs
  <2>1. i \in Nat /\ j \in Nat /\ j \notin DOMAIN fs
    BY <1>3 DEF Moved
  <2>2. PICK k \in DOMAIN stack : k > 1 /\ i = k + Len(fs) - 1 /\ stack'[i] = stack[k]
    BY <1>3 DEF Moved
  <2>3. PICK l \in DOMAIN stack : l > 1 /\ j = l + Len(fs) - 1 /\ stack'[j] = stack[l]
    BY <2>1 DEF Moved
  <2>4. k < l
    BY <2>1, <2>2, <2>3 DEF Moved
  <2> QED
    BY <2>2, <2>3, <2>4 DEF EntersLast
<1> QED
  BY <1>1, <1>2, <1>3

\* A restoring call is made last, with the level there is; its return restores.
LEMMA LevelsKept ==
    ASSUME Levels, NEW fs, Moved(fs),
           \A i \in DOMAIN fs : fs[i].fn \in Restoring =>
               i = Len(fs) /\ fs[i].kept = level /\ Top.fn \notin Restoring,
           (\A i \in DOMAIN fs : fs[i].fn \notin Restoring) =>
               level' = IF Top.fn \in Restoring THEN Top.kept ELSE level
    PROVE  Levels'
<1>1. ASSUME NEW i \in DOMAIN stack', stack'[i].fn \in Restoring,
             \A j \in DOMAIN stack' : j > i => stack'[j].fn \notin Restoring
      PROVE  stack'[i].kept = 0
  <2>1. CASE i \in DOMAIN fs
    <3>1. stack'[i] = fs[i] /\ i = Len(fs) /\ fs[i].kept = level /\ Top.fn \notin Restoring
      BY <1>1, <2>1 DEF Moved
    <3>2. ASSUME NEW k \in DOMAIN stack PROVE stack[k].fn \notin Restoring
      <4>1. CASE k = 1
        BY <3>1, <4>1 DEF Moved
      <4>2. CASE k # 1
        <5>1. k > 1 /\ k \in Nat /\ i \in Nat
          BY <4>2 DEF Moved
        <5>2. k + Len(fs) - 1 \in DOMAIN stack' /\ stack'[k + Len(fs) - 1] = stack[k]
          BY <5>1 DEF Moved
        <5>3. k + Len(fs) - 1 > i
          BY <3>1, <5>1
        <5> QED
          BY <1>1, <5>2, <5>3
      <4> QED
        BY <4>1, <4>2
    <3> QED
      BY <3>1, <3>2 DEF Levels
  <2>2. CASE i \notin DOMAIN fs
    <3>1. PICK k \in DOMAIN stack : k > 1 /\ i = k + Len(fs) - 1 /\ stack'[i] = stack[k]
      BY <2>2 DEF Moved
    <3>2. ASSUME NEW l \in DOMAIN stack, l > k PROVE stack[l].fn \notin Restoring
      <4>1. l > 1 /\ l + Len(fs) - 1 > i
        BY <3>1, <3>2 DEF Moved
      <4> QED
        BY <1>1, <4>1 DEF Moved
    <3> QED
      BY <1>1, <3>1, <3>2 DEF Levels
  <2> QED
    BY <2>1, <2>2
<1>2. ASSUME \A j \in DOMAIN stack' : stack'[j].fn \notin Restoring PROVE level' = 0
  <2>1. level' = IF Top.fn \in Restoring THEN Top.kept ELSE level
    BY <1>2 DEF Moved
  <2>2. ASSUME NEW k \in DOMAIN stack, k > 1 PROVE stack[k].fn \notin Restoring
    BY <1>2, <2>2 DEF Moved
  <2>3. CASE Top.fn \in Restoring
    <3>1. stack[1].kept = 0
      BY <2>2, <2>3 DEF Levels, Moved
    <3> QED
      BY <2>1, <2>3, <3>1 DEF Moved
  <2>4. CASE Top.fn \notin Restoring
    <3>1. \A k \in DOMAIN stack : stack[k].fn \notin Restoring
      BY <2>2, <2>4 DEF Moved
    <3> QED
      BY <2>1, <2>4, <3>1 DEF Levels
  <2> QED
    BY <2>3, <2>4
<1> QED
  BY <1>1, <1>2 DEF Levels, Restoring

\* A state that has still to go down keeps its call, until that call returns.
LEMMA ResumesKept ==
    ASSUME NEW fs, Moved(fs), NEW s, Resumes(s), ~ (Top.fn = "entered" /\ Top.state = s)
    PROVE  Resumes(s)'
<1>1. PICK k \in DOMAIN stack : stack[k].fn = "entered" /\ stack[k].state = s
  BY DEF Resumes
<1>2. k > 1
  BY <1>1 DEF Moved
<1>3. k + Len(fs) - 1 \in DOMAIN stack' /\ stack'[k + Len(fs) - 1] = stack[k]
  BY <1>2 DEF Moved
<1> QED
  BY <1>1, <1>3 DEF Resumes

\* So does an AND state whose regions are being entered.
LEMMA RegionsKept ==
    ASSUME NEW fs, Moved(fs), NEW s, Regions(s), ~ (Top.fn = "region" /\ Top.state = s),
           \A m \in DOMAIN Kids[s] : Kids[s][m] \in target => Kids[s][m] \in target'
    PROVE  Regions(s)'
<1>1. PICK k \in DOMAIN stack :
           /\ stack[k].fn = "region" /\ stack[k].state = s
           /\ \A m \in DOMAIN Kids[s] : m < stack[k].kept => Kids[s][m] \in target
  BY DEF Regions
<1>2. k > 1
  BY <1>1 DEF Moved
<1>3. k + Len(fs) - 1 \in DOMAIN stack' /\ stack'[k + Len(fs) - 1] = stack[k]
  BY <1>2 DEF Moved
<1> QED
  BY <1>1, <1>3 DEF Regions

\* The state itself has a call that leaves it.
Leaves(s) == \E i \in DOMAIN stack : stack[i].fn \in Leaving /\ stack[i].state = s

\* calls of exit_state that are cut into others stay
LEMMA DoomedKept ==
    ASSUME NEW fs, Moved(fs), NEW s, Doomed(s),
           Top.fn \in Leaving /\ Top.state \in Above[s] \cup {s} =>
               \E i \in DOMAIN fs : fs[i].fn \in Leaving /\ fs[i].state = Top.state
    PROVE  Doomed(s)'
<1>1. PICK k \in DOMAIN stack : stack[k].fn \in Leaving /\ stack[k].state \in Above[s] \cup {s}
  BY DEF Doomed
<1>2. CASE k = 1
  <2>1. PICK i \in DOMAIN fs : fs[i].fn \in Leaving /\ fs[i].state = Top.state
    BY <1>1, <1>2 DEF Moved
  <2>2. Top.state \in Above[s] \cup {s}
    BY <1>1, <1>2 DEF Moved
  <2> QED
    BY <2>1, <2>2 DEF Moved, Doomed, Leaving
<1>3. CASE k # 1
  <2>1. k > 1
    BY <1>3 DEF Moved
  <2>2. k + Len(fs) - 1 \in DOMAIN stack' /\ stack'[k + Len(fs) - 1] = stack[k]
    BY <2>1 DEF Moved
  <2> QED
    BY <1>1, <2>2 DEF Doomed, Leaving
<1> QED
  BY <1>2, <1>3

\* what is pushed dooms what is below
LEMMA DoomedNow ==
    ASSUME NEW fs, Moved(fs), NEW s, NEW i \in DOMAIN fs, fs[i].fn \in Leaving,
           fs[i].state \in Above[s] \cup {s}
    PROVE  Doomed(s)'
BY DEF Moved, Doomed, Leaving

\* Exits stay exact: who starts to leave has an on__exit made for it, its
\* children in front of it, and who has left has had its own.
LEMMA ExitsKept ==
    ASSUME ExitsOnce, ChildrenFirst, NEW fs, Moved(fs),
           \A s \in States : active'[s] = 1 => active[s] = 1,
           \A s \in States : active'[s] = -1 =>
               \/ active[s] = -1
               \/ \E i \in DOMAIN fs : fs[i].fn = "on__exit" /\ fs[i].state = s,
           \A i \in DOMAIN stack : stack[i].fn = "on__exit" => stack[i].state \in States,
           Top.fn = "exit_state" /\ Top.state \in Inside' =>
               \E i \in DOMAIN fs : fs[i].fn \in Leaving /\ fs[i].state = Top.state,
           Top.fn = "on__exit" => Top.state \notin Inside',
           \A i \in DOMAIN fs : fs[i].fn = "on__exit" =>
               /\ active'[fs[i].state] # 1
               /\ \A c \in Inside' : IsChild(c, fs[i].state) =>
                    \E j \in DOMAIN fs : j < i /\ fs[j].fn \in Leaving /\ fs[j].state = c
    PROVE  ExitsOnce' /\ ChildrenFirst'
<1>0. Inside' \subseteq Inside \cup {s \in States : \E i \in DOMAIN fs : fs[i].fn = "on__exit" /\ fs[i].state = s}
  BY DEF Inside
<1>1. ASSUME NEW i \in DOMAIN stack', stack'[i].fn = "on__exit" PROVE active'[stack'[i].state] # 1
  <2>1. CASE i \in DOMAIN fs
    BY <1>1, <2>1 DEF Moved
  <2>2. CASE i \notin DOMAIN fs
    <3>1. PICK k \in DOMAIN stack : stack'[i] = stack[k]
      BY <2>2 DEF Moved
    <3> QED
      BY <1>1, <3>1 DEF ExitsOnce
  <2> QED
    BY <2>1, <2>2
<1>2. ASSUME NEW s \in States, active'[s] = -1
      PROVE  \E i \in DOMAIN stack' : stack'[i].fn = "on__exit" /\ stack'[i].state = s
  <2>1. CASE \E i \in DOMAIN fs : fs[i].fn = "on__exit" /\ fs[i].state = s
    BY <2>1 DEF Moved
  <2>2. CASE active[s] = -1
    <3>1. PICK k \in DOMAIN stack : stack[k].fn = "on__exit" /\ stack[k].state = s
      BY <2>2 DEF ExitsOnce
    <3>2. k # 1
      BY <1>2, <3>1 DEF Moved, Inside
    <3>3. k > 1
      BY <3>2 DEF Moved
    <3>4. k + Len(fs) - 1 \in DOMAIN stack' /\ stack'[k + Len(fs) - 1] = stack[k]
      BY <3>3 DEF Moved
    <3> QED
      BY <3>1, <3>4
  <2> QED
    BY <1>2, <2>1, <2>2
<1>3. ASSUME NEW i \in DOMAIN stack', stack'[i].fn = "on__exit",
             NEW c \in Inside', IsChild(c, stack'[i].state)
      PROVE  \E j \in DOMAIN stack' : j < i /\ stack'[j].fn \in Leaving /\ stack'[j].state = c
  <2>1. CASE i \in DOMAIN fs
    <3>1. PICK j \in DOMAIN fs : j < i /\ fs[j].fn \in Leaving /\ fs[j].state = c
      BY <1>3, <2>1 DEF Moved
    <3> QED
      BY <3>1 DEF Moved
  <2>2. CASE i \notin DOMAIN fs
    <3>1. PICK k \in DOMAIN stack : k > 1 /\ i = k + Len(fs) - 1 /\ stack'[i] = stack[k]
      BY <2>2 DEF Moved
    <3>2. CASE \E j \in DOMAIN fs : fs[j].fn \in Leaving /\ fs[j].state = c
      <4>1. PICK j \in DOMAIN fs : fs[j].fn \in Leaving /\ fs[j].state = c
        BY <3>2
      <4>2. j < i
        BY <2>2, <3>1 DEF Moved
      <4> QED
        BY <4>1, <4>2 DEF Moved
    <3>3. CASE ~ \E j \in DOMAIN fs : fs[j].fn \in Leaving /\ fs[j].state = c
      <4>1. c \in Inside
        BY <1>0, <3>3 DEF Leaving
      <4>2. PICK l \in DOMAIN stack : l < k /\ stack[l].fn \in Leaving /\ stack[l].state = c
        BY <1>3, <3>1, <4>1 DEF ChildrenFirst
      <4>3. l # 1
        BY <3>3, <4>2 DEF Moved, Leaving
      <4>4. l > 1 /\ l + Len(fs) - 1 < i
        BY <3>1, <4>2, <4>3 DEF Moved
      <4>5. l + Len(fs) - 1 \in DOMAIN stack' /\ stack'[l + Len(fs) - 1] = stack[l]
        BY <4>4 DEF Moved
      <4> QED
        BY <4>2, <4>4, <4>5
    <3> QED
      BY <3>2, <3>3
  <2> QED
    BY <2>1, <2>2
<1> QED
  BY <1>1, <1>2, <1>3 DEF ExitsOnce, ChildrenFirst, Leaving, IsChild
-------------------------------------------------------------------------------
(* Targets.                                                                    *)

\* The targets at and below a state, as the code collects them.
LEMMA TargetTreeIs ==
    ASSUME TreeAssumption, target \in SUBSET States, Path, NEW x \in States
    PROVE  TargetTree(x) = {t \in target : x \in Above[t] \cup {t}}
<1>1. ASSUME NEW t \in TargetTree(x) PROVE t \in target /\ x \in Above[t] \cup {t}
  <2>1. t \in States /\ x \in Above[t] \cup {t} /\ \A u \in UpTo(t, x) : u \in target
    BY DEF TargetTree
  <2>2. t \in UpTo(t, x)
    BY <2>1 DEF UpTo
  <2> QED
    BY <2>1, <2>2
<1>2. ASSUME NEW t \in target, x \in Above[t] \cup {t} PROVE t \in TargetTree(x)
  <2>1. t \in States /\ Above[t] \cup {t} \subseteq target
    BY DEF Path
  <2>2. ASSUME NEW u \in UpTo(t, x)
        PROVE  u \in target /\ (u # x /\ IsOr(Parent[u]) => target_child[Parent[u]] = u)
    <3>1. u \in Above[t] \cup {t} /\ x \in Above[u] \cup {u}
      BY DEF UpTo
    <3>2. u \in target
      BY <2>1, <3>1
    <3>3. u # x => u # Root
      BY <3>1 DEF TreeAssumption
    <3> QED
      BY <3>2, <3>3 DEF Path
  <2> QED
    BY <1>2, <2>1, <2>2 DEF TargetTree
<1> QED
  BY <1>1, <1>2

\* where a path to a new target joins the targets there are
LEMMA JoinsPath ==
    ASSUME TreeAssumption, target \in SUBSET States, Path, NEW s \in States, s \notin target
    PROVE  /\ s \in Untargeted(s) /\ Untargeted(s) \subseteq Above[s] \cup {s}
           /\ Untargeted(s) \subseteq States /\ Untargeted(s) \cap target = {}
           /\ Joint(s) # NoState =>
                Joint(s) \in Above[s] \cap target /\ Joint(s) \in States
           /\ \A v \in Above[s] :
                v \in Untargeted(s) \/ (Joint(s) # NoState /\ v \in Above[Joint(s)] \cup {Joint(s)})
           /\ \A u \in Untargeted(s) : Joint(s) # NoState => Joint(s) \in Above[u]
<1> DEFINE p  == Joint(s)
           on == {u \in Above[s] : u \in target}
<1>1. Above[s] \subseteq States /\ NoState \notin States
  BY DEF TreeAssumption
<1>2. p # NoState => on # {} /\ p = Lowest(on)
  BY DEF Joint
<1>3. on # {} => p \in on /\ \A u \in on : u \in Above[p] \cup {p}
  <2> SUFFICES ASSUME on # {} PROVE p \in on /\ \A u \in on : u \in Above[p] \cup {p}
    OBVIOUS
  <2>1. p = Lowest(on)
    BY DEF Joint
  <2>2. on \in SUBSET Above[s]
    OBVIOUS
  <2> HIDE DEF on, p
  <2> QED
    BY <2>1, <2>2, SomeLowest
<1>4. ASSUME NEW v \in Above[s]
      PROVE  v \in Untargeted(s) \/ (p # NoState /\ v \in Above[p] \cup {p})
  <2>1. CASE p = NoState
    BY <2>1 DEF Untargeted
  <2>2. CASE p # NoState
    <3>1. p \in Above[s]
      BY <1>2, <1>3, <2>2
    <3>2. v = p \/ v \in Above[p] \/ p \in Above[v]
      BY <3>1, Chain
    <3> QED
      BY <2>2, <3>2 DEF Untargeted
  <2> QED
    BY <2>1, <2>2
<1>5. ASSUME NEW u \in Untargeted(s) PROVE p # NoState => p \in Above[u]
  BY <1>2, <1>3 DEF Untargeted
<1>6. ASSUME NEW u \in Untargeted(s) PROVE u \notin target
  <2> SUFFICES ASSUME u \in target PROVE FALSE
    OBVIOUS
  <2>1. u \in on
    BY DEF Untargeted
  <2>2. p \in on /\ u \in Above[p] \cup {p} /\ p # NoState
    BY <1>1, <1>3, <2>1
  <2>3. p \in Above[u] /\ u \in States
    BY <1>1, <1>5, <2>1, <2>2
  <2> QED
    BY <2>2, <2>3, NotBelowAbove
<1> QED
  BY <1>1, <1>2, <1>3, <1>4, <1>5, <1>6 DEF Untargeted

\* Every state of the new path names the next one on it.
LEMMA TowardUntargeted ==
    ASSUME TreeAssumption, target \in SUBSET States, Path, NEW s \in States, s \notin target,
           NEW u \in (Untargeted(s) \cup {Joint(s)}) \ {s, NoState}
    PROVE  /\ u \in States /\ u \in Above[s] /\ IsChild(Toward(u, s), u) /\ Toward(u, s) \in Untargeted(s)
           /\ \A c \in Untargeted(s) : IsChild(c, u) => c = Toward(u, s)
<1> DEFINE p == Joint(s)
           w == Toward(u, s)
<1>1. u \in Above[s] /\ u \in States
  BY JoinsPath
<1>2. /\ IsChild(w, u) /\ w \in Above[s] \cup {s}
      /\ \A c \in Above[s] \cup {s} : IsChild(c, u) => c = w
  BY <1>1, TowardIs
<1>3. w \in Untargeted(s)
  <2>1. w = s \/ w \in Untargeted(s) \/ (p # NoState /\ w \in Above[p] \cup {p})
    BY <1>2, JoinsPath
  <2>2. ASSUME p # NoState, w \in Above[p] \cup {p} PROVE FALSE
    <3>1. p \in States
      BY <2>2, JoinsPath
    <3>2. u \in Above[w] /\ w \in States
      BY <1>2, AboveChild DEF IsChild
    <3>3. u \in Above[p]
      BY <2>2, <3>1, <3>2, AboveAbove
    <3>4. u # p
      BY <3>1, <3>3, NotAboveItself
    <3>5. p \in Above[u]
      BY <2>2, <3>4, JoinsPath
    <3> QED
      BY <3>1, <3>3, <3>5, NotBelowAbove
  <2> QED
    BY <2>1, <2>2, JoinsPath
<1> QED
  BY <1>1, <1>2, <1>3, JoinsPath
-------------------------------------------------------------------------------
(* What steps keep.                                                            *)

\* Nothing is entered, and what stays in keeps its target or is being left.
LEMMA AimedKept ==
    ASSUME Aimed, NEW fs, Inside' \subseteq Inside,
           \A s \in Inside' :
               Doomed(s)' \/ ((s \in target => s \in target') /\ (Doomed(s) => Doomed(s)'))
    PROVE  Aimed'
BY DEF Aimed

\* The sequence of a state's children holds just its children.
LEMMA ChildrenOf ==
    ASSUME TreeAssumption, NEW s \in States
    PROVE  /\ Kids[s] \in Seq(States) /\ ToSet(Kids[s]) = {c \in States : IsChild(c, s)}
           /\ \A m \in DOMAIN Kids[s] : IsChild(Kids[s][m], s)
           /\ \A c : IsChild(c, s) => \E m \in DOMAIN Kids[s] : Kids[s][m] = c
<1>1. ToSet(Kids[s]) = {c \in States \ {Root} : Parent[c] = s} /\ Kids[s] \in Seq(States)
  BY DEF TreeAssumption
<1>2. ToSet(Kids[s]) = {c \in States : IsChild(c, s)}
  BY <1>1 DEF IsChild
<1> QED
  BY <1>1, <1>2 DEF IsChild, ToSet

\* Nothing is entered, and each state that stays in keeps the targets below
\* it or is being left.
LEMMA CompleteKept ==
    ASSUME TreeAssumption, Complete, NEW fs, Moved(fs), Top.fn \notin {"entered", "region"},
           \A s \in States : active'[s] = 1 => active[s] = 1,
           \A s \in States : active'[s] = 1 =>
               \/ Doomed(s)'
               \/ /\ Doomed(s) => Doomed(s)'
                  /\ target_child[s] \in target => target_child'[s] \in target'
                  /\ \A c : IsAnd(s) /\ IsChild(c, s) /\ c \in target => c \in target'
    PROVE  Complete'
<1> SUFFICES ASSUME NEW s \in States, active'[s] = 1, ~ Doomed(s)'
             PROVE  /\ IsOr(s) => target_child'[s] \in target' \/ Resumes(s)'
                    /\ IsAnd(s) => ToSet(Kids[s]) \subseteq target' \/ Resumes(s)' \/ Regions(s)'
  BY DEF Complete
<1>1. /\ active[s] = 1 /\ ~ Doomed(s)
      /\ target_child[s] \in target => target_child'[s] \in target'
      /\ \A c : IsAnd(s) /\ IsChild(c, s) /\ c \in target => c \in target'
  OBVIOUS
<1>2. Resumes(s) => Resumes(s)'
  BY ResumesKept
<1>3. ASSUME IsOr(s) PROVE target_child'[s] \in target' \/ Resumes(s)'
  BY <1>1, <1>2, <1>3 DEF Complete
<1>4. ASSUME IsAnd(s) PROVE ToSet(Kids[s]) \subseteq target' \/ Resumes(s)' \/ Regions(s)'
  <2>1. \A m \in DOMAIN Kids[s] : Kids[s][m] \in target => Kids[s][m] \in target'
    BY <1>1, <1>4, ChildrenOf
  <2>2. Regions(s) => Regions(s)'
    BY <2>1, RegionsKept
  <2>3. ToSet(Kids[s]) \subseteq target => ToSet(Kids[s]) \subseteq target'
    BY <1>1, <1>4, ChildrenOf
  <2> QED
    BY <1>1, <1>2, <1>4, <2>2, <2>3 DEF Complete
<1> QED
  BY <1>3, <1>4

\* What leaves has nothing in below it.
LEMMA NestedKept ==
    ASSUME Nested, Inside' \subseteq Inside, \A s \in Inside' : Above[s] \subseteq Inside',
           UNCHANGED active_child
    PROVE  Nested'
BY DEF Nested

\* While states are entered, none is being left.
LEMMA NothingLeaving ==
    ASSUME EntersLast, ExitsOnce, NEW fs, Moved(fs), Top.fn \in Entering
    PROVE  /\ \A i \in DOMAIN stack : stack[i].fn \in Entering
           /\ \A s : ~ Doomed(s)
           /\ \A s \in States : active[s] # -1
<1>1. \A i \in DOMAIN stack : stack[i].fn \in Entering
  <2> SUFFICES ASSUME NEW i \in DOMAIN stack PROVE stack[i].fn \in Entering
    OBVIOUS
  <2>1. CASE i = 1
    BY <2>1 DEF Moved
  <2>2. CASE i # 1
    BY <2>2 DEF Moved, EntersLast
  <2> QED
    BY <2>1, <2>2
<1>2. \A f \in Entering : f \notin Leaving /\ f # "on__exit"
  BY DEF Entering, Leaving
<1> QED
  BY <1>1, <1>2 DEF Doomed, ExitsOnce

\* set_active_flag sets one flag and keeps the count exact.
LEMMA FlagSet ==
    ASSUME TreeAssumption, active \in [States -> -2..1],
           active_count = Cardinality({t \in States : active[t] > 0}),
           NEW s \in States, NEW flag \in -2..1, set_active_flag(s, flag)
    PROVE  /\ active' \in [States -> -2..1]
           /\ active'[s] = flag /\ \A t \in States \ {s} : active'[t] = active[t]
           /\ active_count' = Cardinality({t \in States : active'[t] > 0})
<1> DEFINE A == {t \in States : active[t] > 0}
           B == {t \in States : active'[t] > 0}
<1>1. /\ active' \in [States -> -2..1] /\ active[s] \in -2..1
      /\ active'[s] = flag /\ \A t \in States \ {s} : active'[t] = active[t]
      /\ active_count' = Cardinality(A) + Counts(flag) - Counts(active[s])
  BY DEF set_active_flag
<1>2. IsFiniteSet(A) /\ IsFiniteSet(B)
  <2>1. IsFiniteSet(States) /\ A \in SUBSET States /\ B \in SUBSET States
    BY DEF TreeAssumption
  <2> HIDE DEF A, B
  <2> QED
    BY <2>1, FS_Subset
<1>3. Cardinality(A) \in Nat /\ Cardinality(B) \in Nat
  BY <1>2, FS_CardinalityType
<1>4. Cardinality(B) = Cardinality(A) + Counts(flag) - Counts(active[s])
  <2>1. CASE flag > 0 /\ active[s] > 0
    <3>1. A = B
      BY <1>1, <2>1
    <3> HIDE DEF A, B
    <3> QED
      BY <1>3, <2>1, <3>1 DEF Counts
  <2>2. CASE flag > 0 /\ ~ active[s] > 0
    <3>1. B = A \cup {s} /\ s \notin A
      BY <1>1, <2>2
    <3> HIDE DEF A, B
    <3>2. Cardinality(B) = Cardinality(A) + 1
      BY <1>2, <3>1, FS_AddElement
    <3> QED
      BY <1>3, <2>2, <3>2 DEF Counts
  <2>3. CASE ~ flag > 0 /\ active[s] > 0
    <3>1. B = A \ {s} /\ s \in A
      BY <1>1, <2>3
    <3> HIDE DEF A, B
    <3>2. Cardinality(B) = Cardinality(A) - 1
      BY <1>2, <3>1, FS_RemoveElement
    <3> QED
      BY <1>3, <2>3, <3>2 DEF Counts
  <2>4. CASE ~ flag > 0 /\ ~ active[s] > 0
    <3>1. A = B
      BY <1>1, <2>4
    <3> HIDE DEF A, B
    <3> QED
      BY <1>3, <2>4, <3>1 DEF Counts
  <2> QED
    BY <2>1, <2>2, <2>3, <2>4
<1> QED
  BY <1>1, <1>4

\* set_target_flags moves targets and keeps the count exact.
LEMMA TargetsSet ==
    ASSUME TreeAssumption, target \in SUBSET States, target_count = Cardinality(target),
           NEW on \in SUBSET States, NEW off \in SUBSET target, set_target_flags(on, off)
    PROVE  /\ target' = (target \ off) \cup on /\ target' \in SUBSET States
           /\ target_count' = Cardinality(target') /\ target_count' \in Int
<1> DEFINE new  == on \ target
           gone == off \ on
           left == target \ gone
           now  == (target \ off) \cup on
<1>1. target' = now
      /\ target_count' = Cardinality(target) + Cardinality(new) - Cardinality(gone)
  BY DEF set_target_flags
<1>2. now = left \cup new /\ left \cap new = {} /\ target \cap gone = gone
  OBVIOUS
<1>3. IsFiniteSet(target) /\ IsFiniteSet(new) /\ IsFiniteSet(gone)
  <2>1. IsFiniteSet(States) /\ new \in SUBSET States /\ gone \in SUBSET States
    BY DEF TreeAssumption
  <2> HIDE DEF new, gone
  <2> QED
    BY <2>1, FS_Subset
<1> HIDE DEF new, gone, now
<1>4. IsFiniteSet(left) /\ Cardinality(left) = Cardinality(target) - Cardinality(gone)
  <2>1. IsFiniteSet(target \ gone) /\ Cardinality(target \ gone) = Cardinality(target) - Cardinality(target \cap gone)
    BY <1>3, FS_Difference, Zenon
  <2> QED
    BY <1>2, <2>1, Zenon
<1> HIDE DEF left
<1>5. IsFiniteSet(now) /\ Cardinality(now) = Cardinality(left) + Cardinality(new) - Cardinality({})
  <2>1. /\ IsFiniteSet(left \cup new)
        /\ Cardinality(left \cup new) = Cardinality(left) + Cardinality(new) - Cardinality(left \cap new)
    BY <1>3, <1>4, FS_Union, Zenon
  <2> QED
    BY <1>2, <2>1, Zenon
<1>6. Cardinality({}) = 0
  BY FS_EmptySet
<1>7. /\ Cardinality(target) \in Nat /\ Cardinality(new) \in Nat /\ Cardinality(gone) \in Nat
      /\ Cardinality(now) \in Nat /\ Cardinality(left) \in Nat
  BY <1>3, <1>4, <1>5, FS_CardinalityType
<1>8. target_count' = Cardinality(now)
  BY <1>1, <1>4, <1>5, <1>6, <1>7
<1> QED
  BY <1>1, <1>7, <1>8 DEF now
-------------------------------------------------------------------------------
(* Steps that only return.                                                     *)

\* What each call keeps.
LEMMA FramesFields ==
    ASSUME NEW f \in Frames
    PROVE  /\ f.state \in States
           /\ f.fn \in {"transit", "history_child_"} => f.kept \in MaybeState
           /\ f.fn \in Restoring => f.kept \in Int
           /\ f.fn = "enter_stable_state" => f.kept \in {"settled", "_complete_transition"}
           /\ f.fn = "region" => IsAnd(f.state) /\ f.kept \in Nat \ {0}
           /\ f.fn = "terminate" => f.kept = NoState
           /\ f.fn \in Functions
BY DEF Frames, Restoring, Functions

\* A step that aims nowhere keeps the goal.
LEMMA GoalKept ==
    ASSUME Goal, NEW fs, Moved(fs), UNCHANGED <<goal, target>>,
           Top.fn \notin {"transit", "prepare_target_path"}
    PROVE  Goal'
<1>1. CASE goal = NoState \/ goal \in target
  BY <1>1 DEF Goal
<1>2. CASE goal # NoState /\ goal \notin target
  <2>1. PICK i \in DOMAIN stack : stack[i].fn \in {"transit", "prepare_target_path"}
    BY <1>2 DEF Goal
  <2>2. i > 1
    BY <2>1 DEF Moved
  <2>3. i + Len(fs) - 1 \in DOMAIN stack' /\ stack'[i + Len(fs) - 1] = stack[i]
    BY <2>2 DEF Moved
  <2> QED
    BY <1>2, <2>1, <2>3 DEF Goal
<1> QED
  BY <1>1, <1>2

\* The innermost call is replaced, or returns, and nothing else changes.
Quiet(fs) ==
    /\ stack # <<>> /\ fs \in Seq(Frames) /\ Becomes(fs)
    /\ UNCHANGED <<active, active_count, target, target_count, target_child, active_child>>
    /\ Top.fn \notin {"exit_state", "on__exit", "entered", "region"}
    /\ \A i \in DOMAIN fs :
         fs[i].fn \notin {"exit_state", "on__exit", "enter_target_state"}

\* A call of enter_target_state is innermost, so no other step leaves one
\* behind.
LEMMA NotEntering ==
    ASSUME EntersInside, NEW fs, Moved(fs), Top.fn # "enter_target_state"
    PROVE  \A i \in DOMAIN stack' : i \notin DOMAIN fs => stack'[i].fn # "enter_target_state"
<1> SUFFICES ASSUME NEW i \in DOMAIN stack', i \notin DOMAIN fs, stack'[i].fn = "enter_target_state"
             PROVE  FALSE
  OBVIOUS
<1>1. PICK k \in DOMAIN stack : k > 1 /\ stack'[i] = stack[k]
  BY DEF Moved
<1> QED
  BY <1>1 DEF EntersInside

\* A quiet step changes neither flags nor targets and drops no call that
\* matters: only Typed, Levels, EntersLast and Goal are left to show.
LEMMA QuietKept ==
    ASSUME TreeAssumption, IInv, NEW fs, Quiet(fs), Top.fn # "enter_target_state"
    PROVE  /\ Moved(fs) /\ Counted' /\ EntersInside' /\ ExitsOnce' /\ ChildrenFirst'
           /\ Nested' /\ Path' /\ Aimed' /\ Complete'
<1>1. Moved(fs)
  <2>1. stack \in Seq(Frames)
    BY DEF IInv, Typed
  <2> QED
    BY <2>1, Moves DEF Quiet
<1>2. Inside' = Inside
  BY DEF Inside, Quiet
<1>3. Counted' /\ Nested' /\ Path'
  BY <1>2 DEF Quiet, IInv, Counted, Nested, Path
<1>4. EntersInside'
  <2>1. \A i \in DOMAIN stack' : stack'[i].fn # "enter_target_state"
    <3>1. \A i \in DOMAIN stack' : i \notin DOMAIN fs => stack'[i].fn # "enter_target_state"
      BY <1>1, NotEntering DEF IInv
    <3> QED
      BY <1>1, <3>1 DEF Quiet, Moved
  <2> QED
    BY <2>1 DEF EntersInside
<1>5. ExitsOnce' /\ ChildrenFirst'
  <2>1. \A i \in DOMAIN stack : stack[i].state \in States
    BY FramesFields DEF IInv, Typed
  <2>2. active' = active /\ Top.fn \notin {"exit_state", "on__exit"}
        /\ \A i \in DOMAIN fs : fs[i].fn # "on__exit"
    BY DEF Quiet
  <2> QED
    BY <1>1, <2>1, <2>2, ExitsKept DEF IInv
<1>6. \A s : Doomed(s) => Doomed(s)'
  BY <1>1, DoomedKept DEF Quiet, Leaving
<1>7. Aimed'
  BY <1>2, <1>6, AimedKept DEF Quiet, IInv
<1>8. Complete'
  BY <1>1, <1>6, CompleteKept DEF Quiet, IInv
<1> QED
  BY <1>1, <1>3, <1>4, <1>5, <1>7, <1>8

\* After transit: the level is restored.
LEMMA TransitedStep == ASSUME TreeAssumption, IInv, Transited PROVE IInv'
<1>1. /\ stack # <<>> /\ Top.fn = "transited" /\ Becomes(<<>>) /\ Quiet(<<>>)
      /\ level' = Top.kept
      /\ UNCHANGED <<flags, targets, active_child, started, turn, asks, goal, saved, failed>>
  BY DEF Transited, Running, Resumed, Quiet, flags, targets
<1>2. /\ Moved(<<>>) /\ Counted' /\ EntersInside' /\ ExitsOnce' /\ ChildrenFirst'
      /\ Nested' /\ Path' /\ Aimed' /\ Complete'
  BY <1>1, QuietKept
<1>3. Levels' /\ EntersLast'
  <2>1. DOMAIN <<>> = {}
    OBVIOUS
  <2> QED
    BY <1>1, <1>2, <2>1, LevelsKept, EntersLastKept DEF IInv, Restoring
<1>4. Typed'
  <2>1. level' \in Int
    BY <1>1, <1>2, FramesFields DEF Moved, Restoring
  <2>2. continuation' \in BOOLEAN
    BY DEF Transited, Asked, IInv, Typed
  <2> QED
    BY <1>1, <1>2, <2>1, <2>2 DEF IInv, Typed, Moved, flags, targets
<1>5. Goal'
  BY <1>1, <1>2, GoalKept DEF IInv, targets
<1> QED
  BY <1>2, <1>3, <1>4, <1>5 DEF IInv

\* After terminate: the level is restored, and do_cleanup when the machine is out.
LEMMA TerminatedStep == ASSUME TreeAssumption, IInv, Terminated PROVE IInv'
<1>1. /\ stack # <<>> /\ Top.fn = "terminated" /\ Becomes(<<>>) /\ Quiet(<<>>)
      /\ level' = Top.kept
      /\ UNCHANGED <<flags, targets, active_child, turn, asks, goal, saved, failed>>
  BY DEF Terminated, Running, Resumed, Quiet, flags, targets
<1>2. /\ Moved(<<>>) /\ Counted' /\ EntersInside' /\ ExitsOnce' /\ ChildrenFirst'
      /\ Nested' /\ Path' /\ Aimed' /\ Complete'
  BY <1>1, QuietKept
<1>3. Levels' /\ EntersLast'
  <2>1. DOMAIN <<>> = {}
    OBVIOUS
  <2> QED
    BY <1>1, <1>2, <2>1, LevelsKept, EntersLastKept DEF IInv, Restoring
<1>4. Typed'
  <2>1. level' \in Int
    BY <1>1, <1>2, FramesFields DEF Moved, Restoring
  <2>2. continuation' \in BOOLEAN /\ started' \in BOOLEAN
    BY DEF Terminated, Asked, Cleaned, IInv, Typed
  <2> QED
    BY <1>1, <1>2, <2>1, <2>2 DEF IInv, Typed, Moved, flags, targets
<1>5. Goal'
  BY <1>1, <1>2, GoalKept DEF IInv, targets
<1> QED
  BY <1>2, <1>3, <1>4, <1>5 DEF IInv

\* The ends of a transition.
LEMMA ReturnStep == ASSUME TreeAssumption, IInv, settled \/ _complete_transition PROVE IInv'
<1>1. /\ stack # <<>> /\ Top.fn \in {"settled", "_complete_transition"} /\ Becomes(<<>>) /\ Quiet(<<>>)
      /\ UNCHANGED <<flags, targets, active_child, level, asks, goal, saved, failed>>
  BY DEF settled, _complete_transition, Running, Quiet, flags, targets
<1>2. /\ Moved(<<>>) /\ Counted' /\ EntersInside' /\ ExitsOnce' /\ ChildrenFirst'
      /\ Nested' /\ Path' /\ Aimed' /\ Complete'
  BY <1>1, QuietKept
<1>3. Levels' /\ EntersLast'
  <2>1. DOMAIN <<>> = {}
    OBVIOUS
  <2> QED
    BY <1>1, <1>2, <2>1, LevelsKept, EntersLastKept DEF IInv, Restoring
<1>4. Typed'
  <2>1. continuation' \in BOOLEAN /\ started' \in BOOLEAN /\ turn' \in {"handler", "continuation"}
    BY DEF settled, _complete_transition, Asked, Cleaned, IInv, Typed
  <2> QED
    BY <1>1, <1>2, <2>1 DEF IInv, Typed, Moved, flags, targets
<1>5. Goal'
  BY <1>1, <1>2, GoalKept DEF IInv, targets
<1> QED
  BY <1>2, <1>3, <1>4, <1>5 DEF IInv
-------------------------------------------------------------------------------
(* Leaving.                                                                    *)

\* A call goes on without leaving or entering any state; what it leaves out
\* has nothing inside it.
LEMMA OutwardKept ==
    ASSUME TreeAssumption, IInv, NEW fs, Moved(fs),
           Top.fn \notin {"entered", "region", "enter_target_state"},
           Inside' \subseteq Inside, \A t \in Inside' : Above[t] \subseteq Inside',
           \A t \in States : active'[t] = 1 => active[t] = 1,
           \A t \in States : active'[t] = -1 => active[t] = -1,
           Top.fn \in Leaving => Top.state \notin Inside',
           \A i \in DOMAIN fs : fs[i].fn \notin {"exit_state", "on__exit", "enter_target_state"},
           UNCHANGED <<target, target_child, active_child>>
    PROVE  EntersInside' /\ ExitsOnce' /\ ChildrenFirst' /\ Nested' /\ Path' /\ Aimed' /\ Complete'
<1>1. Nested' /\ Path'
  BY NestedKept DEF IInv, Path
<1>2. EntersInside'
  <2>1. \A i \in DOMAIN stack' : stack'[i].fn # "enter_target_state"
    <3>1. \A i \in DOMAIN stack' : i \notin DOMAIN fs => stack'[i].fn # "enter_target_state"
      BY NotEntering DEF IInv
    <3> QED
      BY <3>1 DEF Moved
  <2> QED
    BY <2>1 DEF EntersInside
<1>3. ExitsOnce' /\ ChildrenFirst'
  <2>1. \A i \in DOMAIN stack : stack[i].state \in States
    BY FramesFields DEF IInv, Typed
  <2>2. \A i \in DOMAIN fs : fs[i].fn # "on__exit"
    OBVIOUS
  <2> QED
    BY <2>1, <2>2, ExitsKept DEF IInv, Leaving
<1>4. \A t \in Inside' : Doomed(t) => Doomed(t)'
  <2> SUFFICES ASSUME NEW t \in Inside', Doomed(t) PROVE Doomed(t)'
    OBVIOUS
  <2>1. ~ (Top.fn \in Leaving /\ Top.state \in Above[t] \cup {t})
    OBVIOUS
  <2> QED
    BY <2>1, DoomedKept
<1>5. Aimed'
  BY <1>4, AimedKept DEF IInv
<1>6. Complete'
  <2>1. \A t \in States : active'[t] = 1 => t \in Inside'
    BY DEF Inside
  <2> QED
    BY <1>4, <2>1, CompleteKept DEF IInv
<1> QED
  BY <1>1, <1>2, <1>3, <1>5, <1>6

\* A step with some call under way, and what it becomes.
LEMMA StackTyped ==
    ASSUME IInv, stack # <<>>, NEW fs \in Seq(Frames), Becomes(fs)
    PROVE  Moved(fs) /\ Top.state \in States
<1>1. stack \in Seq(Frames)
  BY DEF IInv, Typed
<1>2. Moved(fs)
  BY <1>1, Moves
<1> QED
  BY <1>2, FramesFields DEF Moved

\* exit_state's end: the state is out, once its parent is being left too.
LEMMA ExitedStep == ASSUME TreeAssumption, IInv, Exited PROVE IInv'
<1> DEFINE s == Top.state
<1>1. /\ stack # <<>> /\ Top.fn = "exited" /\ Becomes(<<>>)
      /\ (active[s] = -2 /\ set_active_flag(s, 0)) \/ UNCHANGED flags
      /\ UNCHANGED <<targets, active_child, level, started, turn, continuation,
                     asks, goal, saved, failed>>
  BY DEF Exited, Running
<1>2. Moved(<<>>) /\ s \in States /\ DOMAIN <<>> = {}
  <2>1. <<>> \in Seq(Frames) /\ DOMAIN <<>> = {}
    OBVIOUS
  <2> QED
    BY <1>1, <2>1, StackTyped
<1>3. /\ active \in [States -> -2..1] /\ active_count = Cardinality({t \in States : active[t] > 0})
  BY DEF IInv, Typed, Counted
<1>4. /\ active' \in [States -> -2..1] /\ active_count' = Cardinality({t \in States : active'[t] > 0})
      /\ \A t \in States : active'[t] = active[t] \/ (active[t] = -2 /\ active'[t] = 0)
  <2>1. CASE UNCHANGED flags
    BY <1>3, <2>1 DEF flags
  <2>2. CASE active[s] = -2 /\ set_active_flag(s, 0)
    <3> HIDE DEF s
    <3>1. 0 \in -2..1
      OBVIOUS
    <3> QED
      BY <1>2, <1>3, <2>2, <3>1, FlagSet
  <2> QED
    BY <1>1, <2>1, <2>2
<1>5. /\ Inside' = Inside
      /\ \A t \in States : (active'[t] = 1 => active[t] = 1) /\ (active'[t] = -1 => active[t] = -1)
  BY <1>4 DEF Inside
<1>6. \A t \in Inside : Above[t] \subseteq Inside
  BY DEF IInv, Nested
<1>7. EntersInside' /\ ExitsOnce' /\ ChildrenFirst' /\ Nested' /\ Path' /\ Aimed' /\ Complete'
  BY <1>1, <1>2, <1>5, <1>6, OutwardKept DEF targets, Leaving
<1>8. Levels' /\ EntersLast'
  BY <1>1, <1>2, LevelsKept, EntersLastKept DEF IInv, Restoring
<1>9. Typed' /\ Counted'
  <2>1. Counted'
    BY <1>1, <1>4 DEF IInv, Counted, targets
  <2>2. active_count' \in Int
    BY <1>1, <1>3 DEF IInv, Typed, set_active_flag, flags, Counts
  <2> QED
    BY <1>1, <1>2, <1>4, <2>1, <2>2 DEF IInv, Typed, Moved, targets
<1>10. Goal'
  BY <1>1, <1>2, GoalKept DEF IInv, targets
<1> QED
  BY <1>7, <1>8, <1>9, <1>10 DEF IInv

\* What a user's action may ask for is a call of transit or terminate.
LEMMA CommandFrame ==
    ASSUME NEW cmd \in Commands
    PROVE  Command(cmd) \in Frames /\ Command(cmd).fn \in {"transit", "terminate"}
<1> QED
  BY TreeAssumption DEF Commands, Command, Frame, Frames, MaybeState

\* A call of user code, which may have made another.
UserCall(frame, fs) == fs = <<frame>> \/ \E cmd \in Commands : fs = <<Command(cmd), frame>>

\* A user's action returns, or calls one of them first.
LEMMA UserCalls ==
    ASSUME CallsAssumption, NEW hook, NEW frame \in Frames, UserAction(hook, frame),
           asks \in 0..MaxAsks
    PROVE  /\ asks' \in 0..MaxAsks
           /\ \E fs \in Seq(Frames) : Becomes(fs) /\ UserCall(frame, fs)
<1>1. CASE Becomes(<<frame>>) /\ UNCHANGED <<asks, saved>>
  <2>1. <<frame>> \in Seq(Frames) /\ UserCall(frame, <<frame>>)
    BY DEF UserCall
  <2> QED
    BY <1>1, <2>1
<1>2. CASE /\ hook \in DOMAIN Asking /\ asks < MaxAsks
           /\ \E cmd \in Asking[hook] : Becomes(<<Command(cmd), frame>>)
           /\ asks' = asks + 1
  <2>1. PICK cmd \in Asking[hook] : Becomes(<<Command(cmd), frame>>)
    BY <1>2
  <2>2. cmd \in Commands
    BY <1>2, <2>1 DEF CallsAssumption
  <2>3. Command(cmd) \in Frames
    BY <2>2, CommandFrame
  <2>4. <<Command(cmd), frame>> \in Seq(Frames) /\ UserCall(frame, <<Command(cmd), frame>>)
    BY <2>2, <2>3 DEF UserCall
  <2>5. asks' \in 0..MaxAsks
    BY <1>2 DEF CallsAssumption
  <2> QED
    BY <2>1, <2>4, <2>5
<1> QED
  BY <1>1, <1>2 DEF UserAction

\* The calls of a user's action, place by place.
LEMMA UserCallsFacts ==
    ASSUME NEW frame \in Frames, NEW fs \in Seq(Frames), UserCall(frame, fs)
    PROVE  /\ Len(fs) \in {1, 2} /\ DOMAIN fs = 1..Len(fs)
           /\ fs[Len(fs)] = frame
           /\ \A i \in DOMAIN fs : i # Len(fs) => i = 1 /\ fs[i].fn \in {"transit", "terminate"}
<1>1. CASE fs = <<frame>>
  BY <1>1
<1>2. CASE \E cmd \in Commands : fs = <<Command(cmd), frame>>
  <2>1. PICK cmd \in Commands : fs = <<Command(cmd), frame>>
    BY <1>2
  <2>2. Command(cmd).fn \in {"transit", "terminate"}
    BY <2>1, CommandFrame
  <2> HIDE DEF Command
  <2> QED
    BY <2>1, <2>2
<1> QED
  BY <1>1, <1>2 DEF UserCall

\* The exit action runs once, and the state is in no longer.
LEMMA on__exitStep == ASSUME TreeAssumption, CallsAssumption, IInv, on__exit PROVE IInv'
<1> DEFINE s == Top.state
           back == Frame("exited", s, 0)
<1>1. /\ stack # <<>> /\ Top.fn = "on__exit"
      /\ \/ active[s] = -1 /\ set_active_flag(s, -2) /\ UserAction(<<"ex", s>>, back)
         \/ active[s] # -1 /\ Becomes(<<back>>) /\ UNCHANGED <<flags, asks, saved>>
      /\ UNCHANGED <<targets, active_child, level, started, turn, continuation, goal, failed>>
  BY DEF on__exit, Running
<1>2. s \in States /\ back \in Frames
  <2>1. stack \in Seq(Frames)
    BY DEF IInv, Typed
  <2>2. Top \in Frames
    BY <1>1, <2>1 DEF Top
  <2> QED
    BY <2>2, FramesFields DEF Frame, Frames
<1>3. /\ asks' \in 0..MaxAsks
      /\ \E fs \in Seq(Frames) : Becomes(fs) /\ UserCall(back, fs)
  <2>1. asks \in 0..MaxAsks
    BY DEF IInv, Typed
  <2>2. CASE UserAction(<<"ex", s>>, back)
    <3> HIDE DEF back
    <3> QED
      BY <1>2, <2>1, <2>2, UserCalls
  <2>3. CASE Becomes(<<back>>) /\ UNCHANGED <<flags, asks, saved>>
    <3> HIDE DEF back
    <3>1. <<back>> \in Seq(Frames)
      BY <1>2
    <3> QED
      BY <2>1, <2>3, <3>1 DEF UserCall
  <2> QED
    BY <1>1, <2>2, <2>3
<1>4. PICK fs \in Seq(Frames) : Becomes(fs) /\ UserCall(back, fs)
  BY <1>3
<1>5. Moved(fs)
  BY <1>1, <1>4, StackTyped
<1>6. /\ Len(fs) \in {1, 2} /\ DOMAIN fs = 1..Len(fs) /\ fs[Len(fs)] = back
      /\ \A i \in DOMAIN fs : i # Len(fs) => i = 1 /\ fs[i].fn \in {"transit", "terminate"}
  <2> HIDE DEF back
  <2> QED
    BY <1>2, <1>4, UserCallsFacts
<1>7. back.fn = "exited"
  BY DEF Frame
<1>8. \A i \in DOMAIN fs : fs[i].fn \in {"exited", "transit", "terminate"}
  BY <1>6, <1>7
<1>9. /\ active \in [States -> -2..1] /\ active_count = Cardinality({t \in States : active[t] > 0})
      /\ active[s] # 1
  BY <1>1, <1>5 DEF IInv, Typed, Counted, ExitsOnce, Moved
<1>10. /\ active' \in [States -> -2..1] /\ active_count' = Cardinality({t \in States : active'[t] > 0})
       /\ active_count' \in Int
       /\ \A t \in States \ {s} : active'[t] = active[t]
       /\ active'[s] = active[s] \/ active'[s] = -2
       /\ active'[s] # -1 /\ active'[s] # 1
  <2>1. CASE active[s] # -1 /\ UNCHANGED flags
    BY <1>9, <2>1 DEF flags, IInv, Typed
  <2>2. CASE active[s] = -1 /\ set_active_flag(s, -2)
    <3>1. -2 \in -2..1 /\ -2 # -1 /\ -2 # 1
      OBVIOUS
    <3>2. active_count' \in Int
      BY <2>2 DEF IInv, Typed, set_active_flag, Counts
    <3> DEFINE flag == -2
    <3>3. flag \in -2..1 /\ flag # -1 /\ flag # 1 /\ set_active_flag(s, flag)
      BY <2>2, <3>1
    <3> HIDE DEF s, flag
    <3>4. /\ active' \in [States -> -2..1]
          /\ active'[s] = flag /\ \A t \in States \ {s} : active'[t] = active[t]
          /\ active_count' = Cardinality({t \in States : active'[t] > 0})
      BY <1>2, <1>9, <3>3, FlagSet
    <3>5. active'[s] = -2
      BY <3>4 DEF flag
    <3> QED
      BY <3>2, <3>3, <3>4, <3>5
  <2> QED
    BY <1>1, <2>1, <2>2
<1>11. Inside' \subseteq Inside /\ s \notin Inside' /\ Inside \subseteq Inside' \cup {s}
  BY <1>10 DEF Inside
<1>12. ASSUME NEW t \in Inside' PROVE Above[t] \subseteq Inside'
  <2>1. t \in Inside /\ t \in States /\ Above[t] \subseteq Inside
    BY <1>11 DEF IInv, Nested, Inside
  <2>2. s \notin Above[t]
    <3> SUFFICES ASSUME s \in Above[t] PROVE FALSE
      OBVIOUS
    <3>1. PICK c \in Above[t] \cup {t} : IsChild(c, s)
      BY <2>1, ChildToward
    <3>2. c \in Inside
      BY <2>1, <3>1
    <3>3. 1 \in DOMAIN stack /\ stack[1].fn = "on__exit" /\ stack[1].state = s
      BY <1>1, <1>5 DEF Moved
    <3>4. \E j \in DOMAIN stack : j < 1
      BY <3>1, <3>2, <3>3 DEF IInv, ChildrenFirst
    <3> QED
      BY <1>5, <3>4 DEF Moved
  <2> QED
    BY <1>11, <2>1, <2>2
<1>13. EntersInside' /\ ExitsOnce' /\ ChildrenFirst' /\ Nested' /\ Path' /\ Aimed' /\ Complete'
  <2>1. \A t \in States : (active'[t] = 1 => active[t] = 1) /\ (active'[t] = -1 => active[t] = -1)
    BY <1>10
  <2>2. UNCHANGED <<target, target_child, active_child>>
    BY <1>1 DEF targets
  <2>3. Top.fn \notin {"entered", "region", "enter_target_state"}
    BY <1>1
  <2> HIDE DEF s
  <2>4. Top.state \notin Inside'
    BY <1>11 DEF s
  <2> QED
    BY <1>5, <1>8, <1>11, <1>12, <2>1, <2>2, <2>3, <2>4, OutwardKept
<1>14. Levels' /\ EntersLast'
  <2>1. \A i \in DOMAIN fs : fs[i].fn \notin Restoring /\ fs[i].fn \notin Entering
    BY <1>8 DEF Restoring, Entering
  <2>2. Top.fn \notin Restoring /\ level' = level
    BY <1>1 DEF Restoring
  <2> QED
    BY <1>5, <2>1, <2>2, LevelsKept, EntersLastKept DEF IInv
<1>15. Typed' /\ Counted'
  <2>1. Counted'
    BY <1>1, <1>10 DEF IInv, Counted, targets
  <2> QED
    BY <1>1, <1>3, <1>5, <1>10, <2>1 DEF IInv, Typed, Moved, targets
<1>16. Goal'
  <2>1. UNCHANGED <<goal, target>> /\ Top.fn \notin {"transit", "prepare_target_path"}
    BY <1>1 DEF targets
  <2> QED
    BY <1>5, <2>1, GoalKept DEF IInv
<1> QED
  BY <1>13, <1>14, <1>15, <1>16 DEF IInv

\* A function on 1..n is a sequence.
LEMMA MapIsSeq ==
    ASSUME NEW S, NEW n \in Nat, NEW f \in [1..n -> S]
    PROVE  f \in Seq(S) /\ Len(f) = n /\ DOMAIN f = 1..n
<1>1. f \in Seq(S)
  BY SeqDef, Zenon
<1>2. Len(f) \in Nat /\ DOMAIN f = 1..Len(f) /\ DOMAIN f = 1..n
  BY <1>1, LenProperties, Zenon
<1> QED
  BY <1>1, <1>2

\* A sequence with one more element, place by place.
LEMMA OneMore ==
    ASSUME NEW S, NEW s \in Seq(S), NEW e \in S, NEW r, r = s \o <<e>>
    PROVE  /\ r \in Seq(S) /\ Len(r) \in Nat /\ DOMAIN r = 1..Len(r)
           /\ Len(r) \in DOMAIN r /\ r[Len(r)] = e
           /\ \A i \in DOMAIN r : i # Len(r) => i \in DOMAIN s /\ r[i] = s[i]
           /\ \A i \in DOMAIN s : i \in DOMAIN r /\ i < Len(r) /\ r[i] = s[i]
<1> DEFINE one == <<e>>
           n   == Len(s)
<1>1. one \in Seq(S) /\ Len(one) = 1 /\ one[1] = e /\ r = s \o one
  OBVIOUS
<1>2. n \in Nat /\ DOMAIN s = 1..n
  OBVIOUS
<1> HIDE DEF one
<1>3. /\ r \in Seq(S) /\ Len(r) = n + Len(one)
      /\ \A i \in 1 .. n + Len(one) : r[i] = IF i <= n THEN s[i] ELSE one[i - n]
  BY <1>1, ConcatProperties
<1>4. Len(r) = n + 1
  BY <1>1, <1>2, <1>3
<1>5. DOMAIN r = 1..Len(r)
  BY <1>3, LenProperties, Zenon
<1> HIDE DEF n
<1>6. \A i \in 1..n : r[i] = s[i]
  BY <1>1, <1>2, <1>3
<1>7. r[Len(r)] = e
  <2> DEFINE k == Len(r)
  <2>1. k \in 1 .. n + Len(one) /\ ~ (k <= n) /\ k - n = 1
    BY <1>1, <1>2, <1>4
  <2> HIDE DEF k
  <2>2. r[k] = one[k - n]
    BY <1>3, <2>1
  <2> QED
    BY <1>1, <2>1, <2>2 DEF k
<1>8. \A i \in DOMAIN r : i # Len(r) => i \in DOMAIN s /\ r[i] = s[i]
  BY <1>2, <1>4, <1>5, <1>6
<1>9. \A i \in DOMAIN s : i \in DOMAIN r /\ i < Len(r) /\ r[i] = s[i]
  BY <1>2, <1>4, <1>5, <1>6
<1>10. Len(r) \in Nat /\ Len(r) \in DOMAIN r
  BY <1>2, <1>4, <1>5
<1> QED
  BY <1>3, <1>5, <1>7, <1>8, <1>9, <1>10, Zenon

\* exit_state in a state that is in: down into what is in below, then on__exit
ExitCalls(s) ==
    [i \in DOMAIN ExitChildren(s) |-> Frame("exit_state", ExitChildren(s)[i], 0)]
       \o <<Frame("on__exit", s, 0)>>

ExitsDown(s, fs) ==
    /\ fs \in Seq(Frames) /\ Len(fs) \in Nat /\ DOMAIN fs = 1..Len(fs)
    /\ Len(fs) \in DOMAIN fs /\ fs[Len(fs)].fn = "on__exit" /\ fs[Len(fs)].state = s
    /\ \A i \in DOMAIN fs : i # Len(fs) => fs[i].fn = "exit_state"
    /\ \A c : IsChild(c, s) /\ (IsOr(s) => active_child[s] = c) =>
         \E i \in DOMAIN fs : i < Len(fs) /\ fs[i].fn = "exit_state" /\ fs[i].state = c

\* The calls that leave a state: one for each child that is in, its own last.
LEMMA ExitFrames ==
    ASSUME TreeAssumption, Typed, NEW s \in States, NEW fs, fs = ExitCalls(s)
    PROVE  ExitsDown(s, fs)
<1> DEFINE kids == ExitChildren(s)
           down == [i \in DOMAIN kids |-> Frame("exit_state", kids[i], 0)]
           last == Frame("on__exit", s, 0)
<1>1. kids \in Seq(States)
  <2>1. Kids[s] \in Seq(States) /\ active_child[s] \in States \cup {NoState}
    BY DEF TreeAssumption, Typed, MaybeState
  <2> QED
    BY <2>1 DEF ExitChildren
<1>2. last \in Frames /\ last.fn = "on__exit" /\ last.state = s
  BY DEF Frame, Frames
<1>3. \A k \in States : /\ Frame("exit_state", k, 0) \in Frames
                        /\ Frame("exit_state", k, 0).fn = "exit_state"
                        /\ Frame("exit_state", k, 0).state = k
  BY DEF Frame, Frames
<1>4. \A c : IsChild(c, s) /\ (IsOr(s) => active_child[s] = c) => \E i \in DOMAIN kids : kids[i] = c
  <2> SUFFICES ASSUME NEW c, IsChild(c, s), IsOr(s) => active_child[s] = c PROVE \E i \in DOMAIN kids : kids[i] = c
    OBVIOUS
  <2>1. CASE IsOr(s)
    <3>1. active_child[s] = c
      BY <2>1
    <3>2. c # NoState
      BY DEF IsChild, TreeAssumption
    <3>3. kids = <<c>>
      BY <2>1, <3>1, <3>2 DEF ExitChildren
    <3> HIDE DEF kids
    <3> QED
      BY <3>3
  <2>2. CASE ~ IsOr(s)
    BY <2>2, ChildrenOf DEF ExitChildren
  <2> QED
    BY <2>1, <2>2
<1> HIDE DEF kids, last
<1>5. /\ down \in Seq(Frames) /\ Len(down) = Len(kids) /\ Len(kids) \in Nat
      /\ DOMAIN kids = 1..Len(kids) /\ DOMAIN down = 1..Len(kids)
      /\ \A i \in 1..Len(kids) : down[i] = Frame("exit_state", kids[i], 0) /\ kids[i] \in States
  <2>1. /\ Len(kids) \in Nat /\ DOMAIN kids = 1..Len(kids) /\ DOMAIN down = 1..Len(kids)
        /\ \A i \in 1..Len(kids) : down[i] = Frame("exit_state", kids[i], 0) /\ kids[i] \in States
    BY <1>1
  <2>2. \A i \in 1..Len(kids) : down[i] \in Frames
    BY <1>3, <2>1
  <2>3. down \in [1..Len(kids) -> Frames]
    BY <2>1, <2>2
  <2> HIDE DEF down
  <2>4. down \in Seq(Frames) /\ Len(down) = Len(kids)
    BY <2>1, <2>3, MapIsSeq
  <2> QED
    BY <2>1, <2>4 DEF down
<1> HIDE DEF down
<1>6. fs = down \o <<last>>
  BY DEF down, last, kids, ExitCalls
<1>7. /\ fs \in Seq(Frames) /\ Len(fs) \in Nat /\ DOMAIN fs = 1..Len(fs)
      /\ Len(fs) \in DOMAIN fs /\ fs[Len(fs)] = last
      /\ \A i \in DOMAIN fs : i # Len(fs) => i \in DOMAIN down /\ fs[i] = down[i]
      /\ \A i \in DOMAIN down : i \in DOMAIN fs /\ i < Len(fs) /\ fs[i] = down[i]
  <2>1. down \in Seq(Frames) /\ last \in Frames
    BY <1>2, <1>5
  <2> QED
    BY <1>6, <2>1, OneMore
<1>8. \A i \in DOMAIN down : down[i].fn = "exit_state" /\ down[i].state = kids[i]
  BY <1>3, <1>5
<1>9. \A i \in DOMAIN fs : i # Len(fs) => fs[i].fn = "exit_state"
  BY <1>7, <1>8, Zenon
<1>10. ASSUME NEW c, IsChild(c, s), IsOr(s) => active_child[s] = c
       PROVE  \E i \in DOMAIN fs : i < Len(fs) /\ fs[i].fn = "exit_state" /\ fs[i].state = c
  <2>1. PICK i \in DOMAIN kids : kids[i] = c
    BY <1>4, <1>10
  <2>2. i \in DOMAIN down
    BY <1>5
  <2>3. i \in DOMAIN fs /\ i < Len(fs) /\ fs[i].fn = "exit_state" /\ fs[i].state = c
    BY <1>7, <1>8, <2>1, <2>2, Zenon
  <2> QED
    BY <2>3, Zenon
<1>11. fs[Len(fs)].fn = "on__exit" /\ fs[Len(fs)].state = s
  BY <1>2, <1>7, Zenon
<1> QED
  BY <1>7, <1>9, <1>10, <1>11, Zenon DEF ExitsDown

\* exit_state cuts itself into the exits of the children and its own.
LEMMA exit_stateStep == ASSUME TreeAssumption, IInv, exit_state PROVE IInv'
<1> DEFINE s == Top.state
           inside == active[s] \in {1, -1}
           fs == CASE active[s] \in {1, -1} -> ExitCalls(s)
                   [] active[s] = -2 -> <<Frame("exited", s, 0)>>
                   [] OTHER -> <<>>
<1>1. /\ stack # <<>> /\ Top.fn = "exit_state" /\ Becomes(fs)
      /\ IF active[s] = 1 THEN set_active_flag(s, -1) ELSE UNCHANGED flags
      /\ UNCHANGED <<targets, active_child, level, started, turn, continuation, asks,
                     goal, saved, failed>>
  BY DEF exit_state, Running, ExitCalls
<1>2. s \in States
  <2>1. stack \in Seq(Frames)
    BY DEF IInv, Typed
  <2>2. Top \in Frames
    BY <1>1, <2>1 DEF Top
  <2> QED
    BY <2>2, FramesFields
<1>3. /\ active \in [States -> -2..1] /\ active_count = Cardinality({t \in States : active[t] > 0})
      /\ Typed /\ Nested
  BY DEF IInv, Typed, Counted
<1>4. /\ active' \in [States -> -2..1] /\ active_count' = Cardinality({t \in States : active'[t] > 0})
      /\ active_count' \in Int
      /\ \A t \in States \ {s} : active'[t] = active[t]
      /\ inside => active'[s] = -1
      /\ ~ inside => active'[s] = active[s]
  <2>1. CASE active[s] = 1 /\ set_active_flag(s, -1)
    <3> DEFINE flag == -1
    <3>1. flag \in -2..1 /\ set_active_flag(s, flag)
      BY <2>1
    <3>2. active_count' \in Int
      BY <1>3, <2>1 DEF Typed, set_active_flag, Counts
    <3> HIDE DEF s, flag
    <3>3. /\ active' \in [States -> -2..1]
          /\ active'[s] = flag /\ \A t \in States \ {s} : active'[t] = active[t]
          /\ active_count' = Cardinality({t \in States : active'[t] > 0})
      BY <1>2, <1>3, <3>1, FlagSet
    <3> QED
      BY <2>1, <3>2, <3>3 DEF flag
  <2>2. CASE active[s] # 1 /\ UNCHANGED flags
    BY <1>3, <2>2 DEF flags, Typed
  <2> QED
    BY <1>1, <2>1, <2>2
<1>5. Inside' = Inside
  BY <1>2, <1>4 DEF Inside
<1>6. CASE inside
  <2>1. /\ fs \in Seq(Frames) /\ Len(fs) \in Nat /\ DOMAIN fs = 1..Len(fs)
        /\ Len(fs) \in DOMAIN fs /\ fs[Len(fs)].fn = "on__exit" /\ fs[Len(fs)].state = s
        /\ \A i \in DOMAIN fs : i # Len(fs) => fs[i].fn = "exit_state"
        /\ \A c \in Inside : IsChild(c, s) =>
             \E i \in DOMAIN fs : i < Len(fs) /\ fs[i].fn = "exit_state" /\ fs[i].state = c
    <3>1. fs = ExitCalls(s)
      BY <1>6
    <3> HIDE DEF s, fs
    <3>2. ExitsDown(s, fs)
      BY <1>2, <1>3, <3>1, ExitFrames
    <3>3. ASSUME NEW c \in Inside, IsChild(c, s), IsOr(s) PROVE active_child[s] = c
      BY <1>3, <3>3 DEF Nested, IsChild
    <3> QED
      BY <3>2, <3>3, Zenon DEF ExitsDown
  <2> HIDE DEF fs
  <2>2. Moved(fs)
    BY <1>1, <2>1, StackTyped
  <2>3. \A i \in DOMAIN fs : fs[i].fn \in Leaving
    BY <2>1 DEF Leaving
  <2>4. Levels' /\ EntersLast'
    <3>1. \A i \in DOMAIN fs : fs[i].fn \notin Restoring /\ fs[i].fn \notin Entering
      BY <2>3 DEF Leaving, Restoring, Entering
    <3>2. Top.fn \notin Restoring /\ level' = level
      BY <1>1 DEF Restoring
    <3> QED
      BY <2>2, <3>1, <3>2, LevelsKept, EntersLastKept DEF IInv
  <2>5. EntersInside'
    <3>1. \A i \in DOMAIN stack' : i \notin DOMAIN fs => stack'[i].fn # "enter_target_state"
      BY <1>1, <2>2, NotEntering DEF IInv
    <3>2. \A i \in DOMAIN stack' : stack'[i].fn # "enter_target_state"
      BY <2>2, <2>3, <3>1 DEF Moved, Leaving
    <3> QED
      BY <3>2 DEF EntersInside
  <2>6. ExitsOnce' /\ ChildrenFirst'
    <3>1. \A i \in DOMAIN stack : stack[i].state \in States
      BY <1>3, FramesFields DEF Typed
    <3>2. \A t \in States : active'[t] = 1 => active[t] = 1
      BY <1>2, <1>4, <1>6
    <3>3. \A t \in States : active'[t] = -1 =>
               active[t] = -1 \/ \E i \in DOMAIN fs : fs[i].fn = "on__exit" /\ fs[i].state = t
      BY <1>2, <1>4, <2>1
    <3>4. \A i \in DOMAIN fs : fs[i].fn = "on__exit" =>
               /\ active'[fs[i].state] # 1
               /\ \A c \in Inside' : IsChild(c, fs[i].state) =>
                    \E j \in DOMAIN fs : j < i /\ fs[j].fn \in Leaving /\ fs[j].state = c
      <4> SUFFICES ASSUME NEW i \in DOMAIN fs, fs[i].fn = "on__exit"
                   PROVE  /\ active'[fs[i].state] # 1
                          /\ \A c \in Inside' : IsChild(c, fs[i].state) =>
                               \E j \in DOMAIN fs : j < i /\ fs[j].fn \in Leaving /\ fs[j].state = c
        OBVIOUS
      <4>1. i = Len(fs) /\ fs[i].state = s
        BY <2>1
      <4>2. active'[fs[i].state] # 1
        BY <1>4, <1>6, <4>1
      <4> QED
        BY <1>5, <2>1, <4>1, <4>2 DEF Leaving
    <3>5. \E i \in DOMAIN fs : fs[i].fn \in Leaving /\ fs[i].state = Top.state
      BY <2>1 DEF Leaving
    <3>6. Top.fn # "on__exit" /\ ExitsOnce /\ ChildrenFirst
      BY <1>1 DEF IInv
    <3> HIDE DEF s
    <3> QED
      BY <2>2, <3>1, <3>2, <3>3, <3>4, <3>5, <3>6, ExitsKept
  <2>7. Nested' /\ Path'
    BY <1>1, <1>5, NestedKept DEF IInv, Path, Nested, targets
  <2>8. \A t : Doomed(t) => Doomed(t)'
    <3> SUFFICES ASSUME NEW t, Doomed(t) PROVE Doomed(t)'
      OBVIOUS
    <3>1. \E i \in DOMAIN fs : fs[i].fn \in Leaving /\ fs[i].state = Top.state
      BY <2>1 DEF Leaving
    <3> QED
      BY <2>2, <3>1, DoomedKept
  <2>9. Aimed'
    BY <1>1, <1>5, <2>8, AimedKept DEF IInv, targets
  <2>10. Complete'
    <3>1. /\ Top.fn \notin {"entered", "region"} /\ Complete
          /\ \A t \in States : active'[t] = 1 => active[t] = 1
          /\ UNCHANGED <<target, target_child>>
      BY <1>1, <1>2, <1>4, <1>6 DEF IInv, targets
    <3> HIDE DEF s
    <3> QED
      BY <2>2, <2>8, <3>1, CompleteKept
  <2>11. Goal'
    <3>1. UNCHANGED <<goal, target>> /\ Top.fn \notin {"transit", "prepare_target_path"}
      BY <1>1 DEF targets
    <3> QED
      BY <2>2, <3>1, GoalKept DEF IInv
  <2>12. Typed' /\ Counted'
    <3>1. Counted'
      BY <1>1, <1>4 DEF IInv, Counted, targets
    <3> QED
      BY <1>1, <1>4, <2>2, <3>1 DEF IInv, Typed, Moved, targets
  <2> QED
    BY <2>4, <2>5, <2>6, <2>7, <2>9, <2>10, <2>11, <2>12 DEF IInv
<1>7. CASE ~ inside
  <2>1. /\ fs \in Seq(Frames) /\ \A i \in DOMAIN fs : fs[i].fn = "exited"
    <3>1. Frame("exited", s, 0) \in Frames /\ Frame("exited", s, 0).fn = "exited"
      BY <1>2 DEF Frame, Frames
    <3>2. fs = <<Frame("exited", s, 0)>> \/ fs = <<>>
      BY <1>7
    <3> HIDE DEF fs
    <3> DEFINE f == Frame("exited", s, 0)
    <3>3. fs = <<f>> \/ fs = <<>>
      BY <3>2
    <3>4. f \in Frames /\ f.fn = "exited"
      BY <3>1
    <3> HIDE DEF f
    <3>5. CASE fs = <<f>>
      BY <3>4, <3>5
    <3>6. CASE fs = <<>>
      BY <3>6
    <3> QED
      BY <3>3, <3>5, <3>6
  <2> HIDE DEF fs
  <2>2. Moved(fs)
    BY <1>1, <2>1, StackTyped
  <2>3. EntersInside' /\ ExitsOnce' /\ ChildrenFirst' /\ Nested' /\ Path' /\ Aimed' /\ Complete'
    <3>1. \A t \in States : active'[t] = active[t]
      BY <1>2, <1>4, <1>7
    <3>2. \A t \in Inside' : Above[t] \subseteq Inside'
      BY <1>3, <1>5 DEF Nested
    <3>3. Top.fn \notin {"entered", "region", "enter_target_state"}
          /\ UNCHANGED <<target, target_child, active_child>>
      BY <1>1 DEF targets
    <3>4. Top.state \notin Inside'
      BY <1>5, <1>7 DEF Inside
    <3> HIDE DEF s
    <3> QED
      BY <1>5, <2>1, <2>2, <3>1, <3>2, <3>3, <3>4, OutwardKept
  <2>4. Levels' /\ EntersLast'
    <3>1. \A i \in DOMAIN fs : fs[i].fn \notin Restoring /\ fs[i].fn \notin Entering
      BY <2>1 DEF Restoring, Entering
    <3>2. Top.fn \notin Restoring /\ level' = level
      BY <1>1 DEF Restoring
    <3> QED
      BY <2>2, <3>1, <3>2, LevelsKept, EntersLastKept DEF IInv
  <2>5. Goal'
    <3>1. UNCHANGED <<goal, target>> /\ Top.fn \notin {"transit", "prepare_target_path"}
      BY <1>1 DEF targets
    <3> QED
      BY <2>2, <3>1, GoalKept DEF IInv
  <2>6. Typed' /\ Counted'
    <3>1. Counted'
      BY <1>1, <1>4 DEF IInv, Counted, targets
    <3> QED
      BY <1>1, <1>4, <2>2, <3>1 DEF IInv, Typed, Moved, targets
  <2> QED
    BY <2>3, <2>4, <2>5, <2>6 DEF IInv
<1> QED
  BY <1>6, <1>7
-------------------------------------------------------------------------------
(* Aiming: transit, terminate, prepare_target_path.                            *)

\* What transit forgets below the states that are no targets any more.
LEMMA ChildrenCleared ==
    ASSUME Typed, NEW T
    PROVE  /\ ClearedChildren(T) \in [States -> MaybeState]
           /\ \A s \in States : ClearedChildren(T)[s] = IF s \in T THEN NoState ELSE target_child[s]
BY DEF Typed, ClearedChildren, MaybeState

\* The targets move, and what is no longer aimed at is left.
LEMMA RetargetKept ==
    ASSUME TreeAssumption, IInv, NEW fs, Moved(fs),
           Top.fn \in {"transit", "terminate", "prepare_target_path"},
           UNCHANGED <<active, active_child>>,
           \A i \in DOMAIN fs : fs[i].fn \notin Entering \cup {"on__exit"},
           \A t \in Inside : Doomed(t)' \/ (t \in target => t \in target'),
           \A t \in States : active[t] = 1 =>
               \/ Doomed(t)'
               \/ /\ target_child[t] \in target => target_child'[t] \in target'
                  /\ \A c : IsAnd(t) /\ IsChild(c, t) /\ c \in target => c \in target'
    PROVE  EntersLast' /\ EntersInside' /\ ExitsOnce' /\ ChildrenFirst' /\ Nested' /\ Aimed' /\ Complete'
<1>1. Inside' = Inside
  BY DEF Inside
<1>2. EntersLast'
  BY EntersLastKept DEF IInv
<1>3. EntersInside'
  <2>1. \A i \in DOMAIN stack' : i \notin DOMAIN fs => stack'[i].fn # "enter_target_state"
    BY NotEntering DEF IInv
  <2>2. \A i \in DOMAIN stack' : stack'[i].fn # "enter_target_state"
    BY <2>1 DEF Moved, Entering
  <2> QED
    BY <2>2 DEF EntersInside
<1>4. ExitsOnce' /\ ChildrenFirst'
  <2>1. \A i \in DOMAIN stack : stack[i].state \in States
    BY FramesFields DEF IInv, Typed
  <2> QED
    BY <2>1, ExitsKept DEF IInv
<1>5. Nested'
  BY <1>1 DEF IInv, Nested
<1>6. \A t : Doomed(t) => Doomed(t)'
  BY DoomedKept DEF Leaving
<1>7. Aimed'
  BY <1>1, <1>6, AimedKept DEF IInv
<1>8. Complete'
  BY <1>6, CompleteKept DEF IInv
<1> QED
  BY <1>2, <1>3, <1>4, <1>5, <1>7, <1>8

\* The exit point stays a target and everything below it is none any more.
LEMMA TreeCut ==
    ASSUME TreeAssumption, IInv, NEW x \in target,
           set_target_flags({x}, TargetTree(x)), target_child' = ClearedChildren(TargetTree(x))
    PROVE  /\ target' = {t \in target : x \notin Above[t]} /\ target_child' \in [States -> MaybeState]
           /\ target' \in SUBSET States /\ target_count' \in Int
           /\ target_count' = Cardinality(target')
           /\ \A s \in States : target_child'[s] = NoState \/ IsChild(target_child'[s], s)
           /\ \A s \in States : x \notin Above[s] \cup {s} => target_child'[s] = target_child[s]
           /\ Path'
<1> DEFINE off == TargetTree(x)
<1>1. /\ target \in SUBSET States /\ target_count = Cardinality(target) /\ Path /\ Typed /\ x \in States
  BY DEF IInv, Typed, Counted
<1>2. off = {t \in target : x \in Above[t] \cup {t}}
  BY <1>1, TargetTreeIs
<1>3. /\ target_child' \in [States -> MaybeState]
      /\ \A s \in States : target_child'[s] = IF s \in off THEN NoState ELSE target_child[s]
  BY <1>1, ChildrenCleared
<1> HIDE DEF off
<1>4. /\ target' = (target \ off) \cup {x} /\ target' \in SUBSET States
      /\ target_count' = Cardinality(target') /\ target_count' \in Int
  <2>1. {x} \in SUBSET States /\ off \in SUBSET target /\ set_target_flags({x}, off)
    BY <1>1, <1>2 DEF off
  <2> HIDE DEF off
  <2> QED
    BY <1>1, <2>1, TargetsSet
<1>5. target' = {t \in target : x \notin Above[t]}
  BY <1>1, <1>2, <1>4, NotAboveItself
<1>6. \A s \in States : x \notin Above[s] \cup {s} => target_child'[s] = target_child[s]
  BY <1>2, <1>3
<1>7. Path'
  <2>1. ASSUME NEW s \in target', NEW u \in Above[s] PROVE u \in target'
    <3>1. s \in States /\ u \in target /\ u \in States
      BY <1>1, <1>5, <2>1 DEF Path
    <3>2. x \notin Above[u]
      BY <1>5, <2>1, <3>1, AboveAbove
    <3> QED
      BY <1>5, <3>1, <3>2
  <2>2. ASSUME NEW s \in target', s # Root, IsOr(Parent[s]) PROVE target_child'[Parent[s]] = s
    <3>1. s \in States /\ s \in target /\ x \notin Above[s]
      BY <1>1, <1>5, <2>2
    <3>2. Parent[s] \in States /\ Above[s] = Above[Parent[s]] \cup {Parent[s]}
      BY <2>2, <3>1, LevelOfParent
    <3>3. target_child[Parent[s]] = s
      BY <1>1, <2>2, <3>1 DEF Path
    <3> QED
      BY <1>6, <3>1, <3>2, <3>3
  <2> QED
    BY <2>1, <2>2 DEF Path
<1>8. \A s \in States : target_child'[s] = NoState \/ IsChild(target_child'[s], s)
  BY <1>1, <1>3 DEF Typed
<1> QED
  BY <1>3, <1>4, <1>5, <1>6, <1>7, <1>8

\* The calls of a transition, in a row.
LEMMA OneAndTwo == ASSUME NEW S, NEW a \in S, NEW b \in S, NEW c \in S PROVE <<a>> \o <<b, c>> = <<a, b, c>>
<1> DEFINE p == <<a>>
           q == <<b, c>>
           r == <<a, b, c>>
<1>1. /\ p \in Seq(S) /\ Len(p) = 1 /\ p[1] = a
      /\ q \in Seq(S) /\ Len(q) = 2 /\ q[1] = b /\ q[2] = c
      /\ r \in Seq(S) /\ Len(r) = 3 /\ r[1] = a /\ r[2] = b /\ r[3] = c
  OBVIOUS
<1> HIDE DEF p, q, r
<1>2. /\ p \o q \in Seq(S) /\ Len(p \o q) = Len(p) + Len(q)
      /\ \A i \in 1 .. Len(p) + Len(q) : (p \o q)[i] = IF i <= Len(p) THEN p[i] ELSE q[i - Len(p)]
  BY <1>1, ConcatProperties
<1>3. Len(p \o q) = Len(r) /\ \A i \in 1 .. Len(p \o q) : (p \o q)[i] = r[i]
  BY <1>1, <1>2
<1>4. p \o q = r
  BY <1>1, <1>2, <1>3, SeqEqual
<1> QED
  BY <1>4 DEF p, q, r

\* transit: the targets move, the exit point is left and the path is prepared.
LEMMA TransitStep == ASSUME TreeAssumption, IInv, Transit PROVE IInv'
<1> DEFINE to == Top.state
           x  == ExitPoint(to, Top.kept)
           aim  == Frame("prepare_target_path", to, 0)
           back == Frame("transited", to, level)
           fs == IF x = NoState THEN <<aim, back>> ELSE <<Frame("exit_state", x, 0), aim, back>>
<1>1. /\ stack # <<>> /\ Top.fn = "transit" /\ started' = TRUE /\ level' = Deeper
      /\ x # NoState => x \in target
      /\ UNCHANGED <<flags, active_child, turn, continuation, asks, goal, saved, failed>>
  BY DEF Transit, Running, Asserts
<1>2. to \in States /\ level \in Int /\ level' \in Int
  <2>1. stack \in Seq(Frames) /\ level \in Int
    BY DEF IInv, Typed
  <2>2. Top \in Frames
    BY <1>1, <2>1 DEF Top
  <2>3. level' \in Int
    BY <1>1, <2>1 DEF Deeper
  <2> QED
    BY <2>1, <2>2, <2>3, FramesFields
<1>3. /\ aim \in Frames /\ aim.fn = "prepare_target_path"
      /\ back \in Frames /\ back.fn = "transited" /\ back.kept = level
  BY <1>2 DEF Frame, Frames
<1>4. x # NoState => /\ x \in States /\ Frame("exit_state", x, 0) \in Frames
                     /\ Frame("exit_state", x, 0).fn = "exit_state"
                     /\ Frame("exit_state", x, 0).state = x
  <2> SUFFICES ASSUME x # NoState
               PROVE  /\ x \in States /\ Frame("exit_state", x, 0) \in Frames
                      /\ Frame("exit_state", x, 0).fn = "exit_state"
                      /\ Frame("exit_state", x, 0).state = x
    OBVIOUS
  <2>1. x \in States
    BY <1>1 DEF IInv, Typed
  <2> HIDE DEF x
  <2> QED
    BY <2>1 DEF Frame, Frames
<1>5. Becomes(fs)
  <2>1. CASE x = NoState
    BY <2>1 DEF Transit
  <2>2. CASE x # NoState
    <3>1. Becomes(<<Frame("exit_state", x, 0)>> \o <<aim, back>>)
      BY <2>2 DEF Transit
    <3>2. Frame("exit_state", x, 0) \in Frames
      BY <1>4, <2>2
    <3> HIDE DEF x, aim, back
    <3>3. <<Frame("exit_state", x, 0)>> \o <<aim, back>> = <<Frame("exit_state", x, 0), aim, back>>
      BY <1>3, <3>2, OneAndTwo
    <3> QED
      BY <2>2, <3>1, <3>3
  <2> QED
    BY <2>1, <2>2
<1>6. /\ fs \in Seq(Frames) /\ Len(fs) \in {2, 3} /\ DOMAIN fs = 1..Len(fs)
      /\ fs[Len(fs)] = back /\ fs[Len(fs) - 1] = aim
      /\ \A i \in DOMAIN fs : i \notin {Len(fs), Len(fs) - 1} => i = 1 /\ fs[i].fn = "exit_state"
      /\ x # NoState => fs[1].fn = "exit_state" /\ fs[1].state = x /\ 1 \in DOMAIN fs
  <2> DEFINE out == Frame("exit_state", x, 0)
  <2>1. x # NoState => out \in Frames /\ out.fn = "exit_state" /\ out.state = x
    BY <1>4
  <2>2. fs = IF x = NoState THEN <<aim, back>> ELSE <<out, aim, back>>
    OBVIOUS
  <2> HIDE DEF fs, x, aim, back, out
  <2>3. CASE x = NoState
    BY <1>3, <2>2, <2>3
  <2>4. CASE x # NoState
    BY <1>3, <2>1, <2>2, <2>4
  <2> QED
    BY <2>3, <2>4
<1> HIDE DEF fs
<1>7. Moved(fs)
  BY <1>1, <1>5, <1>6, StackTyped
<1>8. \A i \in DOMAIN fs : /\ fs[i].fn \in {"exit_state", "prepare_target_path", "transited"}
                           /\ fs[i].fn = "transited" => i = Len(fs) /\ fs[i].kept = level
  <2> HIDE DEF aim, back, x
  <2> QED
    BY <1>3, <1>6
<1>9. Levels'
  <2>1. \A i \in DOMAIN fs : fs[i].fn \in Restoring =>
            i = Len(fs) /\ fs[i].kept = level /\ Top.fn \notin Restoring
    BY <1>1, <1>8 DEF Restoring
  <2>2. \E i \in DOMAIN fs : fs[i].fn \in Restoring
    <3>1. Len(fs) \in DOMAIN fs
      BY <1>6
    <3> HIDE DEF back
    <3> QED
      BY <1>3, <1>6, <3>1 DEF Restoring
  <2> QED
    BY <1>7, <2>1, <2>2, LevelsKept DEF IInv
<1>10. \A i \in DOMAIN fs : fs[i].fn \notin Entering \cup {"on__exit"}
  BY <1>8 DEF Entering
<1>11. CASE x = NoState
  <2>1. UNCHANGED targets
    BY <1>11 DEF Transit
  <2>2. Path' /\ Counted'
    BY <1>1, <2>1 DEF IInv, Path, Counted, targets, flags
  <2>3. EntersLast' /\ EntersInside' /\ ExitsOnce' /\ ChildrenFirst' /\ Nested' /\ Aimed' /\ Complete'
    <3>1. UNCHANGED <<active, active_child, target, target_child>>
      BY <1>1, <2>1 DEF flags, targets
    <3>2. Top.fn \in {"transit", "terminate", "prepare_target_path"}
      BY <1>1
    <3> QED
      BY <1>7, <1>10, <3>1, <3>2, RetargetKept
  <2>4. Typed'
    BY <1>1, <1>2, <1>7, <2>1 DEF IInv, Typed, Moved, targets, flags
  <2>5. target' = target
    BY <2>1 DEF targets
  <2> QED
    <3>1. Goal'
      <4>1. \E i \in DOMAIN stack' : stack'[i].fn = "prepare_target_path"
        <5> DEFINE k == Len(fs) - 1
        <5>1. k \in DOMAIN fs /\ fs[k].fn = "prepare_target_path"
          BY <1>3, <1>6
        <5> HIDE DEF k
        <5> QED
          BY <1>7, <5>1 DEF Moved
      <4> QED
        BY <1>1, <2>5, <4>1 DEF IInv, Goal
    <3> QED
      BY <1>9, <2>2, <2>3, <2>4, <3>1 DEF IInv
<1>12. CASE x # NoState
  <2>0. x \in target /\ x \in States
    BY <1>1, <1>4, <1>12
  <2>1. set_target_flags({x}, TargetTree(x)) /\ target_child' = ClearedChildren(TargetTree(x))
    BY <1>12 DEF Transit
  <2> HIDE DEF x
  <2>2. /\ target' = {t \in target : x \notin Above[t]} /\ target_child' \in [States -> MaybeState]
        /\ target' \in SUBSET States /\ target_count' \in Int
        /\ target_count' = Cardinality(target')
        /\ \A s \in States : target_child'[s] = NoState \/ IsChild(target_child'[s], s)
        /\ \A s \in States : x \notin Above[s] \cup {s} => target_child'[s] = target_child[s]
        /\ Path'
    BY <2>0, <2>1, TreeCut
  <2>3. Counted'
    BY <1>1, <2>2 DEF IInv, Counted, flags
  <2>4. \A t : x \in Above[t] \cup {t} => Doomed(t)'
    <3> SUFFICES ASSUME NEW t, x \in Above[t] \cup {t} PROVE Doomed(t)'
      OBVIOUS
    <3>1. 1 \in DOMAIN fs /\ fs[1].fn \in Leaving /\ fs[1].state \in Above[t] \cup {t}
      BY <1>6, <1>12 DEF Leaving
    <3> QED
      BY <1>7, <3>1, DoomedNow
  <2>5. EntersLast' /\ EntersInside' /\ ExitsOnce' /\ ChildrenFirst' /\ Nested' /\ Aimed' /\ Complete'
    <3>1. UNCHANGED <<active, active_child>>
      BY <1>1 DEF flags
    <3>2. Top.fn \in {"transit", "terminate", "prepare_target_path"}
      BY <1>1
    <3>3. \A t \in Inside : Doomed(t)' \/ (t \in target => t \in target')
      BY <2>2, <2>4
    <3>4. ASSUME NEW t \in States, active[t] = 1, ~ Doomed(t)'
          PROVE  /\ target_child[t] \in target => target_child'[t] \in target'
                 /\ \A c : IsAnd(t) /\ IsChild(c, t) /\ c \in target => c \in target'
      <4>1. x \notin Above[t] \cup {t}
        BY <2>4, <3>4
      <4>2. \A c : IsChild(c, t) /\ c \in target => c \in target'
        BY <2>2, <4>1, AboveChild
      <4>3. target_child[t] \in target => IsChild(target_child[t], t)
        BY TreeAssumption DEF IInv, Typed
      <4> QED
        BY <2>2, <4>1, <4>2, <4>3
    <3> QED
      BY <1>7, <1>10, <3>1, <3>2, <3>3, <3>4, RetargetKept
  <2>6. Typed'
    BY <1>1, <1>2, <1>7, <2>2 DEF IInv, Typed, Moved, flags
  <2>7. Goal'
    <3>1. \E i \in DOMAIN stack' : stack'[i].fn = "prepare_target_path"
      <4> DEFINE k == Len(fs) - 1
      <4>1. k \in DOMAIN fs /\ fs[k].fn = "prepare_target_path"
        BY <1>3, <1>6
      <4> HIDE DEF k
      <4> QED
        BY <1>7, <4>1 DEF Moved
    <3>2. goal # NoState
      BY <2>0 DEF IInv, Goal
    <3> QED
      BY <1>1, <3>1, <3>2 DEF IInv, Goal
  <2> QED
    BY <1>9, <2>2, <2>3, <2>5, <2>6, <2>7 DEF IInv
<1> QED
  BY <1>11, <1>12

\* terminate: no target stays, and the root is left.
LEMMA TerminateStep == ASSUME TreeAssumption, IInv, Terminate PROVE IInv'
<1> DEFINE out  == Frame("exit_state", Root, 0)
           back == Frame("terminated", Root, level)
           fs   == <<out, back>>
           off  == TargetTree(Root)
<1>1. /\ stack # <<>> /\ Top.fn = "terminate" /\ level' = Deeper /\ goal' = NoState
      /\ set_target_flags({}, off) /\ target_child' = ClearedChildren(off)
      /\ Becomes(fs)
      /\ UNCHANGED <<flags, active_child, started, turn, continuation, asks, saved, failed>>
  BY DEF Terminate, Running, Abandoned
<1>2. level \in Int /\ level' \in Int /\ Root \in States
  BY <1>1 DEF IInv, Typed, Deeper, TreeAssumption
<1>3. /\ out \in Frames /\ out.fn = "exit_state" /\ out.state = Root
      /\ back \in Frames /\ back.fn = "terminated" /\ back.kept = level
  BY <1>2 DEF Frame, Frames
<1>4. /\ fs \in Seq(Frames) /\ Len(fs) = 2 /\ DOMAIN fs = 1..2
      /\ fs[1].fn = "exit_state" /\ fs[1].state = Root
      /\ fs[2].fn = "terminated" /\ fs[2].kept = level
  <2> HIDE DEF out, back
  <2> QED
    BY <1>3
<1> HIDE DEF fs
<1>5. Moved(fs)
  BY <1>1, <1>4, StackTyped
<1>6. /\ target \in SUBSET States /\ target_count = Cardinality(target) /\ Path /\ Typed
  BY DEF IInv, Typed, Counted
<1>7. off = target
  <2>1. off = {t \in target : Root \in Above[t] \cup {t}}
    BY <1>2, <1>6, TargetTreeIs
  <2> HIDE DEF off
  <2> QED
    BY <1>6, <2>1, RootAbove
<1>8. target' = {} /\ target_count' = Cardinality(target') /\ target_count' \in Int
  <2>1. {} \in SUBSET States /\ off \in SUBSET target
    BY <1>7
  <2> HIDE DEF off
  <2>2. /\ target' = (target \ off) \cup {}
        /\ target_count' = Cardinality(target') /\ target_count' \in Int
    BY <1>1, <1>6, <2>1, TargetsSet
  <2> QED
    BY <1>7, <2>2
<1>9. /\ target_child' \in [States -> MaybeState]
      /\ \A s \in States : target_child'[s] = IF s \in off THEN NoState ELSE target_child[s]
  BY <1>1, <1>6, ChildrenCleared
<1>10. \A t \in States : Doomed(t)'
  <2>1. ASSUME NEW t \in States PROVE Doomed(t)'
    <3>1. 1 \in DOMAIN fs /\ fs[1].fn \in Leaving /\ fs[1].state \in Above[t] \cup {t}
      BY <1>4, RootAbove DEF Leaving
    <3> QED
      BY <1>5, <3>1, DoomedNow
  <2> QED
    BY <2>1
<1>11. EntersLast' /\ EntersInside' /\ ExitsOnce' /\ ChildrenFirst' /\ Nested' /\ Aimed' /\ Complete'
  <2>1. UNCHANGED <<active, active_child>> /\ Top.fn \in {"transit", "terminate", "prepare_target_path"}
    BY <1>1 DEF flags
  <2>2. \A t \in Inside : Doomed(t)'
    BY <1>10 DEF Inside
  <2>3. \A i \in DOMAIN fs : fs[i].fn \notin Entering \cup {"on__exit"}
    BY <1>4 DEF Entering
  <2> QED
    BY <1>5, <1>10, <2>1, <2>2, <2>3, RetargetKept
<1>12. Levels'
  <2>1. \A i \in DOMAIN fs : fs[i].fn \in Restoring =>
            i = Len(fs) /\ fs[i].kept = level /\ Top.fn \notin Restoring
    BY <1>1, <1>4 DEF Restoring
  <2>2. \E i \in DOMAIN fs : fs[i].fn \in Restoring
    BY <1>4 DEF Restoring
  <2> QED
    BY <1>5, <2>1, <2>2, LevelsKept DEF IInv
<1>13. Typed'
  <2>1. \A s \in States : target_child'[s] = NoState \/ IsChild(target_child'[s], s)
    BY <1>6, <1>9 DEF Typed
  <2>2. goal' \in MaybeState
    BY <1>1 DEF MaybeState
  <2> QED
    BY <1>1, <1>2, <1>5, <1>8, <1>9, <2>1, <2>2 DEF IInv, Typed, Moved, flags
<1>14. Counted' /\ Path' /\ Goal'
  BY <1>1, <1>8 DEF IInv, Counted, Path, Goal, flags
<1> QED
  BY <1>11, <1>12, <1>13, <1>14 DEF IInv

\* where the new path leaves the old one, and what the old one loses there
Parting(s, p, old, off) ==
    /\ p = Joint(s)
    /\ old = IF p # NoState /\ IsOr(p) THEN target_child[p] ELSE NoState
    /\ off = IF old = NoState THEN {} ELSE TargetTree(old)
    /\ old # NoState => old \in target
    /\ target' = (target \ off) \cup Untargeted(s)
    /\ target_child' = [u \in States |->
                           IF IsOr(u) /\ u # s /\ u \in Untargeted(s) \cup {p} THEN Toward(u, s)
                           ELSE IF u \in off THEN NoState
                           ELSE target_child[u]]

\* What prepare_target_path cuts where its path parts from the one there was.
LEMMA Parts ==
    ASSUME TreeAssumption, IInv, NEW s \in States, s \notin target,
           NEW p, NEW old, NEW off, Parting(s, p, old, off)
    PROVE  /\ off \in SUBSET target /\ off \cap Untargeted(s) = {}
           /\ p # NoState => p \in target /\ p \in States /\ p \in Above[s] /\ p \notin off
           /\ old # NoState => IsChild(old, p) /\ IsOr(p) /\ p # NoState /\ old = target_child[p]
           /\ \A t \in States : t \in off <=> (old # NoState /\ t \in target /\ old \in Above[t] \cup {t})
           /\ \A u \in States : IsOr(u) /\ u # s /\ u \in Untargeted(s) \cup {p} =>
                /\ target_child'[u] = Toward(u, s) /\ IsChild(Toward(u, s), u)
                /\ Toward(u, s) \in Untargeted(s)
                /\ \A c \in Untargeted(s) : IsChild(c, u) => c = Toward(u, s)
           /\ \A u \in States : ~ (IsOr(u) /\ u # s /\ u \in Untargeted(s) \cup {p}) =>
                target_child'[u] = IF u \in off THEN NoState ELSE target_child[u]
           /\ target_child' \in [States -> MaybeState]
           /\ \A u \in States : target_child'[u] = NoState \/ IsChild(target_child'[u], u)
<1>1. target \in SUBSET States /\ Path /\ Typed /\ NoState \notin States
  BY DEF IInv, Typed, TreeAssumption
<1>2. old # NoState => IsChild(old, p) /\ IsOr(p) /\ p # NoState /\ old = target_child[p] /\ old \in States
  <2> SUFFICES ASSUME old # NoState
               PROVE  IsChild(old, p) /\ IsOr(p) /\ p # NoState /\ old = target_child[p] /\ old \in States
    OBVIOUS
  <2>1. p # NoState /\ IsOr(p) /\ old = target_child[p]
    BY DEF Parting
  <2>2. p \in States
    BY <1>1, <2>1, JoinsPath DEF Parting
  <2> QED
    BY <1>1, <2>1, <2>2 DEF Typed, IsChild
<1>3. p # NoState => p \in target /\ p \in States /\ p \in Above[s]
  BY <1>1, JoinsPath DEF Parting
<1>4. \A t \in States : t \in off <=> (old # NoState /\ t \in target /\ old \in Above[t] \cup {t})
  <2>1. CASE old = NoState
    BY <2>1 DEF Parting
  <2>2. CASE old # NoState
    <3>1. TargetTree(old) = {t \in target : old \in Above[t] \cup {t}}
      BY <1>1, <1>2, <2>2, TargetTreeIs
    <3> QED
      BY <2>2, <3>1 DEF Parting
  <2> QED
    BY <2>1, <2>2
<1>5. off \in SUBSET target
  <2>1. off \subseteq States
    BY DEF Parting, TargetTree
  <2> QED
    BY <1>4, <2>1
<1>6. off \cap Untargeted(s) = {}
  BY <1>1, <1>5, JoinsPath
<1>7. p # NoState => p \notin off
  <2> SUFFICES ASSUME p # NoState, p \in off PROVE FALSE
    OBVIOUS
  <2>1. old # NoState /\ old \in Above[p] \cup {p}
    BY <1>3, <1>4
  <2> QED
    BY <1>2, <2>1, AboveChild
<1>8. ASSUME NEW u \in States, IsOr(u), u # s, u \in Untargeted(s) \cup {p}
      PROVE  /\ target_child'[u] = Toward(u, s) /\ IsChild(Toward(u, s), u)
             /\ Toward(u, s) \in Untargeted(s)
             /\ \A c \in Untargeted(s) : IsChild(c, u) => c = Toward(u, s)
  <2>1. target_child'[u] = Toward(u, s)
    BY <1>8 DEF Parting
  <2>2. u \in (Untargeted(s) \cup {Joint(s)}) \ {s, NoState}
    BY <1>1, <1>8 DEF Parting
  <2> QED
    BY <1>1, <2>1, <2>2, TowardUntargeted
<1>9. ASSUME NEW u \in States, ~ (IsOr(u) /\ u # s /\ u \in Untargeted(s) \cup {p})
      PROVE  target_child'[u] = IF u \in off THEN NoState ELSE target_child[u]
  BY <1>9 DEF Parting
<1>10. \A u \in States : target_child'[u] \in MaybeState /\ (target_child'[u] = NoState \/ IsChild(target_child'[u], u))
  <2> SUFFICES ASSUME NEW u \in States
               PROVE  target_child'[u] \in MaybeState /\ (target_child'[u] = NoState \/ IsChild(target_child'[u], u))
    OBVIOUS
  <2>1. CASE IsOr(u) /\ u # s /\ u \in Untargeted(s) \cup {p}
    BY <1>8, <2>1 DEF IsChild, MaybeState
  <2>2. CASE ~ (IsOr(u) /\ u # s /\ u \in Untargeted(s) \cup {p})
    <3>1. target_child'[u] = NoState \/ target_child'[u] = target_child[u]
      BY <1>9, <2>2
    <3> QED
      BY <1>1, <3>1 DEF Typed, MaybeState
  <2> QED
    BY <2>1, <2>2
<1>11. target_child' \in [States -> MaybeState]
  <2>1. target_child' = [u \in States |-> target_child'[u]]
    BY DEF Parting
  <2> QED
    BY <1>10, <2>1
<1> QED
  BY <1>2, <1>3, <1>4, <1>5, <1>6, <1>7, <1>8, <1>9, <1>10, <1>11

\* The new targets are closed upwards again.
LEMMA PathParts ==
    ASSUME TreeAssumption, IInv, NEW s \in States, s \notin target,
           NEW p, NEW old, NEW off, Parting(s, p, old, off)
    PROVE  Path'
<1>1. target \in SUBSET States /\ Path /\ Typed /\ target' = (target \ off) \cup Untargeted(s)
  BY DEF IInv, Typed, Parting
<1>2. /\ s \in Untargeted(s) /\ Untargeted(s) \subseteq Above[s] \cup {s}
      /\ Untargeted(s) \subseteq States /\ Untargeted(s) \cap target = {}
      /\ \A v \in Above[s] : v \in Untargeted(s) \/ (p # NoState /\ v \in Above[p] \cup {p})
      /\ \A u \in Untargeted(s) : p # NoState => p \in Above[u]
  BY <1>1, JoinsPath DEF Parting
<1>3. /\ off \in SUBSET target
      /\ p # NoState => p \in target /\ p \in States /\ p \in Above[s] /\ p \notin off
      /\ old # NoState => IsChild(old, p) /\ IsOr(p) /\ p # NoState /\ old = target_child[p]
      /\ \A t \in States : t \in off <=> (old # NoState /\ t \in target /\ old \in Above[t] \cup {t})
      /\ \A u \in States : IsOr(u) /\ u # s /\ u \in Untargeted(s) \cup {p} =>
           /\ target_child'[u] = Toward(u, s)
           /\ \A c \in Untargeted(s) : IsChild(c, u) => c = Toward(u, s)
      /\ \A u \in States : ~ (IsOr(u) /\ u # s /\ u \in Untargeted(s) \cup {p}) =>
           target_child'[u] = IF u \in off THEN NoState ELSE target_child[u]
  BY Parts
<1>4. ASSUME NEW v \in target', NEW w \in Above[v] PROVE w \in target'
  <2>1. v \in States /\ w \in States
    BY <1>1, <1>2, AboveAbove
  <2>2. CASE v \in Untargeted(s)
    <3>1. w \in Above[s]
      BY <1>2, <2>2, AboveAbove
    <3>2. CASE p # NoState /\ w \in Above[p] \cup {p}
      <4>1. w \in target
        BY <1>1, <1>3, <3>2 DEF Path
      <4>2. ASSUME w \in off PROVE FALSE
        <5>1. old # NoState /\ old \in Above[w] \cup {w}
          BY <1>3, <2>1, <4>2
        <5>2. old \in Above[p] \cup {p}
          BY <1>3, <3>2, <5>1, AboveAbove
        <5> QED
          BY <1>3, <5>1, <5>2, AboveChild
      <4> QED
        BY <1>1, <4>1, <4>2
    <3> QED
      BY <1>1, <1>2, <3>1, <3>2
  <2>3. CASE v \in target /\ v \notin off
    <3>1. w \in target
      BY <1>1, <2>3 DEF Path
    <3>2. w \notin off
      BY <1>3, <2>1, <2>3, AboveAbove
    <3> QED
      BY <1>1, <3>1, <3>2
  <2> QED
    BY <1>1, <2>2, <2>3
<1>5. ASSUME NEW v \in target', v # Root, IsOr(Parent[v]) PROVE target_child'[Parent[v]] = v
  <2> DEFINE u == Parent[v]
  <2>1. v \in States
    BY <1>1, <1>2
  <2>2. u \in States /\ Above[v] = Above[u] \cup {u} /\ IsChild(v, u)
    BY <1>5, <2>1, LevelOfParent DEF IsChild
  <2> HIDE DEF u
  <2>3. IsOr(u)
    BY <1>5 DEF u
  <2>4. CASE v \in Untargeted(s)
    <3>1. u \in Above[s]
      BY <1>2, <2>2, <2>4, AboveAbove
    <3>2. u \in Untargeted(s) \cup {p}
      <4>1. CASE p # NoState /\ u \in Above[p]
        <5>1. p \in Above[u] \cup {u}
          BY <1>2, <2>2, <2>4, <4>1
        <5> QED
          BY <1>3, <4>1, <5>1, NotBelowAbove
      <4> QED
        BY <1>2, <3>1, <4>1
    <3>3. u # s
      BY <3>1, NotAboveItself
    <3> QED
      BY <1>3, <2>2, <2>3, <2>4, <3>2, <3>3 DEF u
  <2>5. CASE v \in target /\ v \notin off
    <3>1. target_child[u] = v /\ u \in target
      BY <1>1, <1>5, <2>2, <2>5 DEF Path, u
    <3>2. u \notin off
      BY <1>3, <2>1, <2>2, <2>5
    <3>3. ~ (u \in Untargeted(s) \cup {p})
      <4> SUFFICES ASSUME u = p PROVE FALSE
        BY <1>2, <3>1
      <4>1. p # NoState
        BY <2>2 DEF TreeAssumption
      <4>2. old = v
        BY <2>3, <3>1, <4>1 DEF Parting
      <4>3. old # NoState
        BY <2>1, <4>2 DEF TreeAssumption
      <4> QED
        BY <1>3, <2>1, <2>5, <4>2, <4>3
    <3> QED
      BY <1>3, <2>2, <3>1, <3>2, <3>3 DEF u
  <2> QED
    BY <1>1, <2>4, <2>5
<1> QED
  BY <1>4, <1>5 DEF Path

\* prepare_target_path: the path down to the new target.
LEMMA prepare_target_pathStep == ASSUME TreeAssumption, IInv, prepare_target_path PROVE IInv'
<1> DEFINE s == Top.state
           p == Joint(s)
           old == IF p # NoState /\ IsOr(p) THEN target_child[p] ELSE NoState
           off == IF old = NoState THEN {} ELSE TargetTree(old)
<1>1. /\ stack # <<>> /\ Top.fn = "prepare_target_path" /\ Asserts /\ goal' = s
      /\ UNCHANGED <<flags, active_child, level, started, turn, continuation, asks, saved, failed>>
  BY DEF prepare_target_path, Running
<1>2. s \in States
  <2>1. stack \in Seq(Frames)
    BY DEF IInv, Typed
  <2>2. Top \in Frames
    BY <1>1, <2>1 DEF Top
  <2> QED
    BY <2>2, FramesFields
<1>3. \A t \in States : /\ Frame("exit_state", t, 0) \in Frames
                        /\ Frame("exit_state", t, 0).fn = "exit_state"
                        /\ Frame("exit_state", t, 0).state = t
  BY DEF Frame, Frames
<1>4. ASSUME NEW fs \in Seq(Frames), Becomes(fs), \A i \in DOMAIN fs : fs[i].fn = "exit_state",
             target_child' \in [States -> MaybeState], target' \in SUBSET States, target_count' \in Int,
             \A u \in States : target_child'[u] = NoState \/ IsChild(target_child'[u], u),
             target_count' = Cardinality(target'), Path', s \in target',
             \A t \in Inside : Doomed(t)' \/ (t \in target => t \in target'),
             \A t \in States : active[t] = 1 =>
               \/ Doomed(t)'
               \/ /\ target_child[t] \in target => target_child'[t] \in target'
                  /\ \A c : IsAnd(t) /\ IsChild(c, t) /\ c \in target => c \in target'
      PROVE  IInv'
  <2>1. Moved(fs)
    BY <1>1, <1>4, StackTyped
  <2>2. EntersLast' /\ EntersInside' /\ ExitsOnce' /\ ChildrenFirst' /\ Nested' /\ Aimed' /\ Complete'
    <3>1. UNCHANGED <<active, active_child>> /\ Top.fn \in {"transit", "terminate", "prepare_target_path"}
      BY <1>1 DEF flags
    <3>2. \A i \in DOMAIN fs : fs[i].fn \notin Entering \cup {"on__exit"}
      BY <1>4 DEF Entering
    <3> HIDE DEF s
    <3> QED
      BY <1>4, <2>1, <3>1, <3>2, RetargetKept
  <2>3. Levels'
    <3>1. \A i \in DOMAIN fs : fs[i].fn \notin Restoring
      BY <1>4 DEF Restoring
    <3>2. Top.fn \notin Restoring /\ level' = level
      BY <1>1 DEF Restoring
    <3> QED
      BY <2>1, <3>1, <3>2, LevelsKept DEF IInv
  <2>4. Typed'
    <3>1. goal' \in MaybeState
      BY <1>1, <1>2 DEF MaybeState
    <3> QED
      BY <1>1, <1>4, <2>1, <3>1 DEF IInv, Typed, Moved, flags
  <2>5. Counted'
    BY <1>1, <1>4 DEF IInv, Counted, flags
  <2>6. Goal'
    <3>1. goal' # NoState
      BY <1>1, <1>2 DEF TreeAssumption
    <3> QED
      BY <1>1, <1>4, <3>1 DEF Goal
  <2> QED
    BY <1>4, <2>2, <2>3, <2>4, <2>5, <2>6 DEF IInv
<1>5. CASE s \in target
  <2> DEFINE f  == Frame("exit_state", s, 0)
             fs == <<f>>
  <2>1. Becomes(fs) /\ UNCHANGED targets
    BY <1>5 DEF prepare_target_path
  <2>2. f \in Frames /\ f.fn = "exit_state"
    BY <1>2, <1>3
  <2>3. fs \in Seq(Frames) /\ \A i \in DOMAIN fs : fs[i].fn = "exit_state"
    <3> HIDE DEF f
    <3> QED
      BY <2>2
  <2> HIDE DEF fs
  <2>4. /\ target_child' \in [States -> MaybeState] /\ target' \in SUBSET States /\ target_count' \in Int
        /\ \A u \in States : target_child'[u] = NoState \/ IsChild(target_child'[u], u)
        /\ target_count' = Cardinality(target') /\ Path'
    BY <2>1 DEF targets, IInv, Typed, Counted, Path
  <2>5. target' = target /\ target_child' = target_child
    BY <2>1 DEF targets
  <2> QED
    BY <1>4, <1>5, <2>1, <2>3, <2>4, <2>5
<1>6. CASE s \notin target
  <2> DEFINE at == active_child[p]
             fs == IF old # NoState /\ at # NoState THEN <<Frame("exit_state", at, 0)>> ELSE <<>>
  <2>1. /\ Becomes(fs) /\ set_target_flags(Untargeted(s), off)
        /\ target_child' = [u \in States |->
                              IF IsOr(u) /\ u # s /\ u \in Untargeted(s) \cup {p} THEN Toward(u, s)
                              ELSE IF u \in off THEN NoState
                              ELSE target_child[u]]
    BY <1>6 DEF prepare_target_path
  <2>2. old # NoState => old \in target
    BY <1>1, <1>6 DEF Asserts
  <2>3. Parting(s, p, old, off)
    <3>1. target' = (target \ off) \cup Untargeted(s)
      BY <2>1 DEF set_target_flags
    <3> QED
      BY <2>1, <2>2, <3>1 DEF Parting
  <2> HIDE DEF s, p, old, off
  <2>4. /\ off \in SUBSET target /\ off \cap Untargeted(s) = {}
        /\ p # NoState => p \in target /\ p \in States /\ p \in Above[s] /\ p \notin off
        /\ old # NoState => IsChild(old, p) /\ IsOr(p) /\ p # NoState /\ old = target_child[p]
        /\ \A t \in States : t \in off <=> (old # NoState /\ t \in target /\ old \in Above[t] \cup {t})
        /\ \A u \in States : IsOr(u) /\ u # s /\ u \in Untargeted(s) \cup {p} =>
             target_child'[u] = Toward(u, s) /\ Toward(u, s) \in Untargeted(s)
        /\ \A u \in States : ~ (IsOr(u) /\ u # s /\ u \in Untargeted(s) \cup {p}) =>
             target_child'[u] = IF u \in off THEN NoState ELSE target_child[u]
        /\ target_child' \in [States -> MaybeState]
        /\ \A u \in States : target_child'[u] = NoState \/ IsChild(target_child'[u], u)
    BY <1>2, <1>6, <2>3, Parts
  <2>5. Path'
    BY <1>2, <1>6, <2>3, PathParts
  <2>6. /\ target \in SUBSET States /\ target_count = Cardinality(target) /\ Path /\ Typed /\ Nested
    BY DEF IInv, Typed, Counted
  <2>7. Untargeted(s) \in SUBSET States /\ s \in Untargeted(s)
    BY <1>2, <1>6, <2>6, JoinsPath
  <2>8. /\ target' = (target \ off) \cup Untargeted(s) /\ target' \in SUBSET States
        /\ target_count' = Cardinality(target') /\ target_count' \in Int
    BY <2>1, <2>4, <2>6, <2>7, TargetsSet
  <2>9. s \in target'
    BY <2>7, <2>8
  <2>10. old # NoState /\ at # NoState => at \in States
    BY <2>4, <2>6 DEF Typed, IsChild
  <2>11. fs \in Seq(Frames) /\ \A i \in DOMAIN fs : fs[i].fn = "exit_state"
    <3>1. CASE old # NoState /\ at # NoState
      <4> DEFINE f == Frame("exit_state", at, 0)
      <4>1. f \in Frames /\ f.fn = "exit_state" /\ fs = <<f>>
        BY <1>3, <2>10, <3>1
      <4> HIDE DEF f, fs
      <4> QED
        BY <4>1
    <3>2. CASE ~ (old # NoState /\ at # NoState)
      BY <3>2
    <3> QED
      BY <3>1, <3>2
  <2>12. ASSUME NEW t \in Inside, old # NoState, old \in Above[t] \cup {t} PROVE Doomed(t)'
    <3>1. old \in Inside /\ old \in States
      BY <2>4, <2>6, <2>12 DEF Nested, IsChild
    <3>2. active_child[p] = old
      <4>1. old # Root /\ Parent[old] = p /\ IsOr(Parent[old])
        BY <2>4, <2>12 DEF IsChild
      <4>2. active_child[Parent[old]] = old
        BY <2>6, <3>1, <4>1 DEF Nested
      <4> QED
        BY <4>1, <4>2
    <3>3. fs = <<Frame("exit_state", old, 0)>>
      BY <2>12, <3>2
    <3> DEFINE f == Frame("exit_state", old, 0)
    <3>4. f.fn \in Leaving /\ f.state = old /\ fs = <<f>>
      BY <1>3, <3>1, <3>3 DEF Leaving
    <3>5. Moved(fs)
      BY <1>1, <2>1, <2>11, StackTyped
    <3> HIDE DEF f, fs
    <3>6. 1 \in DOMAIN fs /\ fs[1] = f
      BY <3>4
    <3> QED
      BY <2>12, <3>4, <3>5, <3>6, DoomedNow
  <2>13. \A t \in Inside : Doomed(t)' \/ (t \in target => t \in target')
    <3>1. \A t \in Inside : t \in States
      BY DEF Inside
    <3> QED
      BY <2>4, <2>8, <2>12, <3>1
  <2>14. ASSUME NEW t \in States, active[t] = 1, ~ Doomed(t)'
         PROVE  /\ target_child[t] \in target => target_child'[t] \in target'
                /\ \A c : IsAnd(t) /\ IsChild(c, t) /\ c \in target => c \in target'
    <3>1. t \in Inside
      BY <2>14 DEF Inside
    <3>2. ~ (old # NoState /\ old \in Above[t] \cup {t})
      BY <2>12, <2>14, <3>1
    <3>3. ASSUME NEW c, IsChild(c, t), c \in target, c \in off PROVE IsOr(t) /\ t = p /\ p # NoState
      <4>1. c \in States /\ Above[c] = Above[t] \cup {t}
        BY <3>3, AboveChild DEF IsChild
      <4>2. old # NoState /\ old = c
        BY <2>4, <3>2, <3>3, <4>1
      <4> QED
        BY <2>4, <3>3, <4>2 DEF IsChild
    <3>4. ASSUME target_child[t] \in target PROVE target_child'[t] \in target'
      <4>1. CASE IsOr(t) /\ t # s /\ t \in Untargeted(s) \cup {p}
        BY <2>4, <2>8, <4>1
      <4>2. CASE ~ (IsOr(t) /\ t # s /\ t \in Untargeted(s) \cup {p})
        <5>1. t \notin off
          BY <2>4, <3>2
        <5>2. target_child'[t] = target_child[t]
          BY <2>4, <4>2, <5>1
        <5>3. IsChild(target_child[t], t)
          BY <2>6, <3>4 DEF Typed, TreeAssumption
        <5>4. target_child[t] \notin off
          <6> SUFFICES ASSUME target_child[t] \in off PROVE FALSE
            OBVIOUS
          <6>1. IsOr(t) /\ t = p /\ p # NoState
            BY <3>3, <3>4, <5>3
          <6>2. t # s
            BY <1>2, <2>4, <6>1, NotAboveItself
          <6> QED
            BY <4>2, <6>1, <6>2
        <5> QED
          BY <2>8, <3>4, <5>2, <5>4
      <4> QED
        BY <4>1, <4>2
    <3>5. ASSUME NEW c, IsAnd(t), IsChild(c, t), c \in target PROVE c \in target'
      <4>1. c \notin off
        BY <3>3, <3>5 DEF IsAnd, IsOr
      <4> QED
        BY <2>8, <3>5, <4>1
    <3> QED
      BY <3>4, <3>5
  <2> HIDE DEF fs
  <2> QED
    BY <1>4, <2>1, <2>4, <2>5, <2>8, <2>9, <2>11, <2>13, <2>14
<1> QED
  BY <1>5, <1>6
-------------------------------------------------------------------------------
(* Entering: nothing is being left.                                            *)

\* A step made while states are entered leaves none.
LEMMA EnteringKept ==
    ASSUME IInv, NEW fs, Moved(fs), Top.fn \in Entering,
           \A i \in DOMAIN fs : fs[i].fn \in Entering \cup {"transit", "terminate"},
           \A t \in States : active'[t] = -1 => active[t] = -1
    PROVE  /\ ExitsOnce' /\ ChildrenFirst'
           /\ \A t : ~ Doomed(t)
           /\ Inside \subseteq target /\ Inside = {t \in States : active[t] = 1}
           /\ \A t \in States : active[t] # -1
<1>1. /\ \A i \in DOMAIN stack : stack[i].fn \in Entering
      /\ \A s : ~ Doomed(s)
      /\ \A s \in States : active[s] # -1
  BY NothingLeaving DEF IInv
<1>2. \A i \in DOMAIN stack' : stack'[i].fn # "on__exit"
  BY <1>1 DEF Moved, Entering
<1>3. ExitsOnce' /\ ChildrenFirst'
  BY <1>1, <1>2 DEF ExitsOnce, ChildrenFirst
<1> QED
  BY <1>1, <1>3 DEF IInv, Aimed, Inside

\* a state that this step is not about
CompleteAt(s) ==
    /\ IsOr(s) => target_child[s] \in target \/ Resumes(s) \/ Doomed(s)
    /\ IsAnd(s) => ToSet(Kids[s]) \subseteq target \/ Resumes(s) \/ Regions(s) \/ Doomed(s)

\* The states that a step of entering is not about keep what they aim at.
LEMMA OthersComplete ==
    ASSUME Complete, NEW fs, Moved(fs), NEW t \in States, active[t] = 1, ~ Doomed(t),
           target \subseteq target', target_child'[t] = target_child[t],
           Top.fn \in {"entered", "region"} => Top.state # t
    PROVE  CompleteAt(t)'
<1>1. Resumes(t) => Resumes(t)'
  BY ResumesKept
<1>2. Regions(t) => Regions(t)'
  BY RegionsKept
<1> QED
  BY <1>1, <1>2 DEF Complete, CompleteAt

\* enter_stable_state: into the highest target that is not in, or done.
LEMMA enter_stable_stateStep == ASSUME TreeAssumption, IInv, enter_stable_state PROVE IInv'
<1> DEFINE due  == ~Stable /\ level = 0
           next == Frame(Top.kept, Root, 0)
           down == Frame("enter_target_state", Root, 0)
           fs   == IF due THEN <<down, next>> ELSE <<next>>
<1>1. /\ stack # <<>> /\ Top.fn = "enter_stable_state" /\ Becomes(fs)
      /\ active' = [s \in States |-> IF due /\ active[s] = -2 /\ s \in Visited THEN 0 ELSE active[s]]
      /\ UNCHANGED <<active_count, targets, active_child, level, started, turn,
                     continuation, asks, goal, saved, failed>>
  BY DEF enter_stable_state, Running
<1>2. /\ active \in [States -> -2..1] /\ Root \in States /\ Typed
      /\ active_count = Cardinality({t \in States : active[t] > 0})
  BY DEF IInv, Typed, Counted, TreeAssumption
<1>3. /\ active' \in [States -> -2..1]
      /\ \A t \in States : active'[t] = active[t] \/ (active[t] = -2 /\ active'[t] = 0)
  <2> HIDE DEF due
  <2>1. \A t \in States : active[t] \in -2..1
    BY <1>2
  <2> QED
    BY <1>1, <2>1
<1>4. Top.kept \in {"settled", "_complete_transition"}
  <2>1. Top \in Frames
    BY <1>1, <1>2 DEF Typed, Top
  <2> QED
    BY <1>1, <2>1, FramesFields
<1>5. /\ next \in Frames /\ next.fn \in {"settled", "_complete_transition"}
      /\ down \in Frames /\ down.fn = "enter_target_state" /\ down.state = Root
  BY <1>2, <1>4 DEF Frame, Frames
<1>6. /\ fs \in Seq(Frames) /\ Len(fs) \in {1, 2} /\ DOMAIN fs = 1..Len(fs)
      /\ \A i \in DOMAIN fs : fs[i].fn \in {"enter_target_state", "settled", "_complete_transition"}
      /\ \A i \in DOMAIN fs : fs[i].fn = "enter_target_state" => i = 1 /\ fs[i].state = Root
  <2>1. fs = <<down, next>> \/ fs = <<next>>
    OBVIOUS
  <2> HIDE DEF fs, down, next
  <2>2. CASE fs = <<down, next>>
    BY <1>5, <2>2
  <2>3. CASE fs = <<next>>
    BY <1>5, <2>3
  <2> QED
    BY <2>1, <2>2, <2>3
<1> HIDE DEF fs
<1>7. Moved(fs)
  BY <1>1, <1>6, StackTyped
<1>8. Inside' = Inside /\ {t \in States : active'[t] > 0} = {t \in States : active[t] > 0}
  <2>1. \A t \in States : /\ (active'[t] = 1) <=> (active[t] = 1)
                          /\ (active'[t] = -1) <=> (active[t] = -1)
                          /\ (active'[t] > 0) <=> (active[t] > 0)
    BY <1>2, <1>3
  <2> QED
    BY <2>1 DEF Inside
<1>9. \A i \in DOMAIN fs : fs[i].fn \in Entering
  BY <1>6 DEF Entering
<1>10. /\ ExitsOnce' /\ ChildrenFirst' /\ \A t : ~ Doomed(t)
       /\ Inside \subseteq target
  <2>1. Top.fn \in Entering /\ \A t \in States : active'[t] = -1 => active[t] = -1
    BY <1>1, <1>3 DEF Entering
  <2> QED
    BY <1>7, <1>9, <2>1, EnteringKept
<1>11. EntersLast' /\ Levels'
  <2>1. EntersLast'
    BY <1>1, <1>7, <1>9, EntersLastKept DEF IInv, Entering
  <2>2. \A i \in DOMAIN fs : fs[i].fn \notin Restoring
    BY <1>6 DEF Restoring
  <2>3. Top.fn \notin Restoring /\ level' = level
    BY <1>1 DEF Restoring
  <2> QED
    BY <1>7, <2>1, <2>2, <2>3, LevelsKept DEF IInv
<1>12. EntersInside'
  <2>1. \A i \in DOMAIN stack' : i \notin DOMAIN fs => stack'[i].fn # "enter_target_state"
    BY <1>1, <1>7, NotEntering DEF IInv
  <2>2. \A i \in DOMAIN stack' : stack'[i].fn = "enter_target_state" => i = 1 /\ stack'[i].state = Root
    BY <1>6, <1>7, <2>1 DEF Moved
  <2> QED
    BY <2>2 DEF EntersInside
<1>13. Nested' /\ Path' /\ Aimed'
  BY <1>1, <1>8, <1>10 DEF IInv, Nested, Path, Aimed, targets
<1>14. Complete'
  <2>1. ASSUME NEW t \in States, active'[t] = 1 PROVE CompleteAt(t)'
    <3>1. active[t] = 1
      BY <1>3, <2>1
    <3>2. target' = target /\ target_child' = target_child /\ Top.fn \notin {"entered", "region"}
      BY <1>1 DEF targets
    <3> QED
      BY <1>7, <1>10, <3>1, <3>2, OthersComplete DEF IInv
  <2> QED
    BY <2>1 DEF Complete, CompleteAt
<1>15. Goal'
  <2>1. UNCHANGED <<goal, target>> /\ Top.fn \notin {"transit", "prepare_target_path"}
    BY <1>1 DEF targets
  <2> QED
    BY <1>7, <2>1, GoalKept DEF IInv
<1>16. Typed' /\ Counted'
  <2>1. Counted'
    BY <1>1, <1>2, <1>8 DEF IInv, Counted, targets
  <2> QED
    BY <1>1, <1>3, <1>7, <2>1 DEF IInv, Typed, Moved, targets
<1> QED
  BY <1>10, <1>11, <1>12, <1>13, <1>14, <1>15, <1>16 DEF IInv

\* enter_target_state: the state is in, and its entry action runs.
LEMMA enter_target_stateStep ==
    ASSUME TreeAssumption, CallsAssumption, IInv, enter_target_state PROVE IInv'
<1> DEFINE s    == Top.state
           next == Frame("entered", s, level)
<1>1. /\ stack # <<>> /\ Top.fn = "enter_target_state" /\ s \in target
      /\ IF active[s] = 1
         THEN Becomes(<<next>>) /\ UNCHANGED <<flags, level, asks, saved>>
         ELSE set_active_flag(s, 1) /\ level' = level + 1 /\ UserAction(<<"en", s>>, next)
      /\ UNCHANGED <<targets, active_child, started, turn, continuation, goal, failed>>
  BY DEF enter_target_state, Running, Asserts
<1>2. /\ s \in States /\ next \in Frames /\ next.fn = "entered" /\ next.state = s /\ next.kept = level
      /\ level' \in Int
  <2>1. stack \in Seq(Frames) /\ level \in Int
    BY DEF IInv, Typed
  <2>2. Top \in Frames
    BY <1>1, <2>1 DEF Top
  <2>3. s \in States
    BY <2>2, FramesFields
  <2>4. level' \in Int
    BY <1>1, <2>1
  <2> HIDE DEF s
  <2> QED
    BY <2>1, <2>3, <2>4 DEF Frame, Frames
<1>3. /\ asks' \in 0..MaxAsks
      /\ \E fs \in Seq(Frames) : Becomes(fs) /\ UserCall(next, fs)
  <2>1. asks \in 0..MaxAsks
    BY DEF IInv, Typed
  <2>2. CASE UserAction(<<"en", s>>, next)
    <3> HIDE DEF next
    <3> QED
      BY <1>2, <2>1, <2>2, UserCalls
  <2>3. CASE Becomes(<<next>>) /\ UNCHANGED <<flags, level, asks, saved>>
    <3> HIDE DEF next
    <3>1. <<next>> \in Seq(Frames)
      BY <1>2
    <3> QED
      BY <2>1, <2>3, <3>1 DEF UserCall
  <2> QED
    BY <1>1, <2>2, <2>3
<1>4. PICK fs \in Seq(Frames) : Becomes(fs) /\ UserCall(next, fs)
  BY <1>3
<1>5. Moved(fs)
  BY <1>1, <1>4, StackTyped
<1>6. /\ Len(fs) \in {1, 2} /\ DOMAIN fs = 1..Len(fs) /\ fs[Len(fs)] = next
      /\ \A i \in DOMAIN fs : i # Len(fs) => i = 1 /\ fs[i].fn \in {"transit", "terminate"}
  <2> HIDE DEF next
  <2> QED
    BY <1>2, <1>4, UserCallsFacts
<1>7. /\ \A i \in DOMAIN fs : fs[i].fn \in {"entered", "transit", "terminate"}
      /\ \A i \in DOMAIN fs : fs[i].fn = "entered" => i = Len(fs) /\ fs[i].kept = level
      /\ Len(fs) \in DOMAIN fs
  <2> HIDE DEF next
  <2>1. Len(fs) \in DOMAIN fs
    BY <1>6
  <2>2. \A i \in DOMAIN fs : i # Len(fs) => fs[i].fn # "entered" /\ fs[i].fn \in {"transit", "terminate"}
    BY <1>6
  <2> QED
    BY <1>2, <1>6, <2>1, <2>2
<1>8. /\ active \in [States -> -2..1] /\ active_count = Cardinality({t \in States : active[t] > 0})
      /\ Nested /\ Typed /\ EntersInside
  BY DEF IInv, Typed, Counted
<1>9. /\ active' \in [States -> -2..1] /\ active_count' = Cardinality({t \in States : active'[t] > 0})
      /\ active_count' \in Int
      /\ active'[s] = 1 /\ \A t \in States \ {s} : active'[t] = active[t]
  <2>1. CASE active[s] = 1
    BY <1>1, <1>8, <2>1 DEF flags, Typed
  <2>2. CASE active[s] # 1
    <3> DEFINE flag == 1
    <3>1. flag \in -2..1 /\ set_active_flag(s, flag)
      BY <1>1, <2>2
    <3>2. active_count' \in Int
      BY <1>1, <1>8, <2>2 DEF Typed, set_active_flag, Counts
    <3> HIDE DEF s, flag
    <3>3. /\ active' \in [States -> -2..1]
          /\ active'[s] = flag /\ \A t \in States \ {s} : active'[t] = active[t]
          /\ active_count' = Cardinality({t \in States : active'[t] > 0})
      BY <1>2, <1>8, <3>1, FlagSet
    <3> QED
      BY <3>2, <3>3 DEF flag
  <2> QED
    BY <2>1, <2>2
<1>10. /\ ExitsOnce' /\ ChildrenFirst' /\ \A t : ~ Doomed(t)
       /\ Inside \subseteq target
       /\ Inside' = Inside \cup {s}
  <2>1. Top.fn \in Entering /\ \A i \in DOMAIN fs : fs[i].fn \in Entering \cup {"transit", "terminate"}
    BY <1>1, <1>7 DEF Entering
  <2>2. \A t \in States : active'[t] = -1 => active[t] = -1
    BY <1>9
  <2>3. /\ ExitsOnce' /\ ChildrenFirst' /\ \A t : ~ Doomed(t)
        /\ Inside \subseteq target
    BY <1>5, <2>1, <2>2, EnteringKept
  <2>4. Inside' = Inside \cup {s}
    BY <1>2, <1>9 DEF Inside
  <2> QED
    BY <2>3, <2>4
<1>11. /\ 1 \in DOMAIN stack /\ stack[1] = Top
       /\ s # Root => active[Parent[s]] = 1 /\ (IsOr(Parent[s]) => active_child[Parent[s]] = s)
  BY <1>1, <1>5, <1>8 DEF EntersInside, Moved
<1>12. Nested'
  <2>1. Above[s] \subseteq Inside
    <3>1. CASE s = Root
      BY <3>1 DEF TreeAssumption
    <3>2. CASE s # Root
      <4>1. Parent[s] \in Inside /\ Above[s] = Above[Parent[s]] \cup {Parent[s]}
        BY <1>2, <1>11, <3>2, LevelOfParent DEF Inside
      <4> QED
        BY <1>8, <4>1 DEF Nested
    <3> QED
      BY <3>1, <3>2
  <2> QED
    BY <1>1, <1>8, <1>10, <1>11, <2>1 DEF Nested
<1>13. Path' /\ Aimed'
  BY <1>1, <1>10 DEF IInv, Path, Aimed, targets
<1>14. EntersInside'
  <2>1. \A i \in DOMAIN stack' : stack'[i].fn # "enter_target_state"
    <3> SUFFICES ASSUME NEW i \in DOMAIN stack', stack'[i].fn = "enter_target_state" PROVE FALSE
      OBVIOUS
    <3>1. CASE i \in DOMAIN fs
      BY <1>5, <1>7, <3>1 DEF Moved
    <3>2. CASE i \notin DOMAIN fs
      <4>1. PICK k \in DOMAIN stack : k > 1 /\ stack'[i] = stack[k]
        BY <1>5, <3>2 DEF Moved
      <4> QED
        BY <1>8, <4>1 DEF EntersInside
    <3> QED
      BY <3>1, <3>2
  <2> QED
    BY <2>1 DEF EntersInside
<1>15. Complete'
  <2>1. ASSUME NEW t \in States, active'[t] = 1 PROVE CompleteAt(t)'
    <3>1. CASE t = s
      <4>1. Len(fs) \in DOMAIN stack' /\ stack'[Len(fs)] = next
        BY <1>5, <1>6, <1>7 DEF Moved
      <4>2. stack'[Len(fs)].fn = "entered" /\ stack'[Len(fs)].state = t
        BY <1>2, <3>1, <4>1
      <4>3. Resumes(t)'
        BY <4>1, <4>2 DEF Resumes
      <4> QED
        BY <4>3 DEF CompleteAt
    <3>2. CASE t # s
      <4>1. active[t] = 1
        BY <1>9, <2>1, <3>2
      <4>2. target' = target /\ target_child' = target_child /\ Top.fn \notin {"entered", "region"}
        BY <1>1 DEF targets
      <4> QED
        BY <1>5, <1>10, <4>1, <4>2, OthersComplete DEF IInv
    <3> QED
      BY <3>1, <3>2
  <2> QED
    BY <2>1 DEF Complete, CompleteAt
<1>16. EntersLast' /\ Levels'
  <2>1. EntersLast'
    <3>1. \A i, j \in DOMAIN fs : i < j /\ fs[i].fn \in Entering => fs[j].fn \in Entering
      <4>1. \A i, j \in DOMAIN fs : i < j => i # Len(fs)
        BY <1>6
      <4> QED
        BY <1>6, <4>1 DEF Entering
    <3>2. Top.fn \in Entering
      BY <1>1 DEF Entering
    <3> QED
      BY <1>5, <3>1, <3>2, EntersLastKept DEF IInv
  <2>2. \A i \in DOMAIN fs : fs[i].fn \in Restoring =>
            i = Len(fs) /\ fs[i].kept = level /\ Top.fn \notin Restoring
    BY <1>1, <1>7 DEF Restoring
  <2>3. \E i \in DOMAIN fs : fs[i].fn \in Restoring
    <3> HIDE DEF next
    <3> QED
      BY <1>2, <1>6, <1>7 DEF Restoring
  <2> QED
    BY <1>5, <2>1, <2>2, <2>3, LevelsKept DEF IInv
<1>17. Goal'
  <2>1. UNCHANGED <<goal, target>> /\ Top.fn \notin {"transit", "prepare_target_path"}
    BY <1>1 DEF targets
  <2> QED
    BY <1>5, <2>1, GoalKept DEF IInv
<1>18. Typed' /\ Counted'
  <2>1. Counted'
    BY <1>1, <1>9 DEF IInv, Counted, targets
  <2> QED
    BY <1>1, <1>2, <1>3, <1>5, <1>9, <2>1 DEF IInv, Typed, Moved, targets
<1> QED
  BY <1>10, <1>12, <1>13, <1>14, <1>15, <1>16, <1>17, <1>18 DEF IInv

\* Where an OR state goes by itself is a child of it.
LEMMA DefaultIsChild ==
    ASSUME TreeAssumption, Typed, NEW s \in States, IsOr(s)
    PROVE  IsChild(DefaultChild(s), s)
<1>1. Kids[s] \in Seq(States) /\ Kids[s] # <<>>
  BY DEF TreeAssumption, IsOr
<1>2. 1 \in DOMAIN Kids[s]
  BY <1>1
<1>3. IsChild(Kids[s][1], s)
  BY <1>2, ChildrenOf
<1>4. active_child[s] # NoState => IsChild(active_child[s], s)
  BY DEF Typed
<1> QED
  BY <1>3, <1>4 DEF DefaultChild

\* on__entry has returned: down into the one child
LEMMA EnteredOr ==
    ASSUME TreeAssumption, IInv, Entered, active[Top.state] = 1, IsOr(Top.state)
    PROVE  IInv'
<1> DEFINE s     == Top.state
           inner == IF target_child[s] # NoState THEN target_child[s] ELSE DefaultChild(s)
           down  == Frame("enter_target_state", inner, 0)
           fs    == <<down>>
<1>1. /\ stack # <<>> /\ Top.fn = "entered" /\ level' = Top.kept
      /\ IF target_child[s] # NoState THEN target_child[s] \in target ELSE DefaultChild(s) \notin target
      /\ IF inner \in target THEN UNCHANGED targets
         ELSE /\ set_target_flags({inner}, {})
              /\ target_child' = [target_child EXCEPT ![s] = inner]
      /\ active_child' = [active_child EXCEPT ![s] = inner]
      /\ Becomes(fs)
      /\ UNCHANGED <<flags, started, turn, continuation, asks, goal, saved, failed>>
  BY DEF Entered, Running, Asserts, Resumed
<1>2. /\ Typed /\ Nested /\ Path /\ Complete /\ target \in SUBSET States
      /\ target_count = Cardinality(target) /\ NoState \notin States
  BY DEF IInv, Typed, Counted, TreeAssumption
<1>3. s \in States /\ level' \in Int
  <2>1. Top \in Frames
    BY <1>1, <1>2 DEF Typed, Top
  <2> QED
    BY <1>1, <2>1, FramesFields DEF Restoring
<1>4. IsChild(inner, s) /\ inner \in States
  <2>1. IsChild(DefaultChild(s), s)
    BY <1>2, <1>3, DefaultIsChild
  <2>2. target_child[s] # NoState => IsChild(target_child[s], s)
    BY <1>2, <1>3 DEF Typed
  <2>3. IsChild(inner, s)
    BY <2>1, <2>2
  <2> QED
    BY <2>3 DEF IsChild
<1>5. inner \notin target => target_child[s] = NoState
  BY <1>1
<1>6. inner \in target => target_child[s] = inner
  BY <1>1
<1>7. active[s] = 1 /\ IsOr(s)
  OBVIOUS
<1>8. fs \in Seq(Frames) /\ Len(fs) = 1 /\ DOMAIN fs = {1} /\ fs[1].fn = "enter_target_state" /\ fs[1].state = inner
  <2>1. down \in Frames /\ down.fn = "enter_target_state" /\ down.state = inner
    BY <1>4 DEF Frame, Frames
  <2> HIDE DEF down, inner
  <2> QED
    BY <2>1
<1> HIDE DEF fs, inner, s
<1>9. Moved(fs)
  BY <1>1, <1>8, StackTyped
<1>10. /\ target' = target \cup {inner} /\ target' \in SUBSET States
       /\ target_count' = Cardinality(target') /\ target_count' \in Int
  <2>1. CASE inner \in target
    BY <1>1, <1>2, <2>1 DEF targets, Typed
  <2>2. CASE inner \notin target
    <3> DEFINE on  == {inner}
               off == {}
    <3>1. on \in SUBSET States /\ off \in SUBSET target /\ set_target_flags(on, off)
      BY <1>1, <1>4, <2>2
    <3> HIDE DEF on, off
    <3>2. /\ target' = (target \ off) \cup on /\ target' \in SUBSET States
          /\ target_count' = Cardinality(target') /\ target_count' \in Int
      BY <1>2, <3>1, TargetsSet
    <3> QED
      BY <3>2 DEF on, off
  <2> QED
    BY <2>1, <2>2
<1>11. /\ target_child' \in [States -> MaybeState] /\ target_child'[s] = inner
       /\ \A t \in States : t # s => target_child'[t] = target_child[t]
       /\ active_child' \in [States -> MaybeState] /\ active_child'[s] = inner
       /\ \A t \in States : t # s => active_child'[t] = active_child[t]
  <2>1. /\ target_child \in [States -> MaybeState] /\ active_child \in [States -> MaybeState]
        /\ inner \in MaybeState
    BY <1>2, <1>4 DEF Typed, MaybeState
  <2>2. active_child' \in [States -> MaybeState] /\ active_child'[s] = inner
        /\ \A t \in States : t # s => active_child'[t] = active_child[t]
    BY <1>1, <1>3, <2>1
  <2>3. CASE inner \in target
    BY <1>1, <1>3, <1>6, <2>1, <2>3, <2>2 DEF targets
  <2>4. CASE inner \notin target
    <3>1. target_child' = [target_child EXCEPT ![s] = inner]
      BY <1>1, <2>4
    <3>2. target_child' \in [States -> MaybeState] /\ target_child'[s] = inner
          /\ \A t \in States : t # s => target_child'[t] = target_child[t]
      BY <1>3, <2>1, <3>1
    <3> QED
      BY <2>2, <3>2
  <2> QED
    BY <2>3, <2>4
<1>12. UNCHANGED <<active, active_count>> /\ Inside' = Inside
  BY <1>1 DEF flags, Inside
<1>13. /\ ExitsOnce' /\ ChildrenFirst' /\ \A t : ~ Doomed(t)
       /\ Inside \subseteq target
  <2>1. Top.fn \in Entering /\ \A i \in DOMAIN fs : fs[i].fn \in Entering \cup {"transit", "terminate"}
    BY <1>1, <1>8 DEF Entering
  <2> QED
    BY <1>9, <1>12, <2>1, EnteringKept
<1>14. s \in Inside /\ s \in target /\ Above[s] \subseteq target
  <2>1. s \in Inside
    BY <1>3, <1>7 DEF Inside
  <2> QED
    BY <1>2, <1>13, <2>1 DEF Path
<1>15. Path'
  <2>1. ASSUME NEW v \in target', NEW w \in Above[v] PROVE w \in target'
    <3>1. CASE v = inner
      BY <1>4, <1>10, <1>14, <2>1, <3>1, AboveChild
    <3>2. CASE v # inner
      BY <1>2, <1>10, <2>1, <3>2 DEF Path
    <3> QED
      BY <3>1, <3>2
  <2>2. ASSUME NEW v \in target', v # Root, IsOr(Parent[v]) PROVE target_child'[Parent[v]] = v
    <3>1. CASE v = inner
      BY <1>4, <1>11, <3>1 DEF IsChild
    <3>2. CASE v # inner
      <4>1. v \in target /\ target_child[Parent[v]] = v /\ v \in States /\ Parent[v] \in States
        BY <1>2, <1>10, <2>2, <3>2, LevelOfParent DEF Path
      <4>2. Parent[v] # s
        <5> SUFFICES ASSUME Parent[v] = s PROVE FALSE
          OBVIOUS
        <5>1. target_child[s] = v
          BY <4>1
        <5> QED
          BY <1>2, <1>5, <1>6, <3>2, <4>1, <5>1
      <4> QED
        BY <1>11, <4>1, <4>2
    <3> QED
      BY <3>1, <3>2
  <2> QED
    BY <2>1, <2>2 DEF Path
<1>16. Nested'
  <2>1. ASSUME NEW t \in Inside, t # Root, IsOr(Parent[t]) PROVE active_child'[Parent[t]] = t
    <3>1. t \in States /\ Parent[t] \in States /\ active_child[Parent[t]] = t /\ t \in target
      BY <1>2, <1>13, <2>1, LevelOfParent DEF Nested, Inside
    <3>2. CASE Parent[t] = s
      <4>1. target_child[s] = t
        BY <1>2, <2>1, <3>1, <3>2 DEF Path
      <4>2. t = inner
        BY <1>2, <1>5, <1>6, <3>1, <4>1
      <4> QED
        BY <1>11, <3>2, <4>2
    <3>3. CASE Parent[t] # s
      BY <1>11, <3>1, <3>3
    <3> QED
      BY <3>2, <3>3
  <2> QED
    BY <1>2, <1>12, <2>1 DEF Nested
<1>17. Aimed'
  BY <1>10, <1>12, <1>13 DEF Aimed
<1>18. EntersInside'
  <2>1. \A i \in DOMAIN stack' : i \notin DOMAIN fs => stack'[i].fn # "enter_target_state"
    BY <1>1, <1>9, NotEntering DEF IInv
  <2>2. \A i \in DOMAIN stack' : stack'[i].fn = "enter_target_state" => i = 1 /\ stack'[i].state = inner
    BY <1>8, <1>9, <2>1 DEF Moved
  <2>3. active'[Parent[inner]] = 1 /\ active_child'[Parent[inner]] = inner
    BY <1>4, <1>7, <1>11, <1>12 DEF IsChild
  <2> QED
    BY <2>2, <2>3 DEF EntersInside
<1>19. Complete'
  <2>1. ASSUME NEW t \in States, active'[t] = 1 PROVE CompleteAt(t)'
    <3>1. CASE t = s
      <4>1. target_child'[t] \in target' /\ ~ IsAnd(t)
        BY <1>7, <1>10, <1>11, <3>1 DEF IsAnd, IsOr
      <4> QED
        BY <4>1 DEF CompleteAt
    <3>2. CASE t # s
      <4>1. /\ active[t] = 1 /\ target \subseteq target' /\ target_child'[t] = target_child[t]
            /\ Top.state # t
        BY <1>10, <1>11, <1>12, <2>1, <3>2 DEF s
      <4> QED
        BY <1>2, <1>9, <1>13, <4>1, OthersComplete
    <3> QED
      BY <3>1, <3>2
  <2> QED
    BY <2>1 DEF Complete, CompleteAt
<1>20. EntersLast' /\ Levels'
  <2>1. EntersLast'
    BY <1>1, <1>8, <1>9, EntersLastKept DEF IInv, Entering
  <2>2. \A i \in DOMAIN fs : fs[i].fn \notin Restoring
    BY <1>8 DEF Restoring
  <2>3. Top.fn \in Restoring /\ level' = Top.kept
    BY <1>1 DEF Restoring
  <2> QED
    BY <1>9, <2>1, <2>2, <2>3, LevelsKept DEF IInv
<1>21. Goal'
  <2>1. goal = NoState => target = {}
    BY DEF IInv, Goal
  <2>2. goal # NoState => goal \in target
    <3>1. \A i \in DOMAIN stack : stack[i].fn \notin {"transit", "prepare_target_path"}
      BY <1>1, <1>9, NothingLeaving DEF IInv, Entering
    <3> QED
      BY <3>1 DEF IInv, Goal
  <2> QED
    BY <1>1, <1>10, <1>14, <2>1, <2>2 DEF Goal
<1>22. Typed' /\ Counted'
  <2>1. Counted'
    BY <1>10, <1>12 DEF IInv, Counted
  <2>2. /\ \A t \in States : active_child'[t] = NoState \/ IsChild(active_child'[t], t)
        /\ \A t \in States : target_child'[t] = NoState \/ IsChild(target_child'[t], t)
    <3>1. ASSUME NEW t \in States
          PROVE  /\ active_child'[t] = NoState \/ IsChild(active_child'[t], t)
                 /\ target_child'[t] = NoState \/ IsChild(target_child'[t], t)
      BY <1>2, <1>4, <1>11 DEF Typed
    <3> QED
      BY <3>1
  <2> QED
    BY <1>1, <1>3, <1>9, <1>10, <1>11, <1>12, <2>1, <2>2 DEF IInv, Typed, Moved
<1> QED
  BY <1>13, <1>15, <1>16, <1>17, <1>18, <1>19, <1>20, <1>21, <1>22 DEF IInv

\* on__entry has returned: into the first region, or back
LEMMA EnteredStep == ASSUME TreeAssumption, IInv, Entered PROVE IInv'
<1> DEFINE s == Top.state
           into == Frame("region", s, 1)
           fs == IF active[s] = 1 /\ IsAnd(s) THEN <<into>> ELSE <<>>
<1>1. CASE active[s] = 1 /\ IsOr(s)
  BY <1>1, EnteredOr
<1>2. CASE ~ (active[s] = 1 /\ IsOr(s))
  <2>1. /\ stack # <<>> /\ Top.fn = "entered" /\ level' = Top.kept /\ Becomes(fs)
        /\ UNCHANGED <<flags, targets, active_child, started, turn, continuation, asks, goal, saved, failed>>
    BY <1>2 DEF Entered, Running, Resumed
  <2>2. s \in States /\ level' \in Int
    <3>1. Top \in Frames
      BY <2>1 DEF IInv, Typed, Top
    <3> QED
      BY <2>1, <3>1, FramesFields DEF Restoring
  <2>3. IsAnd(s) => into \in Frames /\ into.fn = "region" /\ into.state = s /\ into.kept = 1
    BY <2>2 DEF Frame, Frames
  <2>4. /\ fs \in Seq(Frames) /\ \A i \in DOMAIN fs : fs[i].fn = "region"
        /\ active[s] = 1 /\ IsAnd(s) =>
             1 \in DOMAIN fs /\ fs[1].fn = "region" /\ fs[1].state = s /\ fs[1].kept = 1
    <3>1. CASE active[s] = 1 /\ IsAnd(s)
      <4>1. fs = <<into>>
        BY <3>1
      <4> HIDE DEF fs, into
      <4> QED
        BY <2>3, <3>1, <4>1
    <3>2. CASE ~ (active[s] = 1 /\ IsAnd(s))
      BY <3>2
    <3> QED
      BY <3>1, <3>2
  <2> HIDE DEF fs
  <2>5. Moved(fs)
    BY <2>1, <2>4, StackTyped
  <2>6. UNCHANGED <<active, active_count, target, target_count, target_child>> /\ Inside' = Inside
    BY <2>1 DEF flags, targets, Inside
  <2>7. /\ ExitsOnce' /\ ChildrenFirst' /\ \A t : ~ Doomed(t)
        /\ Inside \subseteq target
    <3>1. Top.fn \in Entering /\ \A i \in DOMAIN fs : fs[i].fn \in Entering \cup {"transit", "terminate"}
      BY <2>1, <2>4 DEF Entering
    <3> QED
      BY <2>5, <2>6, <3>1, EnteringKept
  <2>8. Nested' /\ Path' /\ Aimed' /\ Counted'
    BY <2>1, <2>6, <2>7 DEF IInv, Nested, Path, Aimed, Counted
  <2>9. EntersInside'
    <3>1. \A i \in DOMAIN stack' : i \notin DOMAIN fs => stack'[i].fn # "enter_target_state"
      BY <2>1, <2>5, NotEntering DEF IInv
    <3>2. \A i \in DOMAIN stack' : stack'[i].fn # "enter_target_state"
      BY <2>4, <2>5, <3>1 DEF Moved
    <3> QED
      BY <3>2 DEF EntersInside
  <2>10. Complete'
    <3>1. ASSUME NEW t \in States, active'[t] = 1 PROVE CompleteAt(t)'
      <4>1. CASE t = s
        <5>1. ~ IsOr(t)
          BY <1>2, <2>6, <3>1, <4>1
        <5>2. ASSUME IsAnd(t) PROVE Regions(t)'
          <6>1. 1 \in DOMAIN stack' /\ stack'[1].fn = "region" /\ stack'[1].state = t /\ stack'[1].kept = 1
            BY <2>4, <2>5, <2>6, <3>1, <4>1, <5>2 DEF Moved
          <6>2. \A m \in DOMAIN Kids[t] : ~ (m < 1)
            <7>1. Kids[t] \in Seq(States)
              BY DEF TreeAssumption
            <7> QED
              BY <7>1
          <6> QED
            BY <6>1, <6>2 DEF Regions
        <5> QED
          BY <5>1, <5>2 DEF CompleteAt
      <4>2. CASE t # s
        <5>1. active[t] = 1 /\ target \subseteq target' /\ target_child'[t] = target_child[t]
          BY <2>6, <3>1
        <5> QED
          BY <2>5, <2>7, <4>2, <5>1, OthersComplete DEF IInv
      <4> QED
        BY <4>1, <4>2
    <3> QED
      BY <3>1 DEF Complete, CompleteAt
  <2>11. EntersLast' /\ Levels'
    <3>1. EntersLast'
      BY <2>1, <2>4, <2>5, EntersLastKept DEF IInv, Entering
    <3>2. \A i \in DOMAIN fs : fs[i].fn \notin Restoring
      BY <2>4 DEF Restoring
    <3>3. Top.fn \in Restoring /\ level' = Top.kept
      BY <2>1 DEF Restoring
    <3> QED
      BY <2>5, <3>1, <3>2, <3>3, LevelsKept DEF IInv
  <2>12. Goal'
    <3>1. UNCHANGED <<goal, target>> /\ Top.fn \notin {"transit", "prepare_target_path"}
      BY <2>1, <2>6
    <3> QED
      BY <2>5, <3>1, GoalKept DEF IInv
  <2>13. Typed'
    BY <2>1, <2>2, <2>5, <2>6 DEF IInv, Typed, Moved
  <2> QED
    BY <2>7, <2>8, <2>9, <2>10, <2>11, <2>12, <2>13 DEF IInv
<1> QED
  BY <1>1, <1>2

\* the next region of an AND state, or back after the last one
LEMMA RegionStep == ASSUME TreeAssumption, IInv, Region PROVE IInv'
<1> DEFINE s    == Top.state
           i    == Top.kept
           in   == active[s] = 1 /\ i <= Len(Kids[s])
           c    == Kids[s][i]
           down == Frame("enter_target_state", c, 0)
           more == Frame("region", s, i + 1)
           fs   == IF in THEN <<down, more>> ELSE <<>>
           on   == IF in THEN {c} ELSE {}
<1>1. /\ stack # <<>> /\ Top.fn = "region"
      /\ IF in THEN set_target_flags({c}, {}) /\ Becomes(<<down, more>>)
         ELSE Becomes(<<>>) /\ UNCHANGED <<target, target_count>>
      /\ UNCHANGED <<flags, target_child, active_child, level, started, turn, continuation,
                     asks, goal, saved, failed>>
  BY DEF Region, Running
<1>2. /\ Typed /\ Nested /\ Path /\ Complete /\ target \in SUBSET States
      /\ target_count = Cardinality(target) /\ NoState \notin States
  BY DEF IInv, Typed, Counted, TreeAssumption
<1>3. s \in States /\ IsAnd(s) /\ ~ IsOr(s) /\ i \in Nat \ {0}
  <2>1. Top \in Frames
    BY <1>1, <1>2 DEF Typed, Top
  <2>2. s \in States /\ IsAnd(s) /\ i \in Nat \ {0}
    BY <1>1, <2>1, FramesFields
  <2> HIDE DEF s
  <2> QED
    BY <2>2 DEF IsAnd, IsOr
<1> HIDE DEF s, i
<1>4. /\ Kids[s] \in Seq(States) /\ ToSet(Kids[s]) = {t \in States : IsChild(t, s)}
      /\ DOMAIN Kids[s] = 1..Len(Kids[s]) /\ Len(Kids[s]) \in Nat
      /\ \A m \in DOMAIN Kids[s] : IsChild(Kids[s][m], s)
  BY <1>3, ChildrenOf
<1>5. in => c \in States /\ IsChild(c, s)
  <2>1. in => i \in DOMAIN Kids[s]
    BY <1>3, <1>4
  <2> QED
    BY <1>4, <2>1 DEF IsChild
<1>6. in => /\ down \in Frames /\ down.fn = "enter_target_state" /\ down.state = c
            /\ more \in Frames /\ more.fn = "region" /\ more.state = s /\ more.kept = i + 1
  <2>1. i + 1 \in Nat \ {0}
    BY <1>3
  <2> HIDE DEF c, in
  <2> QED
    BY <1>3, <1>5, <2>1 DEF Frame, Frames
<1>7. /\ fs \in Seq(Frames) /\ Becomes(fs)
      /\ in => DOMAIN fs = {1, 2} /\ fs[1] = down /\ fs[2] = more
      /\ ~ in => DOMAIN fs = {}
  <2>1. CASE in
    <3>1. fs = <<down, more>>
      BY <2>1
    <3> HIDE DEF fs, down, more, in
    <3> QED
      BY <1>1, <1>6, <2>1, <3>1
  <2>2. CASE ~ in
    <3>1. fs = <<>>
      BY <2>2
    <3> HIDE DEF fs, down, more, in
    <3> QED
      BY <1>1, <2>2, <3>1
  <2> QED
    BY <2>1, <2>2
<1> HIDE DEF fs, down, more, c
<1>8. Moved(fs)
  BY <1>1, <1>7, StackTyped
<1>9. /\ \A k \in DOMAIN fs : fs[k].fn \in {"enter_target_state", "region"}
      /\ \A k \in DOMAIN fs : fs[k].fn = "enter_target_state" => in /\ k = 1 /\ fs[k].state = c
  <2> HIDE DEF in
  <2> QED
    BY <1>6, <1>7
<1>10. /\ target' = target \cup on /\ target' \in SUBSET States
       /\ target_count' = Cardinality(target') /\ target_count' \in Int
  <2>1. CASE ~ in
    BY <1>1, <1>2, <2>1 DEF Typed
  <2>2. CASE in
    <3> DEFINE off == {}
    <3>1. on \in SUBSET States /\ off \in SUBSET target /\ set_target_flags(on, off)
      BY <1>1, <1>5, <2>2
    <3> HIDE DEF on, off
    <3>2. /\ target' = (target \ off) \cup on /\ target' \in SUBSET States
          /\ target_count' = Cardinality(target') /\ target_count' \in Int
      BY <1>2, <3>1, TargetsSet
    <3> QED
      BY <3>2 DEF off
  <2> QED
    BY <2>1, <2>2
<1>11. UNCHANGED <<active, active_count, target_child, active_child>> /\ Inside' = Inside
  BY <1>1 DEF flags, Inside
<1>12. /\ ExitsOnce' /\ ChildrenFirst' /\ \A t : ~ Doomed(t)
       /\ Inside \subseteq target
  <2>1. Top.fn \in Entering /\ \A k \in DOMAIN fs : fs[k].fn \in Entering \cup {"transit", "terminate"}
    BY <1>1, <1>9 DEF Entering
  <2> QED
    BY <1>8, <1>11, <2>1, EnteringKept
<1>13. in => s \in Inside /\ s \in target /\ Above[s] \subseteq target
  <2>1. in => s \in Inside
    BY <1>3 DEF Inside
  <2> QED
    BY <1>2, <1>12, <2>1 DEF Path
<1>14. Path'
  <2>1. ASSUME NEW v \in target', NEW w \in Above[v] PROVE w \in target'
    <3>1. CASE v \in target
      BY <1>2, <1>10, <2>1, <3>1 DEF Path
    <3>2. CASE v \notin target
      <4>1. in /\ v = c
        BY <1>10, <3>2
      <4>2. Above[v] = Above[s] \cup {s}
        BY <1>5, <4>1, AboveChild
      <4> QED
        BY <1>10, <1>13, <2>1, <4>1, <4>2
    <3> QED
      BY <3>1, <3>2
  <2>2. ASSUME NEW v \in target', v # Root, IsOr(Parent[v]) PROVE target_child'[Parent[v]] = v
    <3>1. v \in target
      <4> SUFFICES ASSUME v \notin target PROVE FALSE
        OBVIOUS
      <4>1. in /\ v = c
        BY <1>10
      <4>2. Parent[v] = s
        BY <1>5, <4>1 DEF IsChild
      <4> QED
        BY <1>3, <2>2, <4>2
    <3> QED
      BY <1>2, <1>11, <2>2, <3>1 DEF Path
  <2> QED
    BY <2>1, <2>2 DEF Path
<1>15. Nested' /\ Aimed'
  BY <1>2, <1>10, <1>11, <1>12 DEF Nested, Aimed
<1>16. EntersInside'
  <2>1. \A k \in DOMAIN stack' : k \notin DOMAIN fs => stack'[k].fn # "enter_target_state"
    BY <1>1, <1>8, NotEntering DEF IInv
  <2>2. \A k \in DOMAIN stack' : stack'[k].fn = "enter_target_state" => in /\ k = 1 /\ stack'[k].state = c
    BY <1>8, <1>9, <2>1 DEF Moved
  <2>3. in => active'[Parent[c]] = 1 /\ ~ IsOr(Parent[c])
    BY <1>3, <1>5, <1>11 DEF IsChild
  <2> QED
    BY <2>2, <2>3 DEF EntersInside
<1>17. Complete'
  <2>1. ASSUME NEW t \in States, active'[t] = 1 PROVE CompleteAt(t)'
    <3>1. /\ active[t] = 1 /\ target \subseteq target' /\ target_child'[t] = target_child[t]
      BY <1>10, <1>11, <2>1
    <3>2. CASE t # s
      <4>1. Top.state # t
        BY <3>2 DEF s
      <4> QED
        BY <1>2, <1>8, <1>12, <3>1, <4>1, OthersComplete
    <3>3. CASE t = s
      <4>1. IsAnd(t) /\ ~ IsOr(t)
        BY <1>3, <3>3
      <4>2. ToSet(Kids[s]) \subseteq target \/ Resumes(s) \/ Regions(s)
        BY <1>2, <1>3, <1>12, <3>1, <3>3 DEF Complete
      <4>3. CASE ToSet(Kids[s]) \subseteq target
        BY <1>3, <3>1, <3>3, <4>3 DEF CompleteAt
      <4>4. CASE Resumes(s)
        <5>1. Resumes(t)
          BY <3>3, <4>4
        <5>2. Resumes(t)'
          BY <1>1, <1>8, <5>1, ResumesKept
        <5> QED
          BY <5>2, <4>1 DEF CompleteAt
      <4>5. CASE Regions(s)
        <5>1. PICK k \in DOMAIN stack :
                 /\ stack[k].fn = "region" /\ stack[k].state = s
                 /\ \A m \in DOMAIN Kids[s] : m < stack[k].kept => Kids[s][m] \in target
          BY <4>5 DEF Regions
        <5>2. CASE k # 1
          <6>1. k > 1
            BY <1>8, <5>2 DEF Moved
          <6>2. PICK j \in DOMAIN stack' : stack'[j] = stack[k]
            BY <1>8, <6>1 DEF Moved
          <6>3. /\ stack'[j].fn = "region" /\ stack'[j].state = t
                /\ \A m \in DOMAIN Kids[t] : m < stack'[j].kept => Kids[t][m] \in target'
            BY <3>1, <3>3, <5>1, <6>2
          <6>4. Regions(t)'
            BY <6>2, <6>3 DEF Regions
          <6> QED
            BY <4>1, <6>4 DEF CompleteAt
        <5>3. CASE k = 1
          <6>1. stack[k].kept = i
            BY <1>8, <5>3 DEF Moved, i
          <6>2. \A m \in DOMAIN Kids[s] : m < i => Kids[s][m] \in target
            BY <5>1, <6>1
          <6>3. CASE in
            <7>1. 2 \in DOMAIN stack' /\ stack'[2] = more
              BY <1>7, <1>8, <6>3 DEF Moved
            <7>2. stack'[2].fn = "region" /\ stack'[2].state = s /\ stack'[2].kept = i + 1
              BY <1>6, <6>3, <7>1
            <7>3. \A m \in DOMAIN Kids[s] : m < i + 1 => Kids[s][m] \in target'
              <8> SUFFICES ASSUME NEW m \in DOMAIN Kids[s], m < i + 1 PROVE Kids[s][m] \in target'
                OBVIOUS
              <8>1. m < i \/ m = i
                BY <1>3, <1>4
              <8>2. Kids[s][i] \in target'
                BY <1>10, <6>3 DEF c
              <8> QED
                BY <3>1, <6>2, <8>1, <8>2
            <7>4. Regions(t)'
              BY <3>3, <7>1, <7>2, <7>3 DEF Regions
            <7> QED
              BY <4>1, <7>4 DEF CompleteAt
          <6>4. CASE ~ in
            <7>1. ~ (i <= Len(Kids[s]))
              BY <3>1, <3>3, <6>4
            <7>2. \A m \in DOMAIN Kids[s] : Kids[s][m] \in target
              BY <1>3, <1>4, <6>2, <7>1
            <7>3. ToSet(Kids[s]) \subseteq target
              BY <7>2 DEF ToSet
            <7> QED
              BY <1>3, <3>1, <3>3, <7>3 DEF CompleteAt
          <6> QED
            BY <6>3, <6>4
        <5> QED
          BY <5>2, <5>3
      <4> QED
        BY <4>2, <4>3, <4>4, <4>5
    <3> QED
      BY <3>2, <3>3
  <2> QED
    BY <2>1 DEF Complete, CompleteAt
<1>18. EntersLast' /\ Levels'
  <2>1. EntersLast'
    BY <1>1, <1>8, <1>9, EntersLastKept DEF IInv, Entering
  <2>2. \A k \in DOMAIN fs : fs[k].fn \notin Restoring
    BY <1>9 DEF Restoring
  <2>3. Top.fn \notin Restoring /\ level' = level
    BY <1>1 DEF Restoring
  <2> QED
    BY <1>8, <2>1, <2>2, <2>3, LevelsKept DEF IInv
<1>19. Goal'
  <2>1. goal = NoState => target = {} /\ ~ in
    BY <1>13 DEF IInv, Goal
  <2>2. goal # NoState => goal \in target
    <3>1. \A k \in DOMAIN stack : stack[k].fn \notin {"transit", "prepare_target_path"}
      BY <1>1, <1>8, NothingLeaving DEF IInv, Entering
    <3> QED
      BY <3>1 DEF IInv, Goal
  <2> QED
    BY <1>1, <1>10, <2>1, <2>2 DEF Goal
<1>20. Typed' /\ Counted'
  BY <1>1, <1>8, <1>10, <1>11 DEF IInv, Typed, Counted, Moved
<1> QED
  BY <1>12, <1>14, <1>15, <1>16, <1>17, <1>18, <1>19, <1>20 DEF IInv

\* history_child_ refuses a state that is in, and so does what it clears
LEMMA history_child_Step == ASSUME TreeAssumption, IInv, history_child_ PROVE IInv'
<1> DEFINE s     == Top.state
           child == Top.kept
           set   == SetsHistory(s, child)
           deep  == ClearsDeep(s, child)
<1>1. /\ stack # <<>> /\ Top.fn = "history_child_" /\ Becomes(<<>>)
      /\ deep => \A t \in Cleared(s) : active[t] = 0
      /\ active_child' =
            [t \in States |->
                IF deep /\ t \in Cleared(s) /\ histype(t) = INHERITED THEN NoState
                ELSE IF set /\ t = s THEN child
                ELSE active_child[t]]
      /\ UNCHANGED <<flags, targets, level, started, turn, continuation, asks, goal, saved, failed>>
  BY DEF history_child_, Running, Asserts
<1>2. /\ Typed /\ Nested /\ NoState \notin States /\ <<>> \in Seq(Frames) /\ DOMAIN <<>> = {}
  BY DEF IInv, TreeAssumption
<1>3. s \in States /\ child \in MaybeState
  <2>1. Top \in Frames
    BY <1>1, <1>2 DEF Typed, Top
  <2> QED
    BY <1>1, <2>1, FramesFields
<1>4. Moved(<<>>)
  BY <1>1, <1>2, StackTyped
<1>5. set => active[s] = 0 /\ (child # NoState => IsChild(child, s))
  <2>1. set => active[s] = 0 /\ (child # NoState => ParentOf(child) = s)
    BY DEF SetsHistory, CanSetHistory
  <2> HIDE DEF s, child, set
  <2> QED
    BY <1>2, <1>3, <2>1 DEF ParentOf, IsChild, MaybeState
<1> HIDE DEF s, child, set, deep
<1>6. \A t \in States :
        \/ active_child'[t] = active_child[t]
        \/ active[t] = 0 /\ (active_child'[t] = NoState \/ IsChild(active_child'[t], t))
  BY <1>1, <1>5
<1>7. /\ active_child' \in [States -> MaybeState]
      /\ \A t \in States : active_child'[t] = NoState \/ IsChild(active_child'[t], t)
  <2>1. /\ active_child \in [States -> MaybeState] /\ NoState \in MaybeState
        /\ \A t \in States : active_child[t] = NoState \/ IsChild(active_child[t], t)
    BY <1>2 DEF Typed, MaybeState
  <2> QED
    BY <1>1, <1>3, <1>6, <2>1
<1>8. UNCHANGED <<active, active_count, target, target_count, target_child>> /\ Inside' = Inside
  BY <1>1 DEF flags, targets, Inside
<1>9. Nested'
  <2>1. ASSUME NEW t \in Inside, t # Root, IsOr(Parent[t]) PROVE active_child'[Parent[t]] = t
    <3>1. Parent[t] \in States /\ Parent[t] \in Above[t]
      BY <2>1, LevelOfParent DEF Inside
    <3>2. active[Parent[t]] # 0
      <4>1. Parent[t] \in Inside
        BY <1>2, <2>1, <3>1 DEF Nested
      <4> QED
        BY <4>1 DEF Inside
    <3>3. active_child[Parent[t]] = t
      BY <1>2, <2>1 DEF Nested
    <3> QED
      BY <1>6, <3>1, <3>2, <3>3
  <2> QED
    BY <1>2, <1>8, <2>1 DEF Nested
<1>10. \A t : Doomed(t) => Doomed(t)'
  BY <1>1, <1>4, DoomedKept DEF Leaving
<1>11. ExitsOnce' /\ ChildrenFirst'
  <2>1. \A i \in DOMAIN stack : stack[i].state \in States
    BY <1>2, FramesFields DEF Typed
  <2>2. active' = active /\ Top.fn \notin {"exit_state", "on__exit"}
    BY <1>1, <1>8
  <2> QED
    BY <1>2, <1>4, <2>1, <2>2, ExitsKept DEF IInv
<1>12. Aimed' /\ Complete'
  <2>1. Aimed'
    BY <1>8, <1>10, AimedKept DEF IInv
  <2>2. Complete'
    BY <1>1, <1>4, <1>8, <1>10, CompleteKept DEF IInv
  <2> QED
    BY <2>1, <2>2
<1>13. EntersInside'
  <2>1. \A i \in DOMAIN stack' : stack'[i].fn # "enter_target_state"
    BY <1>1, <1>2, <1>4, NotEntering DEF IInv
  <2> QED
    BY <2>1 DEF EntersInside
<1>14. Levels' /\ EntersLast' /\ Goal'
  <2>1. Levels' /\ EntersLast'
    BY <1>1, <1>2, <1>4, LevelsKept, EntersLastKept DEF IInv, Restoring
  <2>2. Goal'
    BY <1>1, <1>4, <1>8, GoalKept DEF IInv
  <2> QED
    BY <2>1, <2>2
<1>15. Typed' /\ Counted' /\ Path'
  BY <1>1, <1>4, <1>7, <1>8 DEF IInv, Typed, Counted, Path, Moved
<1> QED
  BY <1>9, <1>11, <1>12, <1>13, <1>14, <1>15 DEF IInv

-------------------------------------------------------------------------------
(* At rest: no call is under way.                                              *)

\* what IInv says then
AtRest ==
    /\ Typed /\ Counted /\ Nested /\ Path /\ level = 0
    /\ Inside \subseteq target /\ Inside = Configuration
    /\ \A s \in Configuration :
         /\ IsOr(s) => target_child[s] \in target
         /\ IsAnd(s) => ToSet(Kids[s]) \subseteq target
    /\ IF goal = NoState THEN target = {} ELSE goal \in target

\* The invariant of a machine with no call under way.
LEMMA RestIs == ASSUME IInv, stack = <<>> PROVE AtRest
<1>1. DOMAIN stack = {}
  OBVIOUS
<1>2. (\A s : ~ Doomed(s) /\ ~ Resumes(s) /\ ~ Regions(s)) /\ level = 0
  BY <1>1 DEF Doomed, Resumes, Regions, IInv, Levels
<1>3. \A s \in States : active[s] # -1
  BY <1>1 DEF IInv, ExitsOnce
<1>4. Inside = Configuration
  BY <1>3 DEF Inside, Configuration
<1>5. Inside \subseteq target
  BY <1>2 DEF IInv, Aimed
<1>6. ASSUME NEW s \in Configuration
      PROVE  /\ IsOr(s) => target_child[s] \in target
             /\ IsAnd(s) => ToSet(Kids[s]) \subseteq target
  <2>1. s \in States /\ active[s] = 1
    BY DEF Configuration
  <2> QED
    BY <1>2, <2>1 DEF IInv, Complete
<1>7. IF goal = NoState THEN target = {} ELSE goal \in target
  BY <1>1 DEF IInv, Goal
<1> QED
  BY <1>2, <1>4, <1>5, <1>6, <1>7 DEF IInv, AtRest

\* calls that may be made at rest
Starting == {"transit", "terminate", "history_child_", "enter_stable_state"}

\* A machine at rest that is called.
LEMMA FromRest ==
    ASSUME TreeAssumption, AtRest, stack' \in Seq(Frames),
           \A i \in DOMAIN stack' : stack'[i].fn \in Starting,
           \A i, j \in DOMAIN stack' : i < j => stack'[i].fn # "enter_stable_state",
           UNCHANGED <<flags, targets, active_child, level, started, goal, failed>>,
           turn' \in {"handler", "continuation"}, continuation' \in BOOLEAN,
           asks' \in 0..MaxAsks
    PROVE  IInv'
<1>1. UNCHANGED <<active, active_count, target, target_count, target_child>>
      /\ Inside' = Inside /\ Configuration' = Configuration
  BY DEF flags, targets, Inside, Configuration
<1>2. \A i \in DOMAIN stack' :
         /\ stack'[i].fn \notin Restoring /\ stack'[i].fn # "on__exit"
         /\ stack'[i].fn # "enter_target_state"
         /\ stack'[i].fn \in Entering => stack'[i].fn = "enter_stable_state"
  BY DEF Starting, Restoring, Entering
<1>3. Typed' /\ Counted' /\ Nested' /\ Path'
  BY <1>1 DEF AtRest, Typed, Counted, Nested, Path
<1>4. Levels'
  BY <1>2 DEF AtRest, Levels, Restoring
<1>5. EntersLast'
  BY <1>2 DEF EntersLast, Entering
<1>6. EntersInside'
  BY <1>2 DEF EntersInside
<1>7. ExitsOnce' /\ ChildrenFirst'
  <2>1. \A s \in States : active'[s] # -1
    <3>1. \A s \in Inside : active[s] = 1
      BY DEF AtRest, Configuration
    <3> QED
      BY <1>1, <3>1 DEF Inside
  <2> QED
    BY <1>2, <2>1 DEF ExitsOnce, ChildrenFirst
<1>8. Aimed'
  BY <1>1 DEF AtRest, Aimed
<1>9. Complete'
  <2>1. ASSUME NEW s \in States, active'[s] = 1
        PROVE  /\ IsOr(s) => target_child'[s] \in target'
               /\ IsAnd(s) => ToSet(Kids[s]) \subseteq target'
    <3>1. s \in Configuration
      BY <1>1, <2>1 DEF Configuration
    <3> QED
      BY <1>1, <3>1 DEF AtRest
  <2> QED
    BY <2>1 DEF Complete
<1>10. Goal'
  BY <1>1 DEF AtRest, Goal
<1> QED
  BY <1>3, <1>4, <1>5, <1>6, <1>7, <1>8, <1>9, <1>10 DEF IInv

\* One call of a machine at rest.
LEMMA OneCall ==
    ASSUME NEW f \in Frames, f.fn \in Starting, stack' = <<f>>
    PROVE  /\ stack' \in Seq(Frames)
           /\ \A i \in DOMAIN stack' : stack'[i].fn \in Starting
           /\ \A i, j \in DOMAIN stack' : i < j => stack'[i].fn # "enter_stable_state"
OBVIOUS

\* What a handler asks of a machine at rest, and the continuation.
LEMMA CallStep ==
    ASSUME TreeAssumption, CallsAssumption, IInv, Call \/ EnterNow \/ SetHistory \/ Continue
    PROVE  IInv'
<1>1. /\ stack = <<>>
      /\ UNCHANGED <<flags, targets, active_child, level, started, goal, failed>>
  BY DEF Call, EnterNow, SetHistory, Continue, InHandler, Idle
<1>2. AtRest
  BY <1>1, RestIs
<1>3. asks' \in 0..MaxAsks /\ turn' \in {"handler", "continuation"} /\ continuation' \in BOOLEAN
  <2>1. asks' = 0 \/ UNCHANGED asks
    BY DEF Call, EnterNow, SetHistory, Continue, Asks
  <2>2. MaxAsks \in Nat /\ asks \in 0..MaxAsks
    BY <1>2 DEF CallsAssumption, AtRest, Typed
  <2>3. asks' \in 0..MaxAsks
    BY <2>1, <2>2
  <2>4. turn \in {"handler", "continuation"} /\ continuation \in BOOLEAN
    BY <1>2 DEF AtRest, Typed
  <2>5. turn' \in {"handler", "continuation"} /\ continuation' \in BOOLEAN
    <3>1. CASE Call \/ EnterNow \/ SetHistory
      BY <2>4, <3>1 DEF Call, EnterNow, SetHistory
    <3>2. CASE Continue
      BY <3>2 DEF Continue
    <3> QED
      BY <3>1, <3>2
  <2> QED
    BY <2>3, <2>5
<1>4. \E f \in Frames : f.fn \in Starting /\ stack' = <<f>>
  <2>1. CASE Call
    <3>1. PICK cmd \in Calls : stack' = <<Command(cmd)>>
      BY <2>1 DEF Call, Asks
    <3>2. cmd \in Commands
      BY <3>1 DEF CallsAssumption
    <3> QED
      BY <3>1, <3>2, CommandFrame DEF Starting
  <2>2. CASE EnterNow
    <3> DEFINE f == Frame("enter_stable_state", Root, "settled")
    <3>1. f \in Frames /\ f.fn \in Starting
      BY DEF TreeAssumption, Frame, Frames, Starting
    <3>2. stack' = <<f>>
      BY <2>2 DEF EnterNow, Asks
    <3> HIDE DEF f
    <3> QED
      BY <3>1, <3>2
  <2>3. CASE SetHistory
    <3>1. PICK h \in HistoryCalls : stack' = <<Frame("history_child_", h[1], h[2])>>
      BY <2>3 DEF SetHistory, Asks
    <3>2. h[1] \in States /\ h[2] \in MaybeState
      BY <3>1 DEF CallsAssumption, MaybeState
    <3> DEFINE f == Frame("history_child_", h[1], h[2])
    <3>3. f \in Frames /\ f.fn \in Starting
      BY <3>2 DEF Frame, Frames, Starting
    <3> HIDE DEF f
    <3> QED
      BY <3>1, <3>3 DEF f
  <2>4. CASE Continue
    <3> DEFINE f == Frame("enter_stable_state", Root, "_complete_transition")
    <3>1. f \in Frames /\ f.fn \in Starting
      BY DEF TreeAssumption, Frame, Frames, Starting
    <3>2. stack' = <<f>>
      BY <2>4 DEF Continue
    <3> HIDE DEF f
    <3> QED
      BY <3>1, <3>2
  <2> QED
    BY <2>1, <2>2, <2>3, <2>4
<1>5. PICK f \in Frames : f.fn \in Starting /\ stack' = <<f>>
  BY <1>4
<1>6. /\ stack' \in Seq(Frames)
      /\ \A i \in DOMAIN stack' : stack'[i].fn \in Starting
      /\ \A i, j \in DOMAIN stack' : i < j => stack'[i].fn # "enter_stable_state"
  BY <1>5, OneCall
<1> QED
  BY <1>1, <1>2, <1>3, <1>6, FromRest

\* Of some states, one has none of its children among them.
LEMMA SomeDeepest ==
    ASSUME TreeAssumption, NEW some \in SUBSET States, some # {}
    PROVE  \E t \in some : \A c : IsChild(c, t) => c \notin some
<1> DEFINE T == {n \in Nat : \E t \in some : state_level(t) >= n}
<1> SUFFICES ASSUME \A t \in some : \E c \in some : IsChild(c, t) PROVE FALSE
  OBVIOUS
<1>1. 0 \in T
  BY LevelIsNat
<1>2. ASSUME NEW n \in Nat, n \in T PROVE n + 1 \in T
  <2>1. PICK t \in some : state_level(t) >= n
    BY <1>2
  <2>2. PICK c \in some : IsChild(c, t)
    OBVIOUS
  <2>3. state_level(c) = state_level(t) + 1 /\ state_level(t) \in Nat
    BY <2>2, LevelOfParent, LevelIsNat DEF IsChild
  <2> QED
    BY <2>1, <2>3
<1> HIDE DEF T
<1>3. Nat \subseteq T
  BY <1>1, <1>2, NatSetInduction
<1>4. IsFiniteSet(States) /\ Cardinality(States) \in Nat
  <2>1. IsFiniteSet(States)
    BY DEF TreeAssumption
  <2> QED
    BY <2>1, FS_CardinalityType
<1>5. PICK t \in some : state_level(t) >= Cardinality(States) + 1
  <2>1. Cardinality(States) + 1 \in T
    BY <1>3, <1>4
  <2> QED
    BY <2>1 DEF T
<1>6. Cardinality(Above[t]) <= Cardinality(States)
  <2>1. Above[t] \in SUBSET States
    BY DEF TreeAssumption
  <2> QED
    BY <1>4, <2>1, FS_Subset
<1>7. state_level(t) \in Nat /\ state_level(t) <= Cardinality(States)
  <2>1. t \in States
    BY <1>5
  <2>2. state_level(t) \in Nat
    BY <2>1, LevelIsNat
  <2> QED
    BY <1>6, <2>2 DEF state_level
<1> QED
  BY <1>4, <1>5, <1>7

\* The calls that restore a machine: transitions to targets, which together lead
\* to or through each of them.
LEMMA StartsCopy ==
    ASSUME TreeAssumption, WalkAssumption, Typed, stack' = _start_copy(save_machine_state)
    PROVE  /\ stack' \in Seq(Frames)
           /\ \A i \in DOMAIN stack' : stack'[i].fn \in {"transit", "history_child_"}
           /\ \A i \in DOMAIN stack' : stack'[i].fn = "transit" =>
                stack'[i].state \in target /\ stack'[i].kept = NoState
           /\ \A s \in target : \E i \in DOMAIN stack' :
                stack'[i].fn = "transit" /\ s \in Above[stack'[i].state] \cup {stack'[i].state}
<1> DEFINE on      == Keep(TopDown, target)
           first   == Keep(on, States \ Passed(on))
           some    == {s \in States : IsOr(s) /\ HistoryOf(s) # NoState}
           then    == Keep(TopDown, some)
           child   == [s \in States |-> HistoryOf(s)]
           moves   == [i \in 1..Len(first) |-> Frame("transit", first[i], NoState)]
           sets    == [i \in 1..Len(then) |-> Frame("history_child_", then[i], child[then[i]])]
<1>1. TopDown \in Seq(States) /\ ToSet(TopDown) = States /\ target \in SUBSET States
  BY DEF WalkAssumption, Typed
<1>2. on \in Seq(States) /\ ToSet(on) = target
  <2>1. ToSet(on) = ToSet(TopDown) \cap target
    BY <1>1, SetKeep
  <2>2. on \in Seq(States)
    BY <1>1, KeepIsSeq
  <2> HIDE DEF on
  <2> QED
    BY <1>1, <2>1, <2>2
<1> HIDE DEF on
<1>3. first \in Seq(States) /\ ToSet(first) = target \ Passed(on)
  <2>1. ToSet(first) = ToSet(on) \cap (States \ Passed(on))
    BY <1>2, SetKeep
  <2>2. first \in Seq(States)
    BY <1>2, KeepIsSeq
  <2> HIDE DEF first
  <2> QED
    BY <1>1, <1>2, <2>1, <2>2
<1>4. then \in Seq(States)
  BY <1>1, KeepIsSeq
<1>5. child \in [States -> MaybeState]
  BY DEF HistoryOf, Typed, MaybeState
<1>6. stack' = moves \o sets
  <2>1. Len(first) \in Nat /\ DOMAIN first = 1..Len(first) /\ Len(then) \in Nat /\ DOMAIN then = 1..Len(then)
    BY <1>3, <1>4
  <2>2. /\ save_machine_state.transit = first /\ save_machine_state.history = then
        /\ save_machine_state.child = child
    BY DEF save_machine_state, on
  <2> HIDE DEF first, then, child
  <2> QED
    BY <2>1, <2>2 DEF _start_copy
<1> HIDE DEF first, then, child
<1>7. /\ moves \in Seq(Frames) /\ Len(moves) = Len(first) /\ DOMAIN moves = 1..Len(first)
      /\ \A i \in DOMAIN moves :
           moves[i].fn = "transit" /\ moves[i].state = first[i] /\ moves[i].kept = NoState
  <2>1. Len(first) \in Nat /\ \A i \in 1..Len(first) : first[i] \in States
    BY <1>3
  <2>2. \A i \in 1..Len(first) :
           /\ Frame("transit", first[i], NoState) \in Frames
           /\ Frame("transit", first[i], NoState).fn = "transit"
           /\ Frame("transit", first[i], NoState).state = first[i]
           /\ Frame("transit", first[i], NoState).kept = NoState
    BY <2>1 DEF Frame, Frames, MaybeState
  <2> HIDE DEF Frame
  <2>3. /\ moves \in [1..Len(first) -> Frames]
        /\ \A i \in 1..Len(first) :
             moves[i].fn = "transit" /\ moves[i].state = first[i] /\ moves[i].kept = NoState
    BY <2>2
  <2> HIDE DEF moves
  <2> QED
    BY <2>1, <2>3, MapIsSeq
<1>8. /\ sets \in Seq(Frames) /\ Len(sets) = Len(then) /\ DOMAIN sets = 1..Len(then)
      /\ \A i \in DOMAIN sets : sets[i].fn = "history_child_"
  <2>1. Len(then) \in Nat /\ \A i \in 1..Len(then) : then[i] \in States /\ child[then[i]] \in MaybeState
    BY <1>4, <1>5
  <2>2. \A i \in 1..Len(then) :
           /\ Frame("history_child_", then[i], child[then[i]]) \in Frames
           /\ Frame("history_child_", then[i], child[then[i]]).fn = "history_child_"
    BY <2>1 DEF Frame, Frames
  <2> HIDE DEF Frame
  <2>3. sets \in [1..Len(then) -> Frames] /\ \A i \in 1..Len(then) : sets[i].fn = "history_child_"
    BY <2>2
  <2> HIDE DEF sets
  <2> QED
    BY <2>1, <2>3, MapIsSeq
<1> HIDE DEF moves, sets
<1>9. Len(first) \in Nat /\ Len(then) \in Nat
  BY <1>3, <1>4
<1>10. /\ moves \o sets \in Seq(Frames) /\ Len(moves \o sets) = Len(moves) + Len(sets)
       /\ \A i \in 1 .. Len(moves) + Len(sets) :
             (moves \o sets)[i] = IF i <= Len(moves) THEN moves[i] ELSE sets[i - Len(moves)]
  <2>1. moves \in Seq(Frames) /\ sets \in Seq(Frames)
    BY <1>7, <1>8
  <2> QED
    BY <2>1, ConcatProperties
<1>11. /\ stack' \in Seq(Frames) /\ DOMAIN stack' = 1 .. Len(first) + Len(then)
       /\ \A i \in 1 .. Len(first) + Len(then) :
             stack'[i] = IF i <= Len(first) THEN moves[i] ELSE sets[i - Len(first)]
  BY <1>6, <1>7, <1>8, <1>9, <1>10
<1>12. ASSUME NEW i \in DOMAIN stack' PROVE stack'[i].fn \in {"transit", "history_child_"}
  <2>1. CASE i <= Len(first)
    BY <1>7, <1>9, <1>11, <2>1
  <2>2. CASE ~ (i <= Len(first))
    <3>1. i - Len(first) \in 1..Len(then)
      BY <1>9, <1>11, <2>2
    <3> QED
      BY <1>8, <1>11, <2>2, <3>1
  <2> QED
    BY <2>1, <2>2
<1>13. \A i \in 1..Len(first) : i \in DOMAIN stack' /\ stack'[i] = moves[i] /\ i \in DOMAIN moves
  BY <1>7, <1>9, <1>11
<1>14. ASSUME NEW i \in DOMAIN stack', stack'[i].fn = "transit"
       PROVE  stack'[i].state \in target /\ stack'[i].kept = NoState
  <2>1. i <= Len(first)
    <3> SUFFICES ASSUME ~ (i <= Len(first)) PROVE FALSE
      OBVIOUS
    <3>1. i - Len(first) \in 1..Len(then)
      BY <1>9, <1>11
    <3> QED
      BY <1>8, <1>11, <1>14, <3>1
  <2>2. i \in 1..Len(first)
    BY <1>11, <2>1
  <2>3. first[i] \in target
    BY <1>3, <2>2 DEF ToSet
  <2> QED
    BY <1>7, <1>13, <2>2, <2>3
<1>15. ASSUME NEW s \in target
       PROVE  \E i \in DOMAIN stack' :
                 stack'[i].fn = "transit" /\ s \in Above[stack'[i].state] \cup {stack'[i].state}
  <2> DEFINE lower == {u \in target : s \in Above[u] \cup {u}}
  <2>1. lower \in SUBSET States /\ lower # {}
    BY <1>1
  <2>2. PICK t \in lower : \A c : IsChild(c, t) => c \notin lower
    <3> HIDE DEF lower
    <3> QED
      BY <2>1, SomeDeepest
  <2>3. ASSUME NEW c \in target, IsChild(c, t) PROVE FALSE
    <3>1. Above[c] = Above[t] \cup {t}
      BY <2>3, AboveChild
    <3> QED
      BY <2>2, <2>3, <3>1
  <2>4. t \notin Passed(on)
    <3> SUFFICES ASSUME t \in Passed(on) PROVE FALSE
      OBVIOUS
    <3>1. PICK i \in DOMAIN on : i < Len(on) /\ ParentOf(on[i+1]) = on[i] /\ t = on[i]
      BY DEF Passed
    <3>2. i + 1 \in DOMAIN on
      BY <1>2, <3>1
    <3>3. on[i+1] \in target /\ on[i+1] \in States
      BY <1>1, <1>2, <3>2 DEF ToSet
    <3>4. IsChild(on[i+1], t)
      BY <1>1, <3>1, <3>3 DEF ParentOf, IsChild, TreeAssumption
    <3> QED
      BY <2>3, <3>3, <3>4
  <2>5. t \in ToSet(first)
    BY <1>3, <2>4
  <2>6. PICK i \in 1..Len(first) : first[i] = t
    BY <1>3, <2>5 DEF ToSet
  <2>7. stack'[i].fn = "transit" /\ stack'[i].state = t /\ i \in DOMAIN stack'
    BY <1>7, <1>13, <2>6
  <2> QED
    BY <2>2, <2>7
<1> QED
  BY <1>11, <1>12, <1>14, <1>15

\* A machine saved, dropped and restored into a fresh one.
LEMMA RespawnStep ==
    ASSUME TreeAssumption, CallsAssumption, WalkAssumption, IInv, Respawn PROVE IInv'
<1>1. /\ stack = <<>> /\ stack' = _start_copy(save_machine_state) /\ asks' = 0
      /\ active' = [s \in States |-> 0] /\ active_count' = 0
      /\ target' = {} /\ target_count' = 0
      /\ target_child' = [s \in States |-> NoState]
      /\ active_child' = [s \in States |-> NoState]
      /\ level' = 0 /\ started' = FALSE
      /\ UNCHANGED <<turn, continuation, goal, failed>>
  BY DEF Respawn, InHandler, Idle, Asks
<1>2. AtRest
  BY <1>1, RestIs
<1>3. /\ stack' \in Seq(Frames)
      /\ \A i \in DOMAIN stack' : stack'[i].fn \in {"transit", "history_child_"}
      /\ target # {} => \E i \in DOMAIN stack' : stack'[i].fn = "transit"
  <2>1. /\ stack' \in Seq(Frames)
        /\ \A i \in DOMAIN stack' : stack'[i].fn \in {"transit", "history_child_"}
        /\ \A s \in target : \E i \in DOMAIN stack' : stack'[i].fn = "transit"
    BY <1>1, <1>2, StartsCopy DEF AtRest
  <2> QED
    BY <2>1
<1>4. /\ \A s \in States : active'[s] = 0
      /\ Inside' = {}
  BY <1>1 DEF Inside
<1>5. Typed'
  <2>1. /\ active' \in [States -> -2..1] /\ target' \in SUBSET States
        /\ active_child' \in [States -> MaybeState] /\ target_child' \in [States -> MaybeState]
        /\ \A s \in States : active_child'[s] = NoState \/ IsChild(active_child'[s], s)
        /\ \A s \in States : target_child'[s] = NoState \/ IsChild(target_child'[s], s)
    BY <1>1 DEF MaybeState
  <2>2. asks' \in 0..MaxAsks
    BY <1>1 DEF CallsAssumption
  <2> QED
    BY <1>1, <1>2, <1>3, <2>1, <2>2 DEF AtRest, Typed
<1>6. Counted'
  <2>1. {s \in States : active'[s] > 0} = {}
    BY <1>4
  <2>2. Cardinality({}) = 0
    BY FS_EmptySet
  <2> QED
    BY <1>1, <2>1, <2>2 DEF Counted
<1>7. Levels' /\ EntersLast' /\ EntersInside'
  BY <1>1, <1>3 DEF Levels, EntersLast, EntersInside, Restoring, Entering
<1>8. ExitsOnce' /\ ChildrenFirst'
  <2>1. \A i \in DOMAIN stack' : stack'[i].fn # "on__exit"
    BY <1>3
  <2> QED
    BY <1>4, <2>1 DEF ExitsOnce, ChildrenFirst
<1>9. Nested' /\ Path' /\ Aimed'
  BY <1>1, <1>4 DEF Nested, Path, Aimed
<1>10. Complete'
  BY <1>4 DEF Complete
<1>11. Goal'
  BY <1>1, <1>2, <1>3 DEF AtRest, Goal
<1> QED
  BY <1>5, <1>6, <1>7, <1>8, <1>9, <1>10, <1>11 DEF IInv

-------------------------------------------------------------------------------
(* The invariant.                                                              *)

\* A new machine satisfies the invariant.
LEMMA InitIInv == ASSUME TreeAssumption, CallsAssumption, Init PROVE IInv
<1>1. /\ active = [s \in States |-> 0] /\ active_count = 0
      /\ target = {} /\ target_count = 0
      /\ target_child = [s \in States |-> NoState]
      /\ active_child = [s \in States |-> NoState]
      /\ level = 0 /\ started = FALSE /\ stack = <<>> /\ turn = "handler"
      /\ continuation = FALSE /\ asks = 0 /\ goal = NoState /\ failed = "no"
  BY DEF Init
<1>2. /\ \A s \in States : active[s] = 0
      /\ Inside = {} /\ DOMAIN stack = {}
  BY <1>1 DEF Inside
<1>3. Typed
  <2>1. asks \in 0..MaxAsks
    BY <1>1 DEF CallsAssumption
  <2>2. stack \in Seq(Frames)
    BY <1>1
  <2>3. /\ active \in [States -> -2..1] /\ target \in SUBSET States
        /\ active_child \in [States -> MaybeState] /\ target_child \in [States -> MaybeState]
        /\ \A s \in States : active_child[s] = NoState \/ IsChild(active_child[s], s)
        /\ \A s \in States : target_child[s] = NoState \/ IsChild(target_child[s], s)
    BY <1>1 DEF MaybeState
  <2>4. goal \in MaybeState
    BY <1>1 DEF MaybeState
  <2>5. active_count \in Int /\ target_count \in Int /\ level \in Int
    BY <1>1
  <2>6. turn \in {"handler", "continuation"} /\ failed \in {"no", "assert", "null"}
    BY <1>1
  <2>7. started \in BOOLEAN /\ continuation \in BOOLEAN
    BY <1>1, Zenon
  <2> QED
    BY <2>1, <2>2, <2>3, <2>4, <2>5, <2>6, <2>7 DEF Typed
<1>4. Counted
  <2>1. {s \in States : active[s] > 0} = {}
    BY <1>2
  <2>2. Cardinality({}) = 0
    BY FS_EmptySet
  <2> QED
    BY <1>1, <2>1, <2>2 DEF Counted
<1>5. Levels /\ EntersLast /\ EntersInside
  BY <1>1, <1>2 DEF Levels, EntersLast, EntersInside
<1>6. ExitsOnce /\ ChildrenFirst
  BY <1>2 DEF ExitsOnce, ChildrenFirst
<1>7. Nested /\ Path /\ Aimed
  BY <1>1, <1>2 DEF Nested, Path, Aimed
<1>8. Complete /\ Goal
  BY <1>1, <1>2 DEF Complete, Goal
<1> QED
  BY <1>3, <1>4, <1>5, <1>6, <1>7, <1>8 DEF IInv

\* failed is all that changes
LEMMA SameIInv ==
    ASSUME IInv, failed' \in {"no", "assert", "null"},
           UNCHANGED <<flags, targets, active_child, level, started, stack, turn,
                       continuation, asks, goal>>
    PROVE  IInv'
<1>1. UNCHANGED <<active, active_count, target, target_count, target_child, active_child,
                  level, started, stack, turn, continuation, asks, goal>>
  BY DEF flags, targets
<1>2. Typed' /\ Counted'
  BY <1>1 DEF IInv, Typed, Counted
<1>3. Levels' /\ EntersLast' /\ EntersInside'
  BY <1>1 DEF IInv, Levels, EntersLast, EntersInside
<1>4. Inside' = Inside /\ \A s : /\ Doomed(s)' <=> Doomed(s)
                                 /\ Resumes(s)' <=> Resumes(s)
                                 /\ Regions(s)' <=> Regions(s)
  BY <1>1 DEF Inside, Doomed, Resumes, Regions
<1>5. ExitsOnce' /\ ChildrenFirst'
  BY <1>1, <1>4 DEF IInv, ExitsOnce, ChildrenFirst
<1>6. Nested' /\ Path' /\ Aimed'
  BY <1>1, <1>4 DEF IInv, Nested, Path, Aimed
<1>7. Complete'
  BY <1>1, <1>4 DEF IInv, Complete
<1>8. Goal'
  BY <1>1 DEF IInv, Goal
<1> QED
  BY <1>2, <1>3, <1>5, <1>6, <1>7, <1>8 DEF IInv

\* Every step keeps it.
LEMMA NextIInv ==
    ASSUME TreeAssumption, CallsAssumption, WalkAssumption, IInv, [Next]_vars
    PROVE  IInv'
<1>1. CASE Call \/ EnterNow \/ SetHistory \/ Continue
  BY <1>1, CallStep
<1>2. CASE Respawn
  BY <1>2, RespawnStep
<1>3. CASE Transit \/ Terminate \/ Transited \/ Terminated
  BY <1>3, TransitStep, TerminateStep, TransitedStep, TerminatedStep
<1>4. CASE prepare_target_path \/ exit_state \/ on__exit \/ Exited
  BY <1>4, prepare_target_pathStep, exit_stateStep, on__exitStep, ExitedStep
<1>5. CASE enter_stable_state \/ enter_target_state \/ Entered \/ Region
  BY <1>5, enter_stable_stateStep, enter_target_stateStep, EnteredStep, RegionStep
<1>6. CASE settled \/ _complete_transition \/ history_child_
  BY <1>6, ReturnStep, history_child_Step
<1>7. CASE Abort
  <2>1. failed' \in {"no", "assert", "null"}
    BY <1>7 DEF Abort
  <2>2. UNCHANGED <<flags, targets, active_child, level, started, stack, turn,
                    continuation, asks, goal>>
    BY <1>7 DEF Abort
  <2> QED
    BY <2>1, <2>2, SameIInv
<1>8. CASE UNCHANGED vars
  <2>1. failed' \in {"no", "assert", "null"}
    BY <1>8 DEF vars, IInv, Typed
  <2>2. UNCHANGED <<flags, targets, active_child, level, started, stack, turn,
                    continuation, asks, goal>>
    BY <1>8 DEF vars
  <2> QED
    BY <2>1, <2>2, SameIInv
<1> QED
  BY <1>1, <1>2, <1>3, <1>4, <1>5, <1>6, <1>7, <1>8 DEF Next, Step

(* Every reachable state of the machine, in the middle of transitions that   *)
(* entry and exit actions have nested in each other or at rest, satisfies the*)
(* invariant (coe-hsm--exec.cpp, transit, terminate and what they call).     *)
THEOREM Inductive == Spec => []IInv
<1>1. Init => IInv
  BY InitIInv, TreeAssumption, CallsAssumption
<1>2. IInv /\ [Next]_vars => IInv'
  BY NextIInv, TreeAssumption, CallsAssumption, WalkAssumption
<1> QED
  BY <1>1, <1>2, PTL DEF Spec

(* Whatever the tree and whatever the actions ask for, the flags stay in     *)
(* -2..1, the children remembered are states, and every call under way is one*)
(* the code makes.                                                           *)
THEOREM TypeCorrect == Spec => []TypeOK
<1>1. IInv => TypeOK
  <2> SUFFICES ASSUME IInv PROVE TypeOK
    OBVIOUS
  <2>1. Typed
    BY DEF IInv
  <2>2. active_count \in Nat /\ target_count \in Nat
    <3> DEFINE on == {s \in States : active[s] > 0}
    <3>1. IsFiniteSet(States) /\ on \in SUBSET States /\ target \in SUBSET States
      BY <2>1, TreeAssumption DEF TreeAssumption, Typed
    <3>2. active_count = Cardinality(on) /\ target_count = Cardinality(target)
      BY DEF IInv, Counted
    <3> HIDE DEF on
    <3>3. IsFiniteSet(on) /\ IsFiniteSet(target)
      BY <3>1, FS_Subset
    <3> QED
      BY <3>2, <3>3, FS_CardinalityType
  <2>3. \A i \in DOMAIN stack : stack[i].fn \in Functions
    BY <2>1, FramesFields DEF Typed
  <2>4. Idle => level = 0
    BY RestIs DEF Idle, AtRest
  <2> QED
    BY <2>1, <2>2, <2>3, <2>4 DEF Typed, TypeOK, MaybeState
<1> QED
  BY <1>1, Inductive, PTL

(* _active_count and _target_count, which decide when a transition is complete*)
(* and what a path joins, agree with the flags of the states after every     *)
(* assignment (set_active_flag, set_target_flags).                           *)
THEOREM CountersAreExact == Spec => []CountsExact
<1>1. IInv => CountsExact
  BY DEF IInv, Counted, CountsExact
<1> QED
  BY <1>1, Inductive, PTL

\* When the counters agree, what is active is what was aimed at.
LEMMA StableIs ==
    ASSUME TreeAssumption, Typed, Counted, Stable, Inside \subseteq target,
           Inside = Configuration
    PROVE  Configuration = target
<1>1. {s \in States : active[s] > 0} = Configuration
  <2>1. \A s \in States : active[s] \in -2..1
    BY DEF Typed
  <2> QED
    BY <2>1 DEF Configuration
<1>2. Cardinality(Configuration) = Cardinality(target)
  BY <1>1 DEF Counted, Stable
<1>3. IsFiniteSet(States) /\ target \in SUBSET States
  BY DEF TreeAssumption, Typed
<1>4. IsFiniteSet(target)
  BY <1>3, FS_Subset
<1> QED
  BY <1>2, <1>4, FS_Subset

\* A stable machine at rest is in exactly what it aimed at, which is a legal
\* configuration around the last request.
LEMMA SettledIs ==
    ASSUME TreeAssumption, IInv, Idle, Stable
    PROVE  /\ Configuration = target /\ Legal(Configuration)
           /\ IF goal = NoState THEN Configuration = {} ELSE goal \in Configuration
<1>1. AtRest
  BY RestIs DEF Idle
<1>2. Configuration = target
  BY <1>1, StableIs DEF AtRest
<1>3. Legal(Configuration)
  <2>1. ASSUME NEW s \in States
        PROVE  /\ s \notin target => target \cap ToSet(Kids[s]) = {}
               /\ s \in target /\ IsOr(s)  => target \cap ToSet(Kids[s]) = {active_child[s]}
               /\ s \in target /\ IsAnd(s) => target \cap ToSet(Kids[s]) = ToSet(Kids[s])
    <3>1. ToSet(Kids[s]) = {c \in States : IsChild(c, s)}
      BY ChildrenOf
    <3>2. ASSUME NEW c \in target, IsChild(c, s) PROVE s \in target
      <4>1. s \in Above[c]
        BY <3>2, AboveChild
      <4> QED
        BY <1>1, <4>1 DEF AtRest, Path
    <3>3. ASSUME s \in target, IsOr(s) PROVE target \cap ToSet(Kids[s]) = {active_child[s]}
      <4>1. ASSUME NEW c \in target, IsChild(c, s) PROVE c = active_child[s]
        <5>1. c \in Inside /\ c # Root /\ Parent[c] = s
          BY <1>1, <1>2, <4>1 DEF AtRest, IsChild
        <5> QED
          BY <1>1, <3>3, <5>1 DEF AtRest, Nested
      <4>2. target_child[s] \in target /\ target_child[s] # NoState
        <5>1. target_child[s] \in target
          BY <1>1, <1>2, <3>3 DEF AtRest
        <5> QED
          BY <1>1, <5>1 DEF AtRest, Typed, TreeAssumption
      <4>3. IsChild(target_child[s], s)
        BY <1>1, <4>2 DEF AtRest, Typed
      <4> QED
        BY <3>1, <4>1, <4>2, <4>3 DEF IsChild
    <3>4. ASSUME s \in target, IsAnd(s) PROVE ToSet(Kids[s]) \subseteq target
      BY <1>1, <1>2, <3>4 DEF AtRest
    <3> QED
      BY <3>1, <3>2, <3>3, <3>4
  <2> QED
    BY <1>2, <2>1 DEF Legal
<1> QED
  BY <1>1, <1>2, <1>3 DEF AtRest

(* A machine that is at rest and calls itself stable has entered exactly its *)
(* targets, and they are a legal configuration: the root is in, an OR state has*)
(* one child in, an AND state all of them (or nothing is in at all).         *)
THEOREM SettledIsLegal == Spec => []StableMeansSettled
<1>1. IInv => StableMeansSettled
  BY SettledIs, TreeAssumption DEF StableMeansSettled
<1> QED
  BY <1>1, Inductive, PTL

(* However the requests of handlers, entry and exit actions were nested, a   *)
(* stable machine at rest is where the last one asked it to go.              *)
THEOREM LastOneWins == Spec => []LastRequestWins
<1>1. IInv => LastRequestWins
  BY SettledIs, TreeAssumption DEF LastRequestWins
<1> QED
  BY <1>1, Inductive, PTL

-------------------------------------------------------------------------------
(* Between on__startup and on__cleanup.                                        *)

Calm == Functions \ {"terminate", "terminated", "prepare_target_path"}
Pushes(F) == \E fs \in Seq(Frames) : Becomes(fs) /\ \A i \in DOMAIN fs : fs[i].fn \in F

\* A step that only returns calls nothing.
LEMMA PushesNone == ASSUME NEW F, Becomes(<<>>) PROVE Pushes(F)
<1>1. <<>> \in Seq(Frames) /\ DOMAIN <<>> = {}
  OBVIOUS
<1> QED
  BY <1>1, Zenon DEF Pushes

\* A step that calls one function.
LEMMA PushesOne == ASSUME NEW F, NEW f \in Frames, Becomes(<<f>>), f.fn \in F PROVE Pushes(F)
<1> DEFINE fs == <<f>>
<1>1. fs \in Seq(Frames) /\ \A i \in DOMAIN fs : fs[i].fn \in F
  OBVIOUS
<1>2. Becomes(fs)
  OBVIOUS
<1> HIDE DEF fs
<1> QED
  BY <1>1, <1>2 DEF Pushes

\* A step that calls two.
LEMMA PushesTwo ==
    ASSUME NEW F, NEW f \in Frames, NEW g \in Frames, Becomes(<<f, g>>), f.fn \in F, g.fn \in F
    PROVE  Pushes(F)
<1> DEFINE fs == <<f, g>>
<1>1. fs \in Seq(Frames) /\ \A i \in DOMAIN fs : fs[i].fn \in F
  OBVIOUS
<1>2. Becomes(fs)
  OBVIOUS
<1> HIDE DEF fs
<1> QED
  BY <1>1, <1>2 DEF Pushes

\* What ends the machine is called where only entering goes on.
LEMMA OutsideKept ==
    ASSUME EndsOutside, NEW fs, Moved(fs),
           \A i \in DOMAIN fs : fs[i].fn \in {"terminate", "terminated"} =>
               /\ \A j \in DOMAIN fs : i < j => fs[j].fn \in Entering
               /\ \A k \in DOMAIN stack : k > 1 => stack[k].fn \in Entering
    PROVE  EndsOutside'
<1> SUFFICES ASSUME NEW i \in DOMAIN stack', NEW j \in DOMAIN stack', i < j,
                    stack'[i].fn \in {"terminate", "terminated"}
             PROVE  stack'[j].fn \in Entering
  BY DEF EndsOutside, Entering
<1>1. CASE i \in DOMAIN fs /\ j \in DOMAIN fs
  BY <1>1 DEF Moved
<1>2. CASE i \in DOMAIN fs /\ j \notin DOMAIN fs
  <2>1. PICK k \in DOMAIN stack : k > 1 /\ stack'[j] = stack[k]
    BY <1>2 DEF Moved
  <2> QED
    BY <1>2, <2>1 DEF Moved
<1>3. CASE i \notin DOMAIN fs
  <2>1. i \in Nat /\ j \in Nat /\ j \notin DOMAIN fs
    BY <1>3 DEF Moved
  <2>2. PICK k \in DOMAIN stack : k > 1 /\ i = k + Len(fs) - 1 /\ stack'[i] = stack[k]
    BY <1>3 DEF Moved
  <2>3. PICK l \in DOMAIN stack : l > 1 /\ j = l + Len(fs) - 1 /\ stack'[j] = stack[l]
    BY <2>1 DEF Moved
  <2>4. k < l
    BY <2>1, <2>2, <2>3 DEF Moved
  <2> QED
    BY <2>2, <2>3, <2>4 DEF EndsOutside
<1> QED
  BY <1>1, <1>2, <1>3

\* nothing is called that ends the machine or aims
LEMMA CalmKept ==
    ASSUME IInv, SInv, stack # <<>>, Pushes(Calm), UNCHANGED started,
           started \/ (target' \subseteq target /\ Inside' \subseteq Inside)
    PROVE  SInv'
<1>1. PICK fs \in Seq(Frames) : Becomes(fs) /\ \A i \in DOMAIN fs : fs[i].fn \in Calm
  BY DEF Pushes
<1>2. Moved(fs)
  BY <1>1, StackTyped
<1>3. \A f \in Calm : f \notin {"terminate", "terminated", "prepare_target_path"}
  BY DEF Calm
<1>4. EndsOutside'
  BY <1>1, <1>2, <1>3, OutsideKept DEF SInv
<1>5. ASSUME ~ started' PROVE target' = {} /\ Inside' = {}
  BY <1>5 DEF SInv, Off
<1>6. ASSUME ~ started', NEW i \in DOMAIN stack' PROVE stack'[i].fn # "prepare_target_path"
  <2>1. CASE i \in DOMAIN fs
    BY <1>1, <1>2, <1>3, <2>1 DEF Moved
  <2>2. CASE i \notin DOMAIN fs
    <3>1. PICK k \in DOMAIN stack : stack'[i] = stack[k]
      BY <1>2, <2>2 DEF Moved
    <3> QED
      BY <1>6, <3>1 DEF SInv, Off
  <2> QED
    BY <2>1, <2>2
<1> QED
  BY <1>4, <1>5, <1>6 DEF SInv, Off

\* The innermost call is a call, for a state.
LEMMA TopIs == ASSUME IInv, stack # <<>> PROVE Top \in Frames /\ Top.state \in States
<1>1. Top \in Frames
  BY DEF IInv, Typed, Top
<1> QED
  BY <1>1, FramesFields

\* A step that neither starts nor ends the machine and aims nowhere.
LEMMA CalmSteps ==
    ASSUME TreeAssumption, IInv, SInv,
           Transited \/ Exited \/ settled \/ history_child_ \/ enter_stable_state
    PROVE  SInv'
<1>1. stack # <<>> /\ UNCHANGED <<started, targets>>
  BY DEF Transited, Exited, settled, history_child_, enter_stable_state, Running
<1>2. /\ Typed /\ target' = target
      /\ active \in [States -> -2..1]
  BY <1>1 DEF targets, IInv, Typed
<1>3. Pushes(Calm)
  <2>1. CASE Transited \/ Exited \/ settled \/ history_child_
    <3>1. Becomes(<<>>)
      BY <2>1 DEF Transited, Exited, settled, history_child_
    <3> QED
      BY <3>1, PushesNone
  <2>2. CASE enter_stable_state
    <3> DEFINE next == Frame(Top.kept, Root, 0)
               down == Frame("enter_target_state", Root, 0)
    <3>1. Becomes(<<down, next>>) \/ Becomes(<<next>>)
      BY <2>2 DEF enter_stable_state
    <3>2. Top.kept \in {"settled", "_complete_transition"}
      <4>1. Top.fn = "enter_stable_state"
        BY <2>2 DEF enter_stable_state, Running
      <4> QED
        BY <1>1, <4>1, TopIs, FramesFields
    <3>3. /\ next \in Frames /\ next.fn \in Calm
          /\ down \in Frames /\ down.fn \in Calm
      BY <3>2 DEF Frame, Frames, TreeAssumption, Calm, Functions
    <3> HIDE DEF next, down
    <3> QED
      BY <3>1, <3>3, PushesOne, PushesTwo
  <2> QED
    BY <2>1, <2>2
<1>4. Inside' \subseteq Inside
  <2>1. CASE UNCHANGED active
    BY <2>1 DEF Inside
  <2>2. CASE Exited
    <3>1. active' = active \/ active' = [active EXCEPT ![Top.state] = 0]
      BY <2>2 DEF Exited, set_active_flag, flags
    <3> QED
      BY <1>2, <3>1 DEF Inside
  <2>3. CASE enter_stable_state
    <3>1. \A t \in States : active'[t] = active[t] \/ active'[t] = 0
      BY <2>3 DEF enter_stable_state
    <3>2. \A t \in States : active'[t] \in {1, -1} => active[t] \in {1, -1}
      BY <3>1
    <3> QED
      BY <3>2 DEF Inside
  <2> QED
    BY <2>1, <2>2, <2>3 DEF Transited, settled, history_child_, flags
<1> QED
  BY <1>1, <1>2, <1>3, <1>4, CalmKept

\* exit_state calls nothing but exits.
LEMMA exit_stateStarted == ASSUME TreeAssumption, IInv, SInv, exit_state PROVE SInv'
<1> DEFINE s  == Top.state
           fs == CASE active[s] \in {1, -1} -> ExitCalls(s)
                   [] active[s] = -2 -> <<Frame("exited", s, 0)>>
                   [] OTHER -> <<>>
<1>1. /\ stack # <<>> /\ Becomes(fs) /\ UNCHANGED <<started, targets>>
      /\ IF active[s] = 1 THEN set_active_flag(s, -1) ELSE UNCHANGED flags
  BY DEF exit_state, Running, ExitCalls
<1>2. s \in States /\ Typed /\ Nested /\ active \in [States -> -2..1]
  BY <1>1, TopIs DEF IInv, Typed
<1>3. Pushes(Calm)
  <2>1. CASE active[s] \in {1, -1}
    <3>1. fs = ExitCalls(s)
      BY <2>1
    <3> HIDE DEF fs, s
    <3>2. ExitsDown(s, fs)
      BY <1>2, <3>1, ExitFrames
    <3>3. fs \in Seq(Frames) /\ \A i \in DOMAIN fs : fs[i].fn \in {"exit_state", "on__exit"}
      BY <3>2, Zenon DEF ExitsDown
    <3>4. \A i \in DOMAIN fs : fs[i].fn \in Calm
      BY <3>3 DEF Calm, Functions
    <3> QED
      BY <1>1, <3>3, <3>4 DEF Pushes
  <2>2. CASE active[s] = -2
    <3> DEFINE f == Frame("exited", s, 0)
    <3>1. Becomes(<<f>>)
      BY <1>1, <2>2
    <3>2. f \in Frames /\ f.fn \in Calm
      BY <1>2 DEF Frame, Frames, Calm, Functions
    <3> HIDE DEF f
    <3> QED
      BY <3>1, <3>2, PushesOne
  <2>3. CASE active[s] \notin {1, -1, -2}
    <3>1. Becomes(<<>>)
      BY <1>1, <2>3
    <3> QED
      BY <3>1, PushesNone
  <2> QED
    BY <2>1, <2>2, <2>3
<1>4. Inside' \subseteq Inside
  <2> HIDE DEF s
  <2>1. active' = active \/ (active[s] = 1 /\ active' = [active EXCEPT ![s] = -1])
    BY <1>1 DEF set_active_flag, flags
  <2> QED
    BY <1>2, <2>1 DEF Inside
<1>5. target' = target /\ UNCHANGED started
  BY <1>1 DEF targets
<1> QED
  BY <1>1, <1>3, <1>4, <1>5, CalmKept

\* An exit action that may ask for transitions, but not for the end.
LEMMA on__exitStarted ==
    ASSUME TreeAssumption, CallsAssumption, ExitsStay, IInv, SInv, on__exit PROVE SInv'
<1> DEFINE s    == Top.state
           back == Frame("exited", s, 0)
<1>1. /\ stack # <<>> /\ Top.fn = "on__exit" /\ UNCHANGED <<started, targets>>
      /\ \/ active[s] = -1 /\ set_active_flag(s, -2) /\ UserAction(<<"ex", s>>, back)
         \/ active[s] # -1 /\ Becomes(<<back>>) /\ UNCHANGED <<flags, asks, saved>>
  BY DEF on__exit, Running
<1>2. s \in States /\ Typed /\ active \in [States -> -2..1]
  BY <1>1, TopIs DEF IInv, Typed
<1>3. back \in Frames /\ back.fn \in Calm
  BY <1>2 DEF Frame, Frames, Calm, Functions
<1>4. Inside' \subseteq Inside
  <2> HIDE DEF s
  <2>1. active' = active \/ active' = [active EXCEPT ![s] = -2]
    BY <1>1 DEF set_active_flag, flags
  <2> QED
    BY <1>2, <2>1 DEF Inside
<1>5. Pushes(Calm)
  <2>1. CASE Becomes(<<back>>)
    <3> HIDE DEF back
    <3> QED
      BY <1>3, <2>1, PushesOne
  <2>2. CASE ~ Becomes(<<back>>)
    <3> DEFINE hook == <<"ex", s>>
    <3>1. hook \in DOMAIN Asking /\ \E cmd \in Asking[hook] : Becomes(<<Command(cmd), back>>)
      BY <1>1, <2>2 DEF UserAction
    <3>2. PICK cmd \in Asking[hook] : Becomes(<<Command(cmd), back>>)
      BY <3>1
    <3>3. hook[1] = "ex"
      OBVIOUS
    <3> HIDE DEF hook, back
    <3>4. cmd \in Commands /\ cmd.op # "terminate"
      BY <3>1, <3>2, <3>3 DEF CallsAssumption, ExitsStay
    <3>5. Command(cmd) \in Frames /\ Command(cmd).fn \in {"transit", "terminate"}
      BY <3>4, CommandFrame
    <3>6. Command(cmd).fn = cmd.op
      BY DEF Command, Frame
    <3>7. Command(cmd).fn \in Calm
      BY <3>4, <3>5, <3>6 DEF Calm, Functions
    <3> HIDE DEF Command
    <3> QED
      BY <1>3, <3>2, <3>5, <3>7, PushesTwo
  <2> QED
    BY <2>1, <2>2
<1>6. target' = target /\ UNCHANGED started
  BY <1>1 DEF targets
<1> QED
  BY <1>1, <1>4, <1>5, <1>6, CalmKept

\* transit starts the machine before it aims.
LEMMA transitStarted == ASSUME TreeAssumption, IInv, SInv, Transit PROVE SInv'
<1> DEFINE to   == Top.state
           x    == ExitPoint(to, Top.kept)
           out  == Frame("exit_state", x, 0)
           aim  == Frame("prepare_target_path", to, 0)
           back == Frame("transited", to, level)
           F    == {"exit_state", "prepare_target_path", "transited"}
<1>1. /\ stack # <<>> /\ started' = TRUE
      /\ x # NoState => x \in target /\ Becomes(<<out>> \o <<aim, back>>)
      /\ x = NoState => Becomes(<<aim, back>>)
  BY DEF Transit, Running, Asserts
<1>2. to \in States /\ Typed /\ level \in Int /\ target \in SUBSET States
  BY <1>1, TopIs DEF IInv, Typed
<1>3. aim \in Frames /\ aim.fn \in F /\ back \in Frames /\ back.fn \in F
  BY <1>2 DEF Frame, Frames
<1>4. x # NoState => out \in Frames /\ out.fn \in F
  <2> HIDE DEF x
  <2> QED
    BY <1>1, <1>2 DEF Frame, Frames
<1>5. \E fs \in Seq(Frames) : Becomes(fs) /\ \A i \in DOMAIN fs : fs[i].fn \in F
  <2>1. CASE x = NoState
    <3> HIDE DEF aim, back, F
    <3>1. Becomes(<<aim, back>>)
      BY <1>1, <2>1
    <3>2. Pushes(F)
      BY <1>3, <3>1, PushesTwo
    <3> QED
      BY <3>2 DEF Pushes
  <2>2. CASE x # NoState
    <3> DEFINE fs == <<out, aim, back>>
    <3> HIDE DEF x, out, aim, back, F
    <3>1. <<out>> \o <<aim, back>> = fs
      BY <1>3, <1>4, <2>2, OneAndTwo
    <3>2. fs \in Seq(Frames) /\ \A i \in DOMAIN fs : fs[i].fn \in F
      BY <1>3, <1>4, <2>2
    <3>3. Becomes(fs)
      BY <1>1, <2>2, <3>1
    <3> HIDE DEF fs
    <3> QED
      BY <3>2, <3>3
  <2> QED
    BY <2>1, <2>2
<1>6. PICK fs \in Seq(Frames) : Becomes(fs) /\ \A i \in DOMAIN fs : fs[i].fn \in F
  BY <1>5
<1>7. Moved(fs)
  BY <1>1, <1>6, StackTyped
<1>8. EndsOutside'
  BY <1>6, <1>7, OutsideKept DEF SInv
<1> QED
  BY <1>1, <1>8 DEF SInv, Off

\* terminate is called with nothing being left and no path prepared.
LEMMA terminateStarted == ASSUME TreeAssumption, IInv, SInv, Terminate PROVE SInv'
<1> DEFINE out  == Frame("exit_state", Root, 0)
           back == Frame("terminated", Root, level)
           fs   == <<out, back>>
<1>1. /\ stack # <<>> /\ Top.fn = "terminate" /\ Becomes(fs)
      /\ UNCHANGED <<flags, active_child, started>>
      /\ target' = target \ Abandoned
  BY DEF Terminate, Running, set_target_flags
<1>2. level \in Int /\ Root \in States
  BY DEF IInv, Typed, TreeAssumption
<1>3. out \in Frames /\ out.fn = "exit_state" /\ back \in Frames /\ back.fn = "terminated"
  BY <1>2 DEF Frame, Frames
<1>4. fs \in Seq(Frames) /\ DOMAIN fs = {1, 2} /\ fs[1].fn = "exit_state" /\ fs[2].fn = "terminated"
  <2> HIDE DEF out, back
  <2> QED
    BY <1>3
<1> HIDE DEF fs
<1>5. Moved(fs)
  BY <1>1, <1>4, StackTyped
<1>6. \A k \in DOMAIN stack : k > 1 => stack[k].fn \in Entering
  BY <1>1, <1>5 DEF SInv, EndsOutside, Moved
<1>7. EndsOutside'
  <2>1. \A i \in DOMAIN fs : fs[i].fn \in {"terminate", "terminated"} => \A j \in DOMAIN fs : ~ (i < j)
    BY <1>4
  <2> QED
    BY <1>5, <1>6, <2>1, OutsideKept DEF SInv
<1>8. Inside' = Inside
  BY <1>1 DEF Inside, flags
<1>9. Off'
  <2>1. ASSUME NEW i \in DOMAIN stack'
        PROVE  stack'[i].fn # "prepare_target_path" \/ \E k \in DOMAIN stack : stack'[i] = stack[k]
    <3>1. CASE i \in DOMAIN fs
      <4>1. stack'[i] = fs[i]
        BY <1>5, <3>1 DEF Moved
      <4> QED
        BY <1>4, <3>1, <4>1
    <3>2. CASE i \notin DOMAIN fs
      BY <1>5, <3>2 DEF Moved
    <3> QED
      BY <3>1, <3>2
  <2> QED
    BY <1>1, <1>8, <2>1 DEF SInv, Off
<1> QED
  BY <1>7, <1>9 DEF SInv

\* do_cleanup: nothing is in, and nothing under way aims at a state
LEMMA cleanedStarted ==
    ASSUME TreeAssumption, IInv, SInv, Terminated \/ _complete_transition PROVE SInv'
<1>1. /\ stack # <<>> /\ Top.fn \in {"terminated", "_complete_transition"}
      /\ Becomes(<<>>) /\ started' = Cleaned
      /\ UNCHANGED <<flags, targets, active_child>>
  BY DEF Terminated, _complete_transition, Running
<1>2. UNCHANGED <<active, target>> /\ Inside' = Inside /\ <<>> \in Seq(Frames) /\ DOMAIN <<>> = {}
  BY <1>1 DEF flags, targets, Inside
<1>3. Moved(<<>>)
  BY <1>1, <1>2, StackTyped
<1>4. \A i \in DOMAIN stack' : \E k \in DOMAIN stack : k > 1 /\ stack'[i] = stack[k]
  BY <1>2, <1>3 DEF Moved
<1>5. EndsOutside'
  BY <1>2, <1>3, OutsideKept DEF SInv
<1>6. CASE ~ started
  <2>1. ~ started'
    BY <1>1, <1>6 DEF Cleaned
  <2> QED
    BY <1>2, <1>4, <1>5, <1>6, <2>1 DEF SInv, Off
<1>7. CASE started /\ Stable /\ ~ IsIn(Root)
  <2>1. \A k \in DOMAIN stack : k > 1 => stack[k].fn \in Entering
    <3>1. CASE Top.fn = "terminated"
      BY <1>3, <3>1 DEF SInv, EndsOutside, Moved
    <3>2. CASE Top.fn = "_complete_transition"
      BY <1>3, <3>2 DEF IInv, EntersLast, Entering, Moved
    <3> QED
      BY <1>1, <3>1, <3>2
  <2>2. \A k \in DOMAIN stack : stack[k].fn \notin Leaving /\ stack[k].fn # "prepare_target_path"
    <3>1. \A f \in Entering \cup {"terminated"} : f \notin Leaving /\ f # "prepare_target_path"
      BY DEF Entering, Leaving
    <3>2. ASSUME NEW k \in DOMAIN stack PROVE stack[k].fn \in Entering \cup {"terminated"}
      <4>1. CASE k = 1
        BY <1>1, <1>3, <4>1 DEF Entering, Moved
      <4>2. CASE k # 1
        <5>1. k > 1
          BY <1>3, <4>2 DEF Moved
        <5> QED
          BY <2>1, <5>1
      <4> QED
        BY <4>1, <4>2
    <3> QED
      BY <3>1, <3>2
  <2>3. Inside \subseteq target /\ Inside = Configuration
    <3>1. \A t : ~ Doomed(t)
      BY <2>2 DEF Doomed
    <3>2. \A t \in States : active[t] # -1
      BY <2>2 DEF IInv, ExitsOnce, Leaving
    <3> QED
      BY <3>1, <3>2 DEF IInv, Aimed, Inside, Configuration
  <2>4. Configuration = target
    BY <1>7, <2>3, StableIs DEF IInv
  <2>5. Inside = {}
    <3> SUFFICES ASSUME NEW t \in Inside PROVE FALSE
      OBVIOUS
    <3>1. t \in States /\ Above[t] \subseteq Inside
      BY DEF IInv, Nested, Inside
    <3>2. Root \in Inside
      BY <3>1, RootAbove
    <3> QED
      BY <1>7, <3>2 DEF IsIn, Inside
  <2> QED
    BY <1>2, <1>4, <1>5, <2>2, <2>3, <2>4, <2>5 DEF SInv, Off
<1>8. CASE started /\ ~ (Stable /\ ~ IsIn(Root))
  <2>1. started'
    BY <1>1, <1>8 DEF Cleaned
  <2> QED
    BY <1>5, <2>1 DEF SInv, Off
<1> QED
  BY <1>6, <1>7, <1>8

\* A path is prepared in a machine that is started.
LEMMA prepare_target_pathStarted ==
    ASSUME TreeAssumption, IInv, SInv, prepare_target_path PROVE SInv'
<1> DEFINE s == Top.state
           p == Joint(s)
<1>1. /\ stack # <<>> /\ Top.fn = "prepare_target_path" /\ UNCHANGED <<flags, started>>
      /\ Becomes(<<Frame("exit_state", s, 0)>>)
           \/ (active_child[p] # NoState /\ p # NoState /\ IsOr(p)
                 /\ Becomes(<<Frame("exit_state", active_child[p], 0)>>))
           \/ Becomes(<<>>)
  BY DEF prepare_target_path, Running
<1>2. s \in States
  BY <1>1, TopIs
<1>3. p # NoState => p \in States
  <2> DEFINE on == {u \in Above[s] : u \in target}
  <2> HIDE DEF s
  <2>1. CASE on = {}
    BY <2>1 DEF Joint
  <2>2. CASE on # {}
    <3>1. p = Lowest(on)
      BY <2>2 DEF Joint
    <3>2. on \in SUBSET Above[s]
      OBVIOUS
    <3> HIDE DEF on, p
    <3>3. Lowest(on) \in Above[s]
      BY <1>2, <2>2, <3>2, SomeLowest
    <3> QED
      BY <1>2, <3>1, <3>3, AboveAbove
  <2> QED
    BY <2>1, <2>2
<1>4. \A t \in States : /\ Frame("exit_state", t, 0) \in Frames
                        /\ Frame("exit_state", t, 0).fn \in Calm
  BY DEF Frame, Frames, Calm, Functions
<1>5. active_child \in [States -> MaybeState]
  BY DEF IInv, Typed
<1>6. Pushes(Calm)
  <2> HIDE DEF s, p
  <2>1. CASE Becomes(<<>>)
    BY <2>1, PushesNone
  <2>2. CASE Becomes(<<Frame("exit_state", s, 0)>>)
    BY <1>2, <1>4, <2>2, PushesOne
  <2>3. CASE active_child[p] # NoState /\ p # NoState /\ IsOr(p)
                 /\ Becomes(<<Frame("exit_state", active_child[p], 0)>>)
    <3>1. active_child[p] \in States
      BY <1>3, <1>5, <2>3 DEF MaybeState
    <3> QED
      BY <1>4, <2>3, <3>1, PushesOne
  <2> QED
    BY <1>1, <2>1, <2>2, <2>3
<1>7. started /\ UNCHANGED started
  <2>1. 1 \in DOMAIN stack /\ stack[1] = Top
    BY <1>1 DEF IInv, Typed, Top
  <2> QED
    BY <1>1, <2>1 DEF SInv, Off
<1> QED
  BY <1>1, <1>6, <1>7, CalmKept

\* What is entered is a target, so the machine is started.
LEMMA enter_target_stateStarted ==
    ASSUME TreeAssumption, CallsAssumption, IInv, SInv, enter_target_state PROVE SInv'
<1> DEFINE s    == Top.state
           next == Frame("entered", s, level)
<1>1. /\ stack # <<>> /\ Top.fn = "enter_target_state" /\ s \in target
      /\ Becomes(<<next>>) \/ UserAction(<<"en", s>>, next)
      /\ UNCHANGED <<targets, started>>
  BY DEF enter_target_state, Running, Asserts
<1>2. s \in States /\ level \in Int /\ asks \in 0..MaxAsks
  BY <1>1, TopIs DEF IInv, Typed
<1>3. next \in Frames /\ next.fn = "entered"
  BY <1>2 DEF Frame, Frames
<1>4. \E fs \in Seq(Frames) : Becomes(fs) /\ UserCall(next, fs)
  <2> HIDE DEF next
  <2>1. CASE UserAction(<<"en", s>>, next)
    BY <1>2, <1>3, <2>1, UserCalls
  <2>2. CASE Becomes(<<next>>)
    <3>1. <<next>> \in Seq(Frames)
      BY <1>3
    <3> QED
      BY <2>2, <3>1 DEF UserCall
  <2> QED
    BY <1>1, <2>1, <2>2
<1>5. PICK fs \in Seq(Frames) : Becomes(fs) /\ UserCall(next, fs)
  BY <1>4
<1>6. Moved(fs)
  BY <1>1, <1>5, StackTyped
<1>7. /\ Len(fs) \in {1, 2} /\ DOMAIN fs = 1..Len(fs) /\ fs[Len(fs)] = next
      /\ \A i \in DOMAIN fs : i # Len(fs) => i = 1 /\ fs[i].fn \in {"transit", "terminate"}
  <2> HIDE DEF next
  <2> QED
    BY <1>3, <1>5, UserCallsFacts
<1>8. \A k \in DOMAIN stack : stack[k].fn \in Entering
  <2>1. Top.fn \in Entering
    BY <1>1 DEF Entering
  <2> QED
    BY <1>6, <2>1, NothingLeaving DEF IInv
<1>9. EndsOutside'
  <2>1. \A i, j \in DOMAIN fs : i < j => fs[j].fn \in Entering
    <3>1. \A i, j \in DOMAIN fs : i < j => j = Len(fs)
      BY <1>7
    <3> HIDE DEF next
    <3>2. fs[Len(fs)].fn \in Entering
      BY <1>3, <1>7 DEF Entering
    <3> QED
      BY <3>1, <3>2
  <2> QED
    BY <1>6, <1>8, <2>1, OutsideKept DEF SInv
<1>10. started
  BY <1>1 DEF SInv, Off
<1> QED
  BY <1>1, <1>9, <1>10 DEF SInv, Off

\* So is it when targets are added below a state that is in.
LEMMA downStarted == ASSUME TreeAssumption, IInv, SInv, Entered \/ Region PROVE SInv'
<1> DEFINE s     == Top.state
           inner == IF target_child[s] # NoState THEN target_child[s] ELSE DefaultChild(s)
           i     == Top.kept
<1>1. /\ stack # <<>> /\ Top.fn \in {"entered", "region"} /\ UNCHANGED <<flags, started>>
      /\ \/ active[s] = 1 /\ IsOr(s) /\ Becomes(<<Frame("enter_target_state", inner, 0)>>)
         \/ IsAnd(s) /\ Becomes(<<Frame("region", s, 1)>>) /\ UNCHANGED target
         \/ /\ Top.fn = "region" /\ active[s] = 1 /\ i <= Len(Kids[s])
            /\ Becomes(<<Frame("enter_target_state", Kids[s][i], 0), Frame("region", s, i + 1)>>)
         \/ Becomes(<<>>) /\ UNCHANGED target
  BY DEF Entered, Region, Running, targets
<1>2. s \in States /\ Typed /\ Inside' = Inside
  BY <1>1, TopIs DEF IInv, Inside, flags
<1>3. Top.fn = "region" => IsAnd(s) /\ i \in Nat \ {0}
  BY <1>1, TopIs, FramesFields
<1> HIDE DEF s, i
<1>4. Kids[s] \in Seq(States)
  BY <1>2 DEF TreeAssumption
<1>5. IsOr(s) => inner \in States
  <2>1. IsOr(s) => IsChild(DefaultChild(s), s)
    BY <1>2, DefaultIsChild
  <2>2. target_child[s] = NoState \/ IsChild(target_child[s], s)
    BY <1>2 DEF Typed
  <2> QED
    BY <2>1, <2>2 DEF IsChild
<1> HIDE DEF inner
<1>6. \A t \in States : /\ Frame("enter_target_state", t, 0) \in Frames
                        /\ Frame("enter_target_state", t, 0).fn \in Calm
  BY DEF Frame, Frames, Calm, Functions
<1>7. \A n \in Nat \ {0} : IsAnd(s) => /\ Frame("region", s, n) \in Frames
                                       /\ Frame("region", s, n).fn \in Calm
  BY <1>2 DEF Frame, Frames, Calm, Functions
<1>8. Pushes(Calm)
  <2>1. CASE Becomes(<<>>)
    BY <2>1, PushesNone
  <2>2. CASE IsOr(s) /\ Becomes(<<Frame("enter_target_state", inner, 0)>>)
    BY <1>5, <1>6, <2>2, PushesOne
  <2>3. CASE IsAnd(s) /\ Becomes(<<Frame("region", s, 1)>>)
    BY <1>7, <2>3, PushesOne
  <2>4. CASE /\ Top.fn = "region" /\ active[s] = 1 /\ i <= Len(Kids[s])
             /\ Becomes(<<Frame("enter_target_state", Kids[s][i], 0), Frame("region", s, i + 1)>>)
    <3>1. Kids[s][i] \in States /\ i + 1 \in Nat \ {0}
      BY <1>3, <1>4, <2>4
    <3>2. /\ Frame("enter_target_state", Kids[s][i], 0) \in Frames
          /\ Frame("enter_target_state", Kids[s][i], 0).fn \in Calm
      BY <1>6, <3>1
    <3>3. Frame("region", s, i + 1) \in Frames /\ Frame("region", s, i + 1).fn \in Calm
      BY <1>3, <1>7, <2>4, <3>1
    <3> QED
      BY <2>4, <3>2, <3>3, PushesTwo
  <2> QED
    BY <1>1, <2>1, <2>2, <2>3, <2>4
<1>9. started \/ UNCHANGED target
  <2>1. active[s] = 1 => s \in Inside
    BY <1>2 DEF Inside
  <2> QED
    BY <1>1, <2>1 DEF SInv, Off
<1> QED
  BY <1>1, <1>2, <1>8, <1>9, CalmKept

\* The calls of a machine at rest.
LEMMA restStarted ==
    ASSUME TreeAssumption, CallsAssumption, WalkAssumption, IInv, SInv,
           Call \/ EnterNow \/ SetHistory \/ Continue \/ Respawn
    PROVE  SInv'
<1>1. stack = <<>>
  BY DEF Call, EnterNow, SetHistory, Continue, Respawn, InHandler, Idle
<1>2. CASE Respawn
  <2>1. /\ stack' = _start_copy(save_machine_state)
        /\ target' = {} /\ active' = [s \in States |-> 0]
    BY <1>2 DEF Respawn, Asks
  <2>2. \A i \in DOMAIN stack' : stack'[i].fn \in {"transit", "history_child_"}
    BY <1>1, <2>1, StartsCopy DEF IInv
  <2>3. Inside' = {}
    BY <2>1 DEF Inside
  <2> QED
    BY <2>1, <2>2, <2>3 DEF SInv, EndsOutside, Off
<1>3. CASE Call \/ EnterNow \/ SetHistory \/ Continue
  <2>1. UNCHANGED <<active, target, started>> /\ Inside' = Inside
    BY <1>3 DEF Call, EnterNow, SetHistory, Continue, flags, targets, Inside
  <2>2. \E f : stack' = <<f>> /\ f.fn # "prepare_target_path"
    <3>1. CASE Call
      <4>1. PICK cmd \in Calls : stack' = <<Command(cmd)>>
        BY <3>1 DEF Call, Asks
      <4>2. Command(cmd).fn \in {"transit", "terminate"}
        BY <4>1, CommandFrame DEF CallsAssumption
      <4> QED
        BY <4>1, <4>2
    <3>2. CASE EnterNow \/ SetHistory \/ Continue
      BY <3>2 DEF EnterNow, SetHistory, Continue, Asks, Frame
    <3> QED
      BY <1>3, <3>1, <3>2
  <2>3. PICK f : stack' = <<f>> /\ f.fn # "prepare_target_path"
    BY <2>2
  <2>4. DOMAIN stack' = {1} /\ stack'[1] = f
    BY <2>3
  <2> QED
    BY <2>1, <2>3, <2>4 DEF SInv, EndsOutside, Off
<1> QED
  BY <1>2, <1>3

\* A new machine is not started, and nothing is in.
LEMMA InitSInv == ASSUME Init PROVE SInv
<1>1. target = {} /\ active = [s \in States |-> 0] /\ DOMAIN stack = {}
  BY DEF Init
<1>2. Inside = {}
  BY <1>1 DEF Inside
<1> QED
  BY <1>1, <1>2 DEF SInv, EndsOutside, Off

\* Every step keeps the second invariant.
LEMMA NextSInv ==
    ASSUME TreeAssumption, CallsAssumption, WalkAssumption, ExitsStay, IInv, SInv, [Next]_vars
    PROVE  SInv'
<1>1. CASE Call \/ EnterNow \/ SetHistory \/ Continue \/ Respawn
  BY <1>1, restStarted
<1>2. CASE Transit \/ Terminate \/ Terminated \/ _complete_transition
  BY <1>2, transitStarted, terminateStarted, cleanedStarted
<1>3. CASE Transited \/ Exited \/ settled \/ history_child_ \/ enter_stable_state
  BY <1>3, CalmSteps
<1>4. CASE prepare_target_path \/ exit_state \/ on__exit
  BY <1>4, prepare_target_pathStarted, exit_stateStarted, on__exitStarted
<1>5. CASE enter_target_state \/ Entered \/ Region
  BY <1>5, enter_target_stateStarted, downStarted
<1>6. CASE Abort \/ UNCHANGED vars
  <2>1. UNCHANGED <<active, target, started, stack>>
    BY <1>6 DEF Abort, vars, flags, targets
  <2>2. Inside' = Inside
    BY <2>1 DEF Inside
  <2> QED
    BY <2>1, <2>2 DEF SInv, EndsOutside, Off
<1> QED
  BY <1>1, <1>2, <1>3, <1>4, <1>5, <1>6 DEF Next, Step

\* The second invariant always holds, when no exit action ends the machine.
LEMMA InductiveStarted == ASSUME ExitsStay PROVE Spec => []SInv
<1>1. Init => SInv
  BY InitSInv
<1>2. IInv /\ SInv /\ [Next]_vars => SInv'
  BY NextSInv, TreeAssumption, CallsAssumption, WalkAssumption
<1> QED
  BY <1>1, <1>2, Inductive, PTL DEF Spec

(* No state is in unless on__startup has run and on__cleanup has not, when no*)
(* exit action asks for the end of the machine.                              *)
THEOREM InOnlyWhileStarted == ASSUME ExitsStay PROVE Spec => []StartedWhileIn
<1>1. SInv => StartedWhileIn
  <2>1. Configuration \subseteq Inside
    BY DEF Configuration, Inside
  <2> QED
    BY <2>1 DEF SInv, Off, StartedWhileIn
<1> QED
  BY <1>1, InductiveStarted, PTL

\* Only two steps call entry and exit actions.
LEMMA OtherFlags ==
    ASSUME TreeAssumption, IInv, [Next]_vars, ~ enter_target_state, ~ on__exit, NEW s \in States
    PROVE  active'[s] = active[s] \/ active'[s] \in {0, -1}
<1>1. active \in [States -> -2..1]
  BY DEF IInv, Typed
<1>2. CASE UNCHANGED active
  BY <1>2
<1>3. CASE Respawn
  BY <1>3 DEF Respawn
<1>4. CASE exit_state
  <2> DEFINE t == Top.state
  <2> HIDE DEF t
  <2>1. active' = active \/ active' = [active EXCEPT ![t] = -1]
    BY <1>4 DEF exit_state, set_active_flag, flags, t
  <2> QED
    BY <1>1, <2>1
<1>5. CASE Exited
  <2> DEFINE t == Top.state
  <2> HIDE DEF t
  <2>1. active' = active \/ active' = [active EXCEPT ![t] = 0]
    BY <1>5 DEF Exited, set_active_flag, flags, t
  <2> QED
    BY <1>1, <2>1
<1>6. CASE enter_stable_state
  BY <1>6 DEF enter_stable_state
<1>7. CASE Call \/ EnterNow \/ SetHistory \/ Continue \/ Abort \/ UNCHANGED vars
  <2>1. UNCHANGED active
    BY <1>7 DEF Call, EnterNow, SetHistory, Continue, Abort, vars, flags
  <2> QED
    BY <2>1
<1>8. CASE \/ Transit \/ Terminate \/ Transited \/ Terminated \/ prepare_target_path
           \/ Entered \/ Region \/ settled \/ _complete_transition \/ history_child_
  <2>1. UNCHANGED active
    BY <1>8 DEF Transit, Terminate, Transited, Terminated, prepare_target_path, Entered,
                Region, settled, _complete_transition, history_child_, flags
  <2> QED
    BY <2>1
<1> QED
  BY <1>3, <1>4, <1>5, <1>6, <1>7, <1>8 DEF Next, Step

(* Entry actions run from the root downwards and exit actions upwards, in a  *)
(* machine that is started: a state is entered after its parent and while that*)
(* is in, and is out before its parent's exit action runs.                   *)
THEOREM EntriesAndExitsNest == ASSUME ExitsStay PROVE Spec => ActionsNest
<1> DEFINE Nest(s) ==
             /\ active[s] # 1 /\ active'[s] = 1 =>
                  started /\ (s # Root => active[Parent[s]] = 1)
             /\ active[s] # -2 /\ active'[s] = -2 =>
                  started /\ \A c \in ToSet(Kids[s]) : active[c] \in {0, -2}
<1>1. ASSUME IInv, SInv, [Next]_vars, NEW s \in States PROVE Nest(s)
  <2>1. CASE ~ enter_target_state /\ ~ on__exit
    <3>1. active'[s] = active[s] \/ active'[s] \in {0, -1}
      BY <1>1, <2>1, OtherFlags, TreeAssumption
    <3> QED
      BY <3>1
  <2>2. CASE enter_target_state
    <3> DEFINE t == Top.state
    <3>1. /\ stack # <<>> /\ Top.fn = "enter_target_state" /\ t \in target
          /\ active' = active \/ active' = [active EXCEPT ![t] = 1]
      BY <2>2 DEF enter_target_state, Running, Asserts, set_active_flag, flags
    <3>2. active \in [States -> -2..1]
      BY <1>1 DEF IInv, Typed
    <3>3. started
      BY <1>1, <3>1 DEF SInv, Off
    <3>4. t # Root => active[Parent[t]] = 1
      <4>1. 1 \in DOMAIN stack /\ stack[1] = Top
        BY <1>1, <3>1 DEF IInv, Typed, Top
      <4> QED
        BY <1>1, <3>1, <4>1 DEF IInv, EntersInside
    <3> HIDE DEF t
    <3>5. s = t \/ active'[s] = active[s]
      BY <3>1, <3>2
    <3>6. active'[s] # -2 \/ active'[s] = active[s]
      BY <3>1, <3>2
    <3> QED
      BY <3>3, <3>4, <3>5, <3>6
  <2>3. CASE on__exit
    <3> DEFINE t == Top.state
    <3>1. /\ stack # <<>> /\ Top.fn = "on__exit"
          /\ active' = active \/ (active[t] = -1 /\ active' = [active EXCEPT ![t] = -2])
      BY <2>3 DEF on__exit, Running, set_active_flag, flags
    <3>2. active \in [States -> -2..1] /\ Typed /\ t \in States
      BY <1>1, <3>1, TopIs DEF IInv, Typed
    <3>3. ASSUME active[t] = -1
          PROVE  started /\ \A c \in ToSet(Kids[t]) : active[c] \in {0, -2}
      <4>1. t \in Inside
        BY <3>2, <3>3 DEF Inside
      <4>2. started
        BY <1>1, <4>1 DEF SInv, Off
      <4>3. 1 \in DOMAIN stack /\ stack[1] = Top /\ \A j \in DOMAIN stack : ~ (j < 1)
        BY <3>1, <3>2 DEF Typed, Top
      <4>4. \A c \in Inside : ~ IsChild(c, t)
        BY <1>1, <3>1, <4>3 DEF IInv, ChildrenFirst
      <4>5. ToSet(Kids[t]) = {c \in States : IsChild(c, t)}
        BY <3>2, ChildrenOf, TreeAssumption
      <4> HIDE DEF t
      <4>6. ASSUME NEW c \in ToSet(Kids[t]) PROVE active[c] \in {0, -2}
        <5>1. c \in States /\ c \notin Inside
          BY <4>4, <4>5
        <5>2. active[c] \in -2..1 /\ active[c] \notin {1, -1}
          BY <3>2, <5>1 DEF Inside
        <5> QED
          BY <5>2
      <4> QED
        BY <4>2, <4>6
    <3> HIDE DEF t
    <3>4. active'[s] # 1 \/ active'[s] = active[s]
      BY <3>1, <3>2
    <3>5. active'[s] = active[s] \/ (s = t /\ active[t] = -1)
      BY <3>1, <3>2
    <3> QED
      BY <3>3, <3>4, <3>5
  <2> QED
    BY <2>1, <2>2, <2>3
<1>2. IInv /\ SInv /\ [Next]_vars => [\A s \in States : Nest(s)]_vars
  BY <1>1
<1> QED
  BY <1>2, Inductive, InductiveStarted, PTL DEF Spec, ActionsNest
-------------------------------------------------------------------------------
(* A machine restored from save_machine_state.                                 *)

\* A configuration a machine can rest in: closed upwards, with one child of each
\* OR state and every child of each AND state.
Whole(conf) ==
    /\ conf \subseteq States
    /\ \A s \in conf : Above[s] \subseteq conf
    /\ \A s \in conf : IsOr(s) =>
         /\ \E c \in conf : IsChild(c, s)
         /\ \A c, d \in conf : IsChild(c, s) /\ IsChild(d, s) => c = d
    /\ \A s \in conf : IsAnd(s) => \A c : IsChild(c, s) => c \in conf

\* The calls that have still to aim at a state.
Aiming == {"transit", "prepare_target_path"}

\* A call of a machine that is being restored aims at a state of conf, and no
\* call ends the machine or runs an exit action.
Fits(call, conf) ==
    /\ call.fn \notin {"terminate", "terminated", "on__exit", "exited"}
    /\ call.fn \in Aiming => call.state \in conf
    /\ call.fn = "transit" => call.kept = NoState

\* Every state of conf is a target or on the way to a state that a call will aim
\* at, and nothing else is aimed at; until they all have, no state is in.
RestoresTo(conf) ==
    /\ Whole(conf) /\ target \subseteq conf
    /\ \A i \in DOMAIN stack : Fits(stack[i], conf)
    /\ (\E i \in DOMAIN stack : stack[i].fn \notin Entering) => \A s \in States : active[s] = 0
    /\ \A s \in conf \ target : \E i \in DOMAIN stack :
         stack[i].fn \in Aiming /\ s \in Above[stack[i].state] \cup {stack[i].state}

\* The third invariant.
RInv == saved # <<>> => RestoresTo(saved[1].active)

\* A step of a machine that is being restored.
LEMMA RestoreKept ==
    ASSUME NEW conf, RestoresTo(conf), NEW fs, Moved(fs),
           \A i \in DOMAIN fs : Fits(fs[i], conf),
           \/ UNCHANGED active
           \/ /\ \A i \in DOMAIN stack : stack[i].fn \in Entering
              /\ \A i \in DOMAIN fs : fs[i].fn \in Entering,
           \A i \in DOMAIN fs : fs[i].fn \notin Entering => Top.fn \notin Entering,
           target \subseteq target', target' \subseteq conf,
           Top.fn \in Aiming => \A s \in Above[Top.state] \cup {Top.state} :
               \/ s \in target'
               \/ \E i \in DOMAIN fs :
                    fs[i].fn \in Aiming /\ s \in Above[fs[i].state] \cup {fs[i].state}
    PROVE  RestoresTo(conf)'
<1>1. \A i \in DOMAIN stack' : Fits(stack'[i], conf)
  <2> SUFFICES ASSUME NEW i \in DOMAIN stack' PROVE Fits(stack'[i], conf)
    OBVIOUS
  <2>1. CASE i \in DOMAIN fs
    BY <2>1 DEF Moved
  <2>2. CASE i \notin DOMAIN fs
    <3>1. PICK k \in DOMAIN stack : stack'[i] = stack[k]
      BY <2>2 DEF Moved
    <3> QED
      BY <3>1 DEF RestoresTo
  <2> QED
    BY <2>1, <2>2
<1>2. ASSUME NEW i \in DOMAIN stack', stack'[i].fn \notin Entering
      PROVE  \A s \in States : active'[s] = 0
  <2>1. \E k \in DOMAIN stack : stack[k].fn \notin Entering
    <3>1. CASE i \in DOMAIN fs
      <4>1. fs[i].fn \notin Entering
        BY <1>2, <3>1 DEF Moved
      <4>2. Top.fn \notin Entering
        BY <3>1, <4>1
      <4> QED
        BY <4>2 DEF Moved
    <3>2. CASE i \notin DOMAIN fs
      <4>1. PICK k \in DOMAIN stack : stack'[i] = stack[k]
        BY <3>2 DEF Moved
      <4> QED
        BY <1>2, <4>1
    <3> QED
      BY <3>1, <3>2
  <2> QED
    BY <2>1 DEF RestoresTo
<1>3. ASSUME NEW s \in conf, s \notin target'
      PROVE  \E i \in DOMAIN stack' :
               stack'[i].fn \in Aiming /\ s \in Above[stack'[i].state] \cup {stack'[i].state}
  <2>1. PICK k \in DOMAIN stack : stack[k].fn \in Aiming /\ s \in Above[stack[k].state] \cup {stack[k].state}
    BY <1>3 DEF RestoresTo
  <2>2. CASE k = 1
    <3>1. PICK i \in DOMAIN fs : fs[i].fn \in Aiming /\ s \in Above[fs[i].state] \cup {fs[i].state}
      BY <1>3, <2>1, <2>2 DEF Moved
    <3> QED
      BY <3>1 DEF Moved
  <2>3. CASE k # 1
    <3>1. k > 1
      BY <2>3 DEF Moved
    <3> QED
      BY <2>1, <3>1 DEF Moved
  <2> QED
    BY <2>2, <2>3
<1>4. Whole(conf)
  BY DEF RestoresTo
<1>5. /\ target' \subseteq conf
      /\ (\E i \in DOMAIN stack' : stack'[i].fn \notin Entering) => \A s \in States : active'[s] = 0
      /\ \A s \in conf \ target' : \E i \in DOMAIN stack' :
           stack'[i].fn \in Aiming /\ s \in Above[stack'[i].state] \cup {stack'[i].state}
  BY <1>2, <1>3
<1> QED
  BY <1>1, <1>4, <1>5 DEF RestoresTo, Whole

\* Once states are entered, all of conf is aimed at.
LEMMA RestoreEntering ==
    ASSUME IInv, NEW conf, RestoresTo(conf), stack # <<>>, Top.fn \in Entering
    PROVE  /\ \A i \in DOMAIN stack : stack[i].fn \in Entering
           /\ target = conf /\ Inside \subseteq target
<1>1. 1 \in DOMAIN stack /\ stack[1] = Top /\ DOMAIN stack \subseteq Nat \ {0}
  BY DEF IInv, Typed, Top
<1>2. ASSUME NEW i \in DOMAIN stack PROVE stack[i].fn \in Entering
  <2>1. CASE i = 1
    BY <1>1, <2>1
  <2>2. CASE i # 1
    <3>1. 1 < i
      BY <1>1, <2>2
    <3> QED
      BY <1>1, <3>1 DEF IInv, EntersLast
  <2> QED
    BY <2>1, <2>2
<1>3. \A f \in Entering : f \notin Aiming /\ f \notin Leaving
  BY DEF Entering, Aiming, Leaving
<1>4. \A s : ~ Doomed(s)
  BY <1>2, <1>3 DEF Doomed
<1> QED
  BY <1>2, <1>3, <1>4 DEF RestoresTo, IInv, Aimed

\* Every one of these calls fits.
LEMMA CallFits ==
    ASSUME NEW conf, NEW fn \in Functions \ ({"terminate", "terminated", "on__exit", "exited"} \cup Aiming),
           NEW s, NEW kept
    PROVE  Fits(Frame(fn, s, kept), conf) /\ Frame(fn, s, kept).fn = fn
BY DEF Fits, Frame, Aiming

\* A step that calls nothing.
LEMMA RestoreReturns ==
    ASSUME IInv, NEW conf, RestoresTo(conf), stack # <<>>, Becomes(<<>>),
           UNCHANGED <<active, target>>, Top.fn \notin Aiming
    PROVE  RestoresTo(conf)'
<1>1. <<>> \in Seq(Frames) /\ DOMAIN <<>> = {}
  OBVIOUS
<1>2. Moved(<<>>)
  BY <1>1, StackTyped
<1> QED
  BY <1>1, <1>2, RestoreKept DEF RestoresTo

\* An entering step that calls only entering.
LEMMA RestoreEnters ==
    ASSUME IInv, NEW conf, RestoresTo(conf), stack # <<>>, Top.fn \in Entering,
           NEW fs \in Seq(Frames), Becomes(fs), \A i \in DOMAIN fs : fs[i].fn \in Entering,
           UNCHANGED target
    PROVE  RestoresTo(conf)'
<1>1. Moved(fs)
  BY StackTyped
<1>2. \A f \in Entering : f \notin {"terminate", "terminated", "on__exit", "exited"} \cup Aiming \cup {"transit"}
  BY DEF Entering, Aiming
<1>3. \A i \in DOMAIN fs : Fits(fs[i], conf)
  BY <1>2 DEF Fits
<1>4. \A i \in DOMAIN stack : stack[i].fn \in Entering
  BY RestoreEntering
<1>5. target \subseteq conf /\ Top.fn \notin Aiming
  BY <1>2 DEF RestoresTo
<1> QED
  BY <1>1, <1>3, <1>4, <1>5, RestoreKept

\* The transit of a machine with no state in goes on to prepare_target_path.
LEMMA RestoreTransit ==
    ASSUME TreeAssumption, IInv, NEW conf, RestoresTo(conf), Transit PROVE RestoresTo(conf)'
<1> DEFINE to   == Top.state
           aim  == Frame("prepare_target_path", to, 0)
           back == Frame("transited", to, level)
           fs   == <<aim, back>>
<1>1. stack # <<>> /\ Top.fn = "transit" /\ UNCHANGED active
  BY DEF Transit, Running, flags
<1>2. 1 \in DOMAIN stack /\ stack[1] = Top /\ to \in States /\ level \in Int
  BY <1>1, TopIs DEF IInv, Typed, Top
<1>3. /\ Fits(Top, conf) /\ to \in conf /\ Top.kept = NoState
      /\ \A s \in States : active[s] = 0
  BY <1>1, <1>2 DEF RestoresTo, Fits, Aiming, Entering
<1>4. ExitPoint(to, Top.kept) = NoState
  BY <1>2, <1>3 DEF ExitPoint
<1>5. Becomes(fs) /\ UNCHANGED targets
  BY <1>4 DEF Transit
<1>6. /\ aim \in Frames /\ aim.fn = "prepare_target_path" /\ aim.state = to
      /\ back \in Frames /\ back.fn = "transited"
  BY <1>2 DEF Frame, Frames
<1>7. Fits(aim, conf) /\ Fits(back, conf)
  BY <1>3, <1>6 DEF Fits, Aiming
<1> HIDE DEF aim, back, to
<1>8. fs \in Seq(Frames) /\ DOMAIN fs = {1, 2} /\ fs[1] = aim /\ fs[2] = back
  BY <1>6
<1> HIDE DEF fs
<1>9. Moved(fs)
  BY <1>1, <1>5, <1>8, StackTyped
<1>10. Top.fn \notin Entering /\ target' = target /\ target \subseteq conf
  BY <1>1, <1>5 DEF Entering, targets, RestoresTo
<1>11. \A s \in Above[Top.state] \cup {Top.state} : \E i \in DOMAIN fs :
           fs[i].fn \in Aiming /\ s \in Above[fs[i].state] \cup {fs[i].state}
  BY <1>6, <1>8 DEF Aiming, to
<1> QED
  BY <1>1, <1>7, <1>8, <1>9, <1>10, <1>11, RestoreKept

\* prepare_target_path adds what is missing above its state; what is there already
\* leads the same way, for conf has one child of an OR state.
LEMMA RestoreAims ==
    ASSUME TreeAssumption, IInv, NEW conf, RestoresTo(conf), prepare_target_path
    PROVE  RestoresTo(conf)'
<1> DEFINE s == Top.state
           p == Joint(s)
           old == IF p # NoState /\ IsOr(p) THEN target_child[p] ELSE NoState
<1>1. stack # <<>> /\ Top.fn = "prepare_target_path" /\ Asserts /\ UNCHANGED active
  BY DEF prepare_target_path, Running, flags
<1>2. 1 \in DOMAIN stack /\ stack[1] = Top /\ s \in States
  BY <1>1, TopIs DEF IInv, Typed, Top
<1>3. /\ s \in conf /\ Top.fn \notin Entering /\ Top.fn \in Aiming
      /\ \A t \in States : active[t] = 0
  BY <1>1, <1>2 DEF RestoresTo, Fits, Aiming, Entering
<1>4. /\ target \in SUBSET States /\ Path /\ Whole(conf) /\ target \subseteq conf
      /\ NoState \notin States
  BY DEF IInv, Typed, RestoresTo, TreeAssumption
<1>5. CASE s \in target
  <2> DEFINE f  == Frame("exit_state", s, 0)
             fs == <<f>>
  <2>1. Becomes(fs) /\ UNCHANGED targets
    BY <1>5 DEF prepare_target_path
  <2>2. f \in Frames /\ f.fn = "exit_state" /\ Fits(f, conf)
    BY <1>2 DEF Frame, Frames, Fits, Aiming
  <2> HIDE DEF f
  <2>3. fs \in Seq(Frames) /\ DOMAIN fs = {1} /\ fs[1] = f
    BY <2>2
  <2> HIDE DEF fs
  <2>4. Moved(fs)
    BY <1>1, <2>1, <2>3, StackTyped
  <2>5. target' = target /\ \A t \in Above[s] \cup {s} : t \in target
    BY <1>4, <1>5, <2>1 DEF targets, Path
  <2> QED
    BY <1>1, <1>3, <1>4, <2>2, <2>3, <2>4, <2>5, RestoreKept
<1>6. CASE s \notin target
  <2>1. /\ s \in Untargeted(s) /\ Untargeted(s) \subseteq Above[s] \cup {s}
        /\ \A v \in Above[s] : v \in Untargeted(s) \/ (p # NoState /\ v \in Above[p] \cup {p})
        /\ p # NoState => p \in target /\ p \in Above[s]
    BY <1>2, <1>4, <1>6, JoinsPath
  <2>2. old = NoState
    <3> SUFFICES ASSUME old # NoState PROVE FALSE
      OBVIOUS
    <3>1. p # NoState /\ IsOr(p) /\ old = target_child[p] /\ p \in target /\ p \in Above[s]
      BY <2>1
    <3>2. old # Toward(p, s) /\ old \in target /\ IsChild(old, p)
      <4>1. target_child[p] # Toward(p, s) /\ target_child[p] \in target
        BY <1>1, <1>6, <3>1 DEF Asserts
      <4> QED
        BY <1>4, <3>1, <4>1 DEF IInv, Typed
    <3>3. IsChild(Toward(p, s), p) /\ Toward(p, s) \in Above[s] \cup {s}
      BY <1>2, <3>1, TowardIs
    <3>4. Toward(p, s) \in conf /\ old \in conf /\ p \in conf
      BY <1>3, <1>4, <3>1, <3>2, <3>3 DEF Whole
    <3> QED
      BY <1>4, <3>1, <3>2, <3>3, <3>4 DEF Whole
  <2>3. Becomes(<<>>) /\ target' = target \cup Untargeted(s)
    <3> HIDE DEF old
    <3>1. /\ \E off \in {{}} : set_target_flags(Untargeted(s), off)
          /\ Becomes(<<>>)
      BY <1>6, <2>2 DEF prepare_target_path, old
    <3> QED
      BY <3>1 DEF set_target_flags
  <2>4. Moved(<<>>)
    <3>1. <<>> \in Seq(Frames)
      OBVIOUS
    <3> QED
      BY <1>1, <2>3, <3>1, StackTyped
  <2>5. target' \subseteq conf
    BY <1>3, <1>4, <2>1, <2>3 DEF Whole
  <2>6. \A t \in Above[s] \cup {s} : t \in target'
    BY <1>4, <2>1, <2>3 DEF Path
  <2>7. DOMAIN <<>> = {}
    OBVIOUS
  <2> QED
    BY <1>1, <2>3, <2>4, <2>5, <2>6, <2>7, RestoreKept
<1> QED
  BY <1>5, <1>6

\* exit_state finds no state in.
LEMMA RestoreExits ==
    ASSUME TreeAssumption, IInv, NEW conf, RestoresTo(conf), exit_state
    PROVE  RestoresTo(conf)'
<1>1. stack # <<>> /\ Top.fn = "exit_state"
  BY DEF exit_state, Running
<1>2. 1 \in DOMAIN stack /\ stack[1] = Top /\ Top.state \in States
  BY <1>1, TopIs DEF IInv, Typed, Top
<1>3. active[Top.state] = 0
  BY <1>1, <1>2 DEF RestoresTo, Entering
<1>4. Becomes(<<>>) /\ UNCHANGED <<flags, targets>>
  BY <1>3 DEF exit_state
<1> QED
  BY <1>1, <1>4, RestoreReturns DEF flags, targets, Aiming

\* enter_stable_state and enter_target_state.
LEMMA RestoreInto ==
    ASSUME TreeAssumption, IInv, NEW conf, RestoresTo(conf),
           \/ enter_stable_state
           \/ enter_target_state /\ Becomes(<<Frame("entered", Top.state, level)>>)
    PROVE  RestoresTo(conf)'
<1>1. stack # <<>> /\ Top.fn \in {"enter_stable_state", "enter_target_state"} /\ target' = target
  BY DEF enter_stable_state, enter_target_state, Running, targets
<1>2. Top.state \in States /\ level \in Int /\ Root \in States
  BY <1>1, TopIs DEF IInv, Typed, TreeAssumption
<1>3. \E fs \in Seq(Frames) : Becomes(fs) /\ \A i \in DOMAIN fs : fs[i].fn \in Entering
  <2>1. CASE enter_stable_state
    <3> DEFINE next == Frame(Top.kept, Root, 0)
               down == Frame("enter_target_state", Root, 0)
    <3>1. Becomes(<<down, next>>) \/ Becomes(<<next>>)
      BY <2>1 DEF enter_stable_state
    <3>2. Top.kept \in {"settled", "_complete_transition"}
      <4>1. Top.fn = "enter_stable_state"
        BY <2>1 DEF enter_stable_state, Running
      <4> QED
        BY <1>1, <4>1, TopIs, FramesFields
    <3>3. /\ next \in Frames /\ next.fn \in Entering
          /\ down \in Frames /\ down.fn \in Entering
      BY <1>2, <3>2 DEF Frame, Frames, Entering
    <3> HIDE DEF next, down
    <3>4. Pushes(Entering)
      BY <3>1, <3>3, PushesOne, PushesTwo
    <3> QED
      BY <3>4 DEF Pushes
  <2>2. CASE Becomes(<<Frame("entered", Top.state, level)>>)
    <3> DEFINE f == Frame("entered", Top.state, level)
    <3>1. f \in Frames /\ f.fn \in Entering
      BY <1>2 DEF Frame, Frames, Entering
    <3>2. Becomes(<<f>>)
      BY <2>2
    <3> HIDE DEF f
    <3>3. Pushes(Entering)
      BY <3>1, <3>2, PushesOne
    <3> QED
      BY <3>3 DEF Pushes
  <2> QED
    BY <2>1, <2>2
<1>4. Top.fn \in Entering
  BY <1>1 DEF Entering
<1> QED
  BY <1>1, <1>3, <1>4, RestoreEnters

\* On the way down an OR state has its child of conf for its target, and so has
\* an AND state all of its regions.
LEMMA RestoreDown ==
    ASSUME TreeAssumption, IInv, NEW conf, RestoresTo(conf), Entered \/ Region
    PROVE  RestoresTo(conf)'
<1> DEFINE s     == Top.state
           inner == IF target_child[s] # NoState THEN target_child[s] ELSE DefaultChild(s)
           i     == Top.kept
<1>1. stack # <<>> /\ Top.fn \in {"entered", "region"}
  BY DEF Entered, Region, Running
<1>2. Top.fn \in Entering /\ s \in States
  BY <1>1, TopIs DEF Entering
<1>3. target = conf /\ Inside \subseteq target /\ Whole(conf) /\ Path /\ NoState \notin States
  BY <1>1, <1>2, RestoreEntering DEF RestoresTo, IInv, TreeAssumption
<1>4. active[s] = 1 => s \in conf
  BY <1>2, <1>3 DEF Inside
<1>5. ASSUME active[s] = 1, IsOr(s) PROVE inner \in target
  <2> HIDE DEF s
  <2>1. PICK c \in conf : IsChild(c, s)
    BY <1>3, <1>4, <1>5 DEF Whole
  <2>2. target_child[s] = c
    BY <1>3, <1>5, <2>1 DEF Path, IsChild
  <2> QED
    BY <1>3, <2>1, <2>2 DEF IsChild
<1>6. ASSUME Top.fn = "region", active[s] = 1, i <= Len(Kids[s]) PROVE Kids[s][i] \in target
  <2>1. IsAnd(s) /\ i \in Nat \ {0}
    BY <1>1, <1>6, TopIs, FramesFields
  <2> HIDE DEF s, i
  <2>2. Kids[s] \in Seq(States)
    BY <1>2 DEF TreeAssumption
  <2>3. Kids[s][i] \in ToSet(Kids[s])
    BY <1>6, <2>1, <2>2 DEF ToSet
  <2>4. IsChild(Kids[s][i], s)
    BY <1>2, <2>3, ChildrenOf
  <2> QED
    BY <1>3, <1>4, <1>6, <2>1, <2>4 DEF Whole
<1>7. UNCHANGED target
  <2>1. CASE Entered
    <3> HIDE DEF inner
    <3>1. CASE active[s] = 1 /\ IsOr(s)
      BY <1>5, <2>1, <3>1 DEF Entered, targets, inner
    <3>2. CASE ~ (active[s] = 1 /\ IsOr(s))
      BY <2>1, <3>2 DEF Entered, targets
    <3> QED
      BY <3>1, <3>2
  <2>2. CASE Region
    <3>1. CASE active[s] = 1 /\ i <= Len(Kids[s])
      <4>1. Kids[s][i] \in target /\ set_target_flags({Kids[s][i]}, {})
        BY <1>6, <2>2, <3>1 DEF Region, Running
      <4> QED
        BY <4>1 DEF set_target_flags
    <3>2. CASE ~ (active[s] = 1 /\ i <= Len(Kids[s]))
      BY <2>2, <3>2 DEF Region
    <3> QED
      BY <3>1, <3>2
  <2> QED
    BY <2>1, <2>2
<1>8. /\ \/ active[s] = 1 /\ IsOr(s) /\ Becomes(<<Frame("enter_target_state", inner, 0)>>)
         \/ IsAnd(s) /\ Becomes(<<Frame("region", s, 1)>>)
         \/ /\ Top.fn = "region" /\ active[s] = 1 /\ i <= Len(Kids[s])
            /\ Becomes(<<Frame("enter_target_state", Kids[s][i], 0), Frame("region", s, i + 1)>>)
         \/ Becomes(<<>>)
  BY <1>1 DEF Entered, Region, Running
<1>9. Top.fn = "region" => IsAnd(s) /\ i \in Nat \ {0}
  BY <1>1, TopIs, FramesFields
<1>10. target \in SUBSET States
  BY DEF IInv, Typed
<1> HIDE DEF s, i, inner
<1>11. \A t \in States : /\ Frame("enter_target_state", t, 0) \in Frames
                         /\ Frame("enter_target_state", t, 0).fn \in Entering
  BY DEF Frame, Frames, Entering
<1>12. \A n \in Nat \ {0} : IsAnd(s) => /\ Frame("region", s, n) \in Frames
                                        /\ Frame("region", s, n).fn \in Entering
  BY <1>2 DEF Frame, Frames, Entering
<1>13. Pushes(Entering)
  <2>1. CASE Becomes(<<>>)
    BY <2>1, PushesNone
  <2>2. CASE active[s] = 1 /\ IsOr(s) /\ Becomes(<<Frame("enter_target_state", inner, 0)>>)
    <3>1. inner \in States
      BY <1>5, <1>10, <2>2
    <3> QED
      BY <1>11, <2>2, <3>1, PushesOne
  <2>3. CASE IsAnd(s) /\ Becomes(<<Frame("region", s, 1)>>)
    BY <1>12, <2>3, PushesOne
  <2>4. CASE /\ Top.fn = "region" /\ active[s] = 1 /\ i <= Len(Kids[s])
             /\ Becomes(<<Frame("enter_target_state", Kids[s][i], 0), Frame("region", s, i + 1)>>)
    <3>1. Kids[s][i] \in States /\ i + 1 \in Nat \ {0}
      BY <1>6, <1>9, <1>10, <2>4
    <3>2. /\ Frame("enter_target_state", Kids[s][i], 0) \in Frames
          /\ Frame("enter_target_state", Kids[s][i], 0).fn \in Entering
      BY <1>11, <3>1
    <3>3. Frame("region", s, i + 1) \in Frames /\ Frame("region", s, i + 1).fn \in Entering
      BY <1>9, <1>12, <2>4, <3>1
    <3> QED
      BY <2>4, <3>2, <3>3, PushesTwo
  <2> QED
    BY <1>8, <2>1, <2>2, <2>3, <2>4
<1>14. PICK fs \in Seq(Frames) : Becomes(fs) /\ \A k \in DOMAIN fs : fs[k].fn \in Entering
  BY <1>13 DEF Pushes
<1> QED
  BY <1>1, <1>2, <1>7, <1>14, RestoreEnters

\* A configuration at rest is whole, and the calls that restore it aim at it.
LEMMA RestoreStarts ==
    ASSUME TreeAssumption, WalkAssumption, IInv, Respawn
    PROVE  saved' # <<>> /\ RestoresTo(saved[1].active)'
<1> DEFINE conf == Configuration
<1>1. /\ Idle /\ Stable /\ stack' = _start_copy(save_machine_state)
      /\ saved' = <<save_machine_state>> /\ target' = {}
      /\ active' = [s \in States |-> 0]
  BY DEF Respawn, InHandler, Asks
<1>2. saved' # <<>> /\ saved'[1].active = conf
  BY <1>1 DEF save_machine_state
<1>3. conf = target /\ Legal(conf) /\ Typed /\ Path
  BY <1>1, SettledIs DEF IInv
<1>4. Whole(conf)
  <2>1. conf \subseteq States /\ \A s \in conf : Above[s] \subseteq conf
    BY <1>3 DEF Typed, Path
  <2>2. ASSUME NEW s \in conf
        PROVE  /\ IsOr(s) => /\ \E c \in conf : IsChild(c, s)
                             /\ \A c, d \in conf : IsChild(c, s) /\ IsChild(d, s) => c = d
               /\ IsAnd(s) => \A c : IsChild(c, s) => c \in conf
    <3>1. s \in States
      BY <2>1
    <3>2. ToSet(Kids[s]) = {c \in States : IsChild(c, s)}
      BY <3>1, ChildrenOf
    <3>3. /\ IsOr(s) => conf \cap ToSet(Kids[s]) = {active_child[s]}
          /\ IsAnd(s) => conf \cap ToSet(Kids[s]) = ToSet(Kids[s])
      BY <1>3, <2>2, <3>1 DEF Legal
    <3> HIDE DEF conf
    <3>4. ASSUME IsOr(s)
          PROVE  /\ \E c \in conf : IsChild(c, s)
                 /\ \A c, d \in conf : IsChild(c, s) /\ IsChild(d, s) => c = d
      <4> DEFINE c == active_child[s]
      <4>1. conf \cap {d \in States : IsChild(d, s)} = {c}
        BY <3>2, <3>3, <3>4
      <4> HIDE DEF c
      <4>2. c \in conf /\ IsChild(c, s)
        BY <4>1
      <4>3. ASSUME NEW d \in conf, IsChild(d, s) PROVE d = c
        <5>1. d \in conf \cap {e \in States : IsChild(e, s)}
          BY <2>1, <4>3
        <5> QED
          BY <4>1, <5>1
      <4> QED
        BY <4>2, <4>3
    <3>5. ASSUME IsAnd(s), NEW c, IsChild(c, s) PROVE c \in conf
      <4>1. c \in ToSet(Kids[s])
        BY <3>2, <3>5 DEF IsChild
      <4> QED
        BY <3>3, <3>5, <4>1
    <3> QED
      BY <3>4, <3>5
  <2> HIDE DEF conf
  <2> QED
    BY <2>1, <2>2 DEF Whole
<1>5. /\ \A i \in DOMAIN stack' : stack'[i].fn \in {"transit", "history_child_"}
      /\ \A i \in DOMAIN stack' : stack'[i].fn = "transit" =>
           stack'[i].state \in conf /\ stack'[i].kept = NoState
      /\ \A s \in conf : \E i \in DOMAIN stack' :
           stack'[i].fn = "transit" /\ s \in Above[stack'[i].state] \cup {stack'[i].state}
  <2> HIDE DEF conf
  <2> QED
    BY <1>1, <1>3, StartsCopy
<1> HIDE DEF conf
<1>6. \A i \in DOMAIN stack' : Fits(stack'[i], conf)
  BY <1>5 DEF Fits, Aiming
<1>7. \A s \in States : active'[s] = 0
  BY <1>1
<1>8. \A s \in conf : \E i \in DOMAIN stack' :
          stack'[i].fn \in Aiming /\ s \in Above[stack'[i].state] \cup {stack'[i].state}
  BY <1>5 DEF Aiming
<1>9. /\ Whole(conf) /\ target' \subseteq conf
      /\ (\E i \in DOMAIN stack' : stack'[i].fn \notin Entering) => \A s \in States : active'[s] = 0
      /\ \A s \in conf \ target' : \E i \in DOMAIN stack' :
           stack'[i].fn \in Aiming /\ s \in Above[stack'[i].state] \cup {stack'[i].state}
  BY <1>1, <1>4, <1>7, <1>8
<1> QED
  BY <1>2, <1>6, <1>9 DEF RestoresTo, Whole

\* Entering from rest asks nothing.
LEMMA RestoreResumes ==
    ASSUME TreeAssumption, IInv, NEW conf, RestoresTo(conf), EnterNow \/ Continue
    PROVE  RestoresTo(conf)'
<1>1. /\ stack = <<>> /\ UNCHANGED <<flags, targets>>
      /\ \E kept \in {"settled", "_complete_transition"} :
           stack' = <<Frame("enter_stable_state", Root, kept)>>
  BY DEF EnterNow, Continue, InHandler, Idle, Asks
<1>2. /\ UNCHANGED <<active, target>> /\ DOMAIN stack = {}
  BY <1>1 DEF flags, targets
<1>3. \A i \in DOMAIN stack' : stack'[i].fn = "enter_stable_state"
  BY <1>1 DEF Frame
<1>4. \A i \in DOMAIN stack' : Fits(stack'[i], conf) /\ stack'[i].fn \in Entering
  BY <1>3 DEF Fits, Aiming, Entering
<1>5. /\ Whole(conf) /\ target' \subseteq conf
      /\ (\E i \in DOMAIN stack' : stack'[i].fn \notin Entering) => \A s \in States : active'[s] = 0
      /\ conf \ target' = {}
  BY <1>2, <1>4 DEF RestoresTo
<1> QED
  BY <1>4, <1>5 DEF RestoresTo, Whole

\* Every step keeps the third invariant.
LEMMA NextRInv ==
    ASSUME TreeAssumption, CallsAssumption, WalkAssumption, IInv, RInv, [Next]_vars PROVE RInv'
<1>1. CASE Call \/ SetHistory
  BY <1>1 DEF Call, SetHistory, RInv
<1>2. CASE Respawn
  BY <1>2, RestoreStarts DEF RInv
<1>3. ASSUME NEW conf, RestoresTo(conf),
             \/ Terminate \/ Terminated \/ on__exit \/ Exited
      PROVE  FALSE
  <2>1. stack # <<>> /\ Top.fn \in {"terminate", "terminated", "on__exit", "exited"}
    BY <1>3 DEF Terminate, Terminated, on__exit, Exited, Running
  <2>2. 1 \in DOMAIN stack /\ stack[1] = Top
    BY <2>1 DEF IInv, Typed, Top
  <2> QED
    BY <1>3, <2>1, <2>2 DEF RestoresTo, Fits
<1>4. CASE enter_target_state /\ saved' # saved
  <2>1. saved' = <<>>
    BY <1>4 DEF enter_target_state, UserAction
  <2> QED
    BY <2>1 DEF RInv
<1>5. ASSUME saved' = saved, ~ Call, ~ SetHistory, ~ Respawn, saved # <<>>
      PROVE  RestoresTo(saved[1].active)'
  <2> PICK conf : conf = saved[1].active
    OBVIOUS
  <2>1. RestoresTo(conf) /\ saved'[1].active = conf
    BY <1>5 DEF RInv
  <2>2. RestoresTo(conf)'
    <3>1. CASE EnterNow \/ Continue
      BY <2>1, <3>1, RestoreResumes
    <3>2. CASE Transit
      BY <2>1, <3>2, RestoreTransit
    <3>3. CASE prepare_target_path
      BY <2>1, <3>3, RestoreAims
    <3>4. CASE exit_state
      BY <2>1, <3>4, RestoreExits
    <3>5. CASE enter_stable_state
      BY <2>1, <3>5, RestoreInto
    <3>6. CASE enter_target_state
      <4>1. Becomes(<<Frame("entered", Top.state, level)>>)
        BY <1>5, <3>6 DEF enter_target_state, UserAction
      <4> QED
        BY <2>1, <3>6, <4>1, RestoreInto
    <3>7. CASE Entered \/ Region
      BY <2>1, <3>7, RestoreDown
    <3>8. CASE Transited \/ settled \/ _complete_transition \/ history_child_
      <4>1. /\ stack # <<>> /\ Becomes(<<>>) /\ UNCHANGED <<active, target>>
            /\ Top.fn \in {"transited", "settled", "_complete_transition", "history_child_"}
        BY <3>8 DEF Transited, settled, _complete_transition, history_child_, Running, flags, targets
      <4>2. Top.fn \notin Aiming
        BY <4>1 DEF Aiming
      <4> QED
        BY <2>1, <4>1, <4>2, RestoreReturns
    <3>9. CASE Abort \/ UNCHANGED vars
      <4>1. UNCHANGED <<active, target, stack>>
        BY <3>9 DEF Abort, vars, flags, targets
      <4> QED
        BY <2>1, <4>1 DEF RestoresTo, Whole
    <3> QED
      BY <1>3, <1>5, <2>1, <3>1, <3>2, <3>3, <3>4, <3>5, <3>6, <3>7, <3>8, <3>9 DEF Next, Step
  <2> QED
    BY <2>1, <2>2 DEF RestoresTo, Whole
<1>6. saved' = saved \/ Call \/ SetHistory \/ Respawn \/ enter_target_state \/ on__exit
  BY DEF Next, Step, Call, EnterNow, SetHistory, Respawn, Continue, Abort, vars,
         Transit, Terminate, Transited, Terminated, prepare_target_path, exit_state, Exited,
         enter_stable_state, Entered, Region, settled, _complete_transition, history_child_
<1>7. CASE on__exit /\ saved' # saved
  <2>1. saved' = <<>>
    BY <1>7 DEF on__exit, UserAction
  <2> QED
    BY <2>1 DEF RInv
<1> QED
  BY <1>1, <1>2, <1>4, <1>5, <1>6, <1>7 DEF RInv

(* A session saved with its machine, dropped and restored into a fresh one   *)
(* settles in the configuration that was saved, for every tree of states and *)
(* whatever the histories were.                                              *)
THEOREM RestoredIsSame == Spec => []RestoredSame
<1>1. Init => RInv
  BY DEF Init, RInv
<1>2. IInv /\ RInv /\ [Next]_vars => RInv'
  BY NextRInv, TreeAssumption, CallsAssumption, WalkAssumption
<1>3. IInv /\ RInv => RestoredSame
  <2> SUFFICES ASSUME IInv, RInv, Idle, Stable, saved # <<>>
               PROVE  Configuration = saved[1].active
    BY DEF RestoredSame
  <2>1. Configuration = target
    BY SettledIs, TreeAssumption
  <2>2. RestoresTo(saved[1].active) /\ DOMAIN stack = {}
    BY DEF RInv, Idle
  <2> QED
    BY <2>1, <2>2 DEF RestoresTo
<1> QED
  BY <1>1, <1>2, <1>3, Inductive, PTL DEF Spec
-------------------------------------------------------------------------------
(* What users must not do for the assertions of the machine to hold.           *)

\* No entry or exit action asks for a transition.
QuietActions == \A hook \in DOMAIN Asking : Asking[hook] = {}

\* Exit actions ask for nothing, transit_ex() names a state to leave that is not
\* deeper than the one to enter, and handlers set histories only in a machine whose
\* entry actions ask for nothing either.
Careful ==
    /\ \A hook \in DOMAIN Asking : hook[1] = "ex" => Asking[hook] = {}
    /\ \A cmd \in Calls \cup UNION {Asking[hook] : hook \in DOMAIN Asking} :
         cmd.ex # NoState => state_level(cmd.ex) <= state_level(cmd.to)
    /\ HistoryCalls = {} \/ QuietActions

\* How far out a call is: leaving is innermost, then what aims, what follows a
\* transition, what starts one, and entering.
Rank(fn) ==
    CASE fn \in {"exit_state", "on__exit", "exited"} -> 0
      [] fn = "prepare_target_path" -> 1
      [] fn \in {"transited", "terminated"} -> 2
      [] fn \in {"transit", "terminate", "history_child_"} -> 3
      [] OTHER -> 4

\* One transition is under way at a time, with its calls in their order.
Ordered ==
    \A i, j \in DOMAIN stack : i < j =>
        /\ Rank(stack[i].fn) <= Rank(stack[j].fn)
        /\ Rank(stack[i].fn) \in {1, 2} => Rank(stack[i].fn) < Rank(stack[j].fn)

\* The end of exit_state is the innermost call, for a state that is out or has
\* run its exit action.
ExitedLast ==
    \A i \in DOMAIN stack : stack[i].fn = "exited" => i = 1 /\ active[stack[i].state] \in {0, -2}

\* terminate() aims at nothing, and the root is left before it returns.
RootLeaves ==
    (\E i \in DOMAIN stack : stack[i].fn = "terminated") =>
        /\ target = {} /\ \A i \in DOMAIN stack : stack[i].fn # "prepare_target_path"
        /\ \/ active[Root] = 0
           \/ \E i \in DOMAIN stack :
                stack[i].fn \in {"exit_state", "on__exit", "exited"} /\ stack[i].state = Root

\* A child that is aimed at is a target, below one.
Led == \A s \in States : target_child[s] # NoState => s \in target /\ target_child[s] \in target

\* enter_stable_state is called with nothing else under way, and what is entered is
\* a target.
EntersTargets ==
    \A i \in DOMAIN stack :
        /\ stack[i].fn = "enter_stable_state" => DOMAIN stack = {1}
        /\ stack[i].fn = "enter_target_state" => stack[i].state \in target

\* The level is negative only inside of a transition.
LevelUp ==
    /\ \A i \in DOMAIN stack : stack[i].fn \in Restoring => stack[i].kept >= 0
    /\ (\A i \in DOMAIN stack : stack[i].fn \notin {"transited", "terminated"}) => level >= 0

\* If handlers set none, histories are set only while a machine is restored, before a
\* state is in.
SetsFresh ==
    HistoryCalls = {} /\ (\E i \in DOMAIN stack : stack[i].fn = "history_child_") =>
        \A s \in States : active[s] = 0

\* A transition that is asked for is one that Careful allows.
Modest ==
    \A i \in DOMAIN stack : stack[i].fn = "transit" /\ stack[i].kept # NoState =>
        state_level(stack[i].kept) <= state_level(stack[i].state)

\* The calls that leave a state, and those that enter one after the other.
Exits(call, s) == call.fn \in {"exit_state", "on__exit", "exited"} /\ call.state = s
Descending == {"enter_target_state", "entered", "region"}

\* The invariant of a machine whose users are careful.
NInv ==
    /\ Ordered /\ ExitedLast /\ RootLeaves /\ Led /\ EntersTargets /\ LevelUp
    /\ SetsFresh /\ Modest

\* A state that is not out yet is below one that is in, and where an OR state points.
InBelow ==
    \A c \in States \ {Root} : active[c] # 0 =>
        /\ active[Parent[c]] \in {1, -1}
        /\ IsOr(Parent[c]) => active_child[Parent[c]] = c

\* Also children that have run their exit action are out when on__exit runs.
AllLeave ==
    \A i \in DOMAIN stack : stack[i].fn = "on__exit" =>
        \A c \in States : IsChild(c, stack[i].state) /\ active[c] # 0 =>
            \E j \in DOMAIN stack : j < i /\ Exits(stack[j], c)

\* States are entered with no other call under way, and none is half left.
NoneHalf ==
    (\E i \in DOMAIN stack : stack[i].fn \in Descending) =>
        /\ \A i \in DOMAIN stack : stack[i].fn \in Entering
        /\ \A s \in States : active[s] \in {0, 1}

\* The invariant of a machine with QuietActions: no state is left at -2 in a tree
\* that is out.
OInv == InBelow /\ AllLeave /\ NoneHalf

\* The rank of each call.
LEMMA Ranks ==
    /\ Rank("exit_state") = 0 /\ Rank("on__exit") = 0 /\ Rank("exited") = 0
    /\ Rank("prepare_target_path") = 1
    /\ Rank("transited") = 2 /\ Rank("terminated") = 2
    /\ Rank("transit") = 3 /\ Rank("terminate") = 3 /\ Rank("history_child_") = 3
    /\ Rank("enter_stable_state") = 4 /\ Rank("enter_target_state") = 4
    /\ Rank("entered") = 4 /\ Rank("region") = 4 /\ Rank("settled") = 4
    /\ Rank("_complete_transition") = 4
    /\ \A fn : Rank(fn) \in 0..4
    /\ \A fn : Rank(fn) = 0 => fn \in {"exit_state", "on__exit", "exited"}
    /\ \A fn : Rank(fn) = 1 => fn = "prepare_target_path"
    /\ \A fn : Rank(fn) = 2 => fn \in {"transited", "terminated"}
    /\ \A fn : Rank(fn) = 3 => fn \in {"transit", "terminate", "history_child_"}
BY DEF Rank

\* The innermost call has the least rank.
LEMMA LeastRank ==
    ASSUME IInv, Ordered, stack # <<>>
    PROVE  /\ 1 \in DOMAIN stack /\ stack[1] = Top
           /\ \A k \in DOMAIN stack : k # 1 =>
                /\ k > 1 /\ Rank(Top.fn) <= Rank(stack[k].fn)
                /\ Rank(Top.fn) \in {1, 2} => Rank(Top.fn) < Rank(stack[k].fn)
           /\ \A k \in DOMAIN stack : Rank(Top.fn) <= Rank(stack[k].fn)
<1>1. 1 \in DOMAIN stack /\ stack[1] = Top /\ DOMAIN stack \subseteq Nat \ {0}
  BY DEF IInv, Typed, Top
<1>2. \A k \in DOMAIN stack : k # 1 => k > 1
  BY <1>1
<1>3. Rank(Top.fn) \in 0..4
  BY Ranks
<1> QED
  BY <1>1, <1>2, <1>3 DEF Ordered

\* Outside of every exit the counters agree with the assertion: what is in is
\* still aimed at.
LEMMA NothingLeft ==
    ASSUME TreeAssumption, IInv, Ordered, stack # <<>>, Rank(Top.fn) # 0
    PROVE  Inside \subseteq target /\ CountsAgree
<1>1. \A k \in DOMAIN stack : stack[k].fn \notin Leaving
  <2> SUFFICES ASSUME NEW k \in DOMAIN stack, stack[k].fn \in Leaving PROVE FALSE
    OBVIOUS
  <2>1. Rank(stack[k].fn) = 0
    BY Ranks DEF Leaving
  <2>2. Rank(Top.fn) <= 0 /\ Rank(Top.fn) \in 0..4
    BY <2>1, LeastRank, Ranks
  <2> QED
    BY <2>2
<1>2. Inside \subseteq target
  BY <1>1 DEF IInv, Aimed, Doomed
<1>3. active_count <= target_count
  <2> DEFINE on == {s \in States : active[s] > 0}
  <2>1. on \subseteq target
    <3>1. \A s \in States : active[s] \in -2..1
      BY DEF IInv, Typed
    <3>2. ASSUME NEW s \in States, active[s] > 0 PROVE s \in Inside
      <4>1. active[s] \in -2..1
        BY <3>1
      <4>2. active[s] = 1
        BY <3>2, <4>1
      <4> QED
        BY <4>2 DEF Inside
    <3> QED
      BY <1>2, <3>2
  <2>2. target \in SUBSET States /\ IsFiniteSet(States)
    BY DEF IInv, Typed, TreeAssumption
  <2>3. IsFiniteSet(target)
    BY <2>2, FS_Subset
  <2>4. active_count = Cardinality(on) /\ target_count = Cardinality(target)
    BY DEF IInv, Counted
  <2> HIDE DEF on
  <2> QED
    BY <2>1, <2>3, <2>4, FS_Subset
<1> QED
  BY <1>2, <1>3 DEF CountsAgree
-------------------------------------------------------------------------------
(* No assertion fails.                                                         *)

\* Every level up to its own is that of a state above one.
LEMMA LevelsAbove ==
    ASSUME TreeAssumption, NEW s \in States, NEW k \in 0..state_level(s)
    PROVE  \E t \in Above[s] \cup {s} : state_level(t) = k
<1> DEFINE T == {r \in States : \A n \in 0..state_level(r) : \E t \in Above[r] \cup {r} : state_level(t) = n}
<1>1. ASSUME NEW r \in States, r = Root \/ Parent[r] \in T PROVE r \in T
  <2> SUFFICES ASSUME NEW n \in 0..state_level(r)
               PROVE  \E t \in Above[r] \cup {r} : state_level(t) = n
    OBVIOUS
  <2>1. CASE n = state_level(r)
    BY <2>1
  <2>2. CASE n # state_level(r)
    <3>1. r # Root
      <4> SUFFICES ASSUME r = Root PROVE FALSE
        OBVIOUS
      <4>1. state_level(r) = 0
        BY FS_EmptySet DEF state_level, TreeAssumption
      <4> QED
        BY <2>2, <4>1
    <3>2. /\ Parent[r] \in T /\ Above[r] = Above[Parent[r]] \cup {Parent[r]}
          /\ state_level(r) = state_level(Parent[r]) + 1 /\ state_level(Parent[r]) \in Nat
      BY <1>1, <3>1, LevelOfParent, LevelIsNat
    <3>3. n \in 0..state_level(Parent[r])
      BY <2>2, <3>2
    <3> QED
      BY <3>2, <3>3
  <2> QED
    BY <2>1, <2>2
<1> HIDE DEF T
<1>2. States \subseteq T
  BY <1>1, FromTheRoot
<1> QED
  BY <1>2 DEF T

\* Only the root has level 0.
LEMMA LevelZero ==
    ASSUME TreeAssumption, NEW s \in States, state_level(s) = 0 PROVE s = Root
<1> SUFFICES ASSUME s # Root PROVE FALSE
  OBVIOUS
<1>1. state_level(s) = state_level(Parent[s]) + 1 /\ state_level(Parent[s]) \in Nat
  BY LevelOfParent, LevelIsNat
<1> QED
  BY <1>1

\* So many steps up from a state, within the tree.
LEMMA AncestorIs ==
    ASSUME TreeAssumption, NEW s \in States, NEW n \in Nat, n <= state_level(s)
    PROVE  /\ ancestor_state(s, n) \in Above[s] \cup {s} /\ ancestor_state(s, n) \in States
           /\ state_level(ancestor_state(s, n)) = state_level(s) - n
<1>1. state_level(s) \in Nat
  BY LevelIsNat
<1>2. \E t \in Above[s] \cup {s} : state_level(t) = state_level(s) - n
  <2>1. state_level(s) - n \in 0..state_level(s)
    BY <1>1
  <2> QED
    BY <2>1, LevelsAbove
<1>3. ancestor_state(s, n) = CHOOSE t \in Above[s] \cup {s} : state_level(t) = state_level(s) - n
  BY <1>1 DEF ancestor_state
<1>4. /\ ancestor_state(s, n) \in Above[s] \cup {s}
      /\ state_level(ancestor_state(s, n)) = state_level(s) - n
  BY <1>2, <1>3, Zenon
<1> QED
  BY <1>4, AboveAbove

\* common_ancestor works when its first state is not the higher one: it returns a
\* state on the way from there to the root.
LEMMA CommonIs ==
    ASSUME TreeAssumption, NEW s1 \in States, NEW s2 \in States,
           state_level(s2) <= state_level(s1)
    PROVE  common_ancestor(s1, s2) \in Above[s1] \cup {s1}
<1> DEFINE n1 == state_level(s1)
           n2 == state_level(s2)
           at == IF n1 > n2 THEN ancestor_state(s1, n1 - n2) ELSE s1
           up == IF n1 < n2 THEN ancestor_state(s2, n1) ELSE s2
           meets == {n \in 0..n1 : up # NoState
                                    /\ ancestor_state(at, n) = ancestor_state(up, n)
                                    /\ ancestor_state(at, n) # NoState}
           first == CHOOSE n \in meets : \A k \in meets : n <= k
<1>1. n1 \in Nat /\ n2 \in Nat /\ n2 <= n1 /\ NoState \notin States
  BY LevelIsNat DEF TreeAssumption
<1>2. common_ancestor(s1, s2) = IF meets = {} THEN NoState ELSE ancestor_state(at, first)
  BY Zenon DEF common_ancestor
<1>3. at \in Above[s1] \cup {s1} /\ at \in States /\ state_level(at) = n2
  <2>1. CASE n1 > n2
    <3>1. n1 - n2 \in Nat /\ n1 - n2 <= n1 /\ n1 - (n1 - n2) = n2
      BY <1>1
    <3>2. at = ancestor_state(s1, n1 - n2)
      BY <2>1
    <3> HIDE DEF at
    <3> QED
      BY <3>1, <3>2, AncestorIs
  <2>2. CASE ~ (n1 > n2)
    BY <1>1, <2>2
  <2> QED
    BY <2>1, <2>2
<1>up. up = s2
  BY <1>1
<1> HIDE DEF at, up
<1>4. n2 \in meets
  <2>1. /\ ancestor_state(at, n2) \in States /\ state_level(ancestor_state(at, n2)) = 0
        /\ ancestor_state(s2, n2) \in States /\ state_level(ancestor_state(s2, n2)) = 0
    <3>1. n2 <= state_level(at) /\ n2 <= state_level(s2) /\ state_level(at) - n2 = 0 /\ state_level(s2) - n2 = 0
      BY <1>1, <1>3
    <3> QED
      BY <1>1, <1>3, <3>1, AncestorIs
  <2>2. ancestor_state(at, n2) = Root /\ ancestor_state(s2, n2) = Root
    BY <2>1, LevelZero
  <2> QED
    BY <1>1, <1>up, <2>1, <2>2
<1>5. \A n \in meets : n \in Nat /\ ancestor_state(at, n) # NoState
  BY <1>1
<1> HIDE DEF meets
<1>6. first \in meets
  <2> DEFINE low == 0
  <2>1. meets \in SUBSET Int /\ meets # {} /\ low \in Int /\ \A n \in meets : low <= n
    BY <1>4, <1>5
  <2> HIDE DEF low
  <2>2. LeastOf(meets) \in meets
    BY <2>1, Least
  <2> QED
    BY <2>2, Zenon DEF LeastOf
<1>7. first <= state_level(at)
  <2> SUFFICES ASSUME first > state_level(at) PROVE FALSE
    BY <1>1, <1>3, <1>5, <1>6
  <2>1. ancestor_state(at, first) = NoState
    BY DEF ancestor_state
  <2> QED
    BY <1>5, <1>6, <2>1
<1>8. ancestor_state(at, first) \in Above[at] \cup {at}
  BY <1>3, <1>5, <1>6, <1>7, AncestorIs
<1>9. Above[at] \subseteq Above[s1]
  BY <1>3, AboveAbove
<1> QED
  BY <1>2, <1>3, <1>4, <1>8, <1>9

\* transit() finds the state to leave among the targets.
LEMMA TransitAsserts ==
    ASSUME TreeAssumption, IInv, NInv, stack # <<>>, Top.fn = "transit"
    PROVE  /\ ~ OffTheTree(Top.state, Top.kept)
           /\ ExitPoint(Top.state, Top.kept) # NoState => ExitPoint(Top.state, Top.kept) \in target
<1> DEFINE to == Top.state
           ex == Top.kept
           x  == ExitPoint(to, ex)
<1>1. to \in States /\ ex \in MaybeState /\ 1 \in DOMAIN stack /\ stack[1] = Top
  BY TopIs, FramesFields DEF IInv, Typed, Top
<1>2. /\ Inside \subseteq target /\ Nested /\ NoState \notin States
      /\ active \in [States -> -2..1]
  <2>1. Rank(Top.fn) # 0
    BY Ranks
  <2> QED
    BY <2>1, NothingLeft DEF IInv, NInv, Typed, TreeAssumption
<1>3. ex # NoState => ex \in States /\ state_level(ex) <= state_level(to)
  BY <1>1 DEF NInv, Modest, MaybeState
<1> HIDE DEF to, ex
<1>4. \A s \in States : active[s] > 0 => s \in Inside
  <2> SUFFICES ASSUME NEW s \in States, active[s] > 0 PROVE s \in Inside
    OBVIOUS
  <2>1. active[s] \in -2..1
    BY <1>2
  <2>2. active[s] = 1
    BY <2>1
  <2> QED
    BY <2>2 DEF Inside
<1>5. ASSUME active[to] > 0, ex # NoState, active[ex] > 0
      PROVE  x \in target
  <2>1. x = common_ancestor(to, ex)
    BY <1>5 DEF ExitPoint
  <2>2. x \in Above[to] \cup {to}
    BY <1>1, <1>3, <1>5, <2>1, CommonIs
  <2>3. to \in Inside /\ Above[to] \subseteq Inside
    BY <1>1, <1>2, <1>4, <1>5 DEF Nested
  <2> QED
    BY <1>2, <2>2, <2>3
<1>6. ASSUME ~ (active[to] > 0 /\ ex # NoState /\ active[ex] > 0)
      PROVE  x # NoState => x \in target
  <2>1. CASE active[to] > 0
    <3>1. x = to
      BY <1>6, <2>1 DEF ExitPoint
    <3> QED
      BY <1>1, <1>2, <1>4, <2>1, <3>1
  <2>2. CASE ~ (active[to] > 0) /\ ex # NoState /\ active[ex] > 0
    <3>1. x = ex
      BY <2>2 DEF ExitPoint
    <3> QED
      BY <1>2, <1>3, <1>4, <2>2, <3>1
  <2>3. CASE ~ (active[to] > 0) /\ ~ (ex # NoState /\ active[ex] > 0)
    BY <2>3 DEF ExitPoint
  <2> QED
    BY <2>1, <2>2, <2>3
<1>7. target \in SUBSET States
  BY DEF IInv, Typed
<1>8. ~ OffTheTree(to, ex)
  <2> SUFFICES ASSUME active[to] > 0, ex # NoState, active[ex] > 0, x = NoState PROVE FALSE
    BY DEF OffTheTree
  <2> QED
    BY <1>2, <1>5, <1>7
<1> QED
  BY <1>5, <1>6, <1>8 DEF to, ex

\* After terminate() a stable machine has been left.
LEMMA TerminatedAsserts ==
    ASSUME TreeAssumption, IInv, NInv, stack # <<>>, Top.fn = "terminated", Stable
    PROVE  ~ IsIn(Root)
<1>1. 1 \in DOMAIN stack /\ stack[1] = Top
  BY LeastRank DEF NInv
<1>2. active[Root] = 0 \/ \E i \in DOMAIN stack : Rank(stack[i].fn) = 0
  BY <1>1, Ranks DEF NInv, RootLeaves
<1>3. \A i \in DOMAIN stack : 2 <= Rank(stack[i].fn)
  BY LeastRank, Ranks DEF NInv
<1>4. ~ (2 <= 0)
  OBVIOUS
<1> QED
  BY <1>2, <1>3, <1>4 DEF IsIn

\* prepare_target_path finds no child chosen where it chooses one.
LEMMA PrepareAsserts ==
    ASSUME TreeAssumption, IInv, NInv, stack # <<>>, NEW s \in States, s \notin target
    PROVE  /\ \A u \in Untargeted(s) \ {s} : target_child[u] = NoState
           /\ Joint(s) # NoState /\ target_child[Joint(s)] # NoState =>
                target_child[Joint(s)] # Toward(Joint(s), s) /\ target_child[Joint(s)] \in target
<1>1. /\ Led /\ target \in SUBSET States /\ Path
  BY DEF NInv, IInv, Typed
<1>2. /\ Untargeted(s) \subseteq States /\ Untargeted(s) \cap target = {}
      /\ Joint(s) # NoState => Joint(s) \in States /\ Joint(s) \in Above[s]
  BY <1>1, JoinsPath
<1>3. \A u \in Untargeted(s) : target_child[u] = NoState
  BY <1>1, <1>2 DEF Led
<1>4. ASSUME Joint(s) # NoState, target_child[Joint(s)] # NoState
      PROVE  target_child[Joint(s)] # Toward(Joint(s), s) /\ target_child[Joint(s)] \in target
  <2>1. target_child[Joint(s)] \in target
    BY <1>1, <1>2, <1>4 DEF Led
  <2>2. Joint(s) \in (Untargeted(s) \cup {Joint(s)}) \ {s, NoState}
    BY <1>2, <1>4, NotAboveItself
  <2>3. Toward(Joint(s), s) \in Untargeted(s)
    BY <1>1, <2>2, TowardUntargeted
  <2> QED
    BY <1>2, <2>1, <2>3
<1> QED
  BY <1>3, <1>4

\* The level of a machine that enters states is not negative.
LEMMA EntersUp ==
    ASSUME IInv, NInv, stack # <<>>, Rank(Top.fn) \in {3, 4} PROVE level >= 0
<1>1. \A i \in DOMAIN stack : Rank(stack[i].fn) # 2
  <2> SUFFICES ASSUME NEW i \in DOMAIN stack, Rank(stack[i].fn) = 2 PROVE FALSE
    OBVIOUS
  <2>1. Rank(Top.fn) <= 2
    BY LeastRank DEF NInv
  <2> QED
    BY <2>1
<1> QED
  BY <1>1, Ranks DEF NInv, LevelUp

\* enter_stable_state begins at the level of rest, with nothing being left.
LEMMA StableAsserts ==
    ASSUME IInv, NInv, stack # <<>>, Top.fn = "enter_stable_state"
    PROVE  level = 0 /\ \A t \in States : active[t] # -1
<1>1. 1 \in DOMAIN stack /\ stack[1] = Top
  BY LeastRank DEF NInv
<1>2. DOMAIN stack = {1}
  BY <1>1 DEF NInv, EntersTargets
<1>3. Top.fn \notin Restoring /\ Top.fn # "on__exit"
  BY DEF Restoring
<1> QED
  BY <1>1, <1>2, <1>3 DEF IInv, Levels, ExitsOnce

\* entered chooses the child that is aimed at, or one that is not a target yet.
LEMMA EnteredAsserts ==
    ASSUME TreeAssumption, IInv, NInv, NEW s \in States, IsOr(s)
    PROVE  IF target_child[s] # NoState THEN target_child[s] \in target
           ELSE DefaultChild(s) \notin target
<1>1. target_child[s] # NoState => target_child[s] \in target
  BY DEF NInv, Led
<1>2. ASSUME target_child[s] = NoState, DefaultChild(s) \in target PROVE FALSE
  <2> PICK c : c = DefaultChild(s)
    OBVIOUS
  <2>1. c \in States /\ c # Root /\ Parent[c] = s
    BY DefaultIsChild DEF IInv, IsChild
  <2>2. Path /\ c \in target
    BY <1>2 DEF IInv
  <2>3. target_child[s] = c
    BY <2>1, <2>2 DEF Path
  <2> QED
    BY <1>2, <2>1, <2>3 DEF TreeAssumption
<1> QED
  BY <1>1, <1>2

\* What clearing a deep history goes through is below the state it is cleared of.
LEMMA ClearedBelow ==
    ASSUME TreeAssumption, NEW s \in States, NEW t \in Cleared(s)
    PROVE  t \in States /\ s \in Above[t]
<1>1. PICK c \in ToSet(Kids[s]) : t \in DeepHistory(c)
  BY DEF Cleared
<1>2. c \in States /\ IsChild(c, s)
  BY <1>1, ChildrenOf
<1>3. t \in States /\ (t = c \/ c \in Above[t])
  BY <1>1, <1>2 DEF DeepHistory
<1>4. s \in Above[c]
  BY <1>2, AboveChild
<1> QED
  BY <1>3, <1>4, AboveAbove

\* Below a state that is out everything is.
LEMMA OutBelow ==
    ASSUME TreeAssumption, InBelow, NEW s \in States, active[s] = 0, NEW t \in States, s \in Above[t]
    PROVE  active[t] = 0
<1> DEFINE T == {r \in States : s \in Above[r] => active[r] = 0}
<1>1. ASSUME NEW r \in States, r = Root \/ Parent[r] \in T PROVE r \in T
  <2>1. CASE r = Root
    BY <2>1 DEF TreeAssumption
  <2>2. CASE r # Root
    <3>1. Parent[r] \in T /\ Above[r] = Above[Parent[r]] \cup {Parent[r]}
      BY <1>1, <2>2, LevelOfParent
    <3>2. s \in Above[r] => active[Parent[r]] = 0
      BY <3>1
    <3>3. active[r] # 0 => active[Parent[r]] \in {1, -1}
      BY <2>2 DEF InBelow
    <3> QED
      BY <3>2, <3>3
  <2> QED
    BY <2>1, <2>2
<1> HIDE DEF T
<1>2. States \subseteq T
  BY <1>1, FromTheRoot
<1> QED
  BY <1>2 DEF T

\* No assertion of the innermost call fails.
LEMMA AssertsHold ==
    ASSUME TreeAssumption, IInv, NInv, HistoryCalls = {} \/ InBelow, stack # <<>> PROVE Asserts
<1> DEFINE s  == Top.state
           fn == Top.fn
<1>1. s \in States /\ 1 \in DOMAIN stack /\ stack[1] = Top
  BY TopIs, LeastRank DEF NInv
<1>2. fn \in AskingIfStable => CountsAgree
  <2> SUFFICES ASSUME fn \in AskingIfStable PROVE CountsAgree
    OBVIOUS
  <2>1. Rank(Top.fn) # 0
    BY Ranks DEF AskingIfStable
  <2> QED
    BY <2>1, NothingLeft DEF NInv
<1>3. fn = "transit" =>
         /\ ~ OffTheTree(s, Top.kept)
         /\ ExitPoint(s, Top.kept) # NoState => ExitPoint(s, Top.kept) \in target
  BY TransitAsserts
<1>4. fn = "terminated" /\ Stable => ~ IsIn(Root)
  BY TerminatedAsserts
<1>5. fn = "prepare_target_path" /\ s \notin target =>
         /\ \A u \in Untargeted(s) \ {s} : target_child[u] = NoState
         /\ LET p == Joint(s)
            IN  p # NoState /\ target_child[p] # NoState =>
                   target_child[p] # Toward(p, s) /\ target_child[p] \in target
  <2> HIDE DEF s
  <2> QED
    BY <1>1, PrepareAsserts
<1>6. fn = "enter_stable_state" =>
         /\ Top.kept = "_complete_transition" => level = 0
         /\ ~ Stable /\ level = 0 => \A t \in Visited : active[t] # -1
  <2>1. Visited \subseteq States
    BY DEF Visited
  <2> QED
    BY <2>1, StableAsserts
<1>7. fn = "enter_target_state" => s \in target /\ (active[s] # 1 => level >= 0)
  <2> SUFFICES ASSUME fn = "enter_target_state" PROVE s \in target /\ level >= 0
    OBVIOUS
  <2>1. Rank(Top.fn) = 4
    BY Ranks
  <2>2. s \in target
    BY <1>1 DEF NInv, EntersTargets
  <2> QED
    BY <2>1, <2>2, EntersUp
<1>8. fn = "entered" /\ active[s] = 1 /\ IsOr(s) =>
         IF target_child[s] # NoState THEN target_child[s] \in target
         ELSE DefaultChild(s) \notin target
  <2> HIDE DEF s
  <2> QED
    BY <1>1, EnteredAsserts
<1>9. fn = "history_child_" /\ ClearsDeep(s, Top.kept) => \A t \in Cleared(s) : active[t] = 0
  <2> SUFFICES ASSUME fn = "history_child_", ClearsDeep(s, Top.kept), NEW t \in Cleared(s)
               PROVE  active[t] = 0
    OBVIOUS
  <2>1. active[s] = 0
    BY DEF ClearsDeep, SetsHistory, CanSetHistory
  <2>2. t \in States /\ s \in Above[t]
    <3> HIDE DEF s, fn
    <3> QED
      BY <1>1, ClearedBelow
  <2>3. CASE HistoryCalls = {}
    BY <1>1, <2>2, <2>3 DEF NInv, SetsFresh
  <2>4. CASE InBelow
    <3> HIDE DEF s, fn
    <3> QED
      BY <1>1, <2>1, <2>2, <2>4, OutBelow
  <2> QED
    BY <2>3, <2>4
<1> QED
  BY <1>2, <1>3, <1>4, <1>5, <1>6, <1>7, <1>8, <1>9 DEF Asserts
-------------------------------------------------------------------------------
(* What steps keep.                                                            *)

\* The calls of a transition or of entering that may replace the innermost one.
Follows(fs) ==
    /\ \A i \in DOMAIN fs :
         /\ Rank(fs[i].fn) <= Rank(Top.fn)
         /\ Rank(fs[i].fn) \in {1, 2} => Rank(fs[i].fn) < Rank(Top.fn)
         /\ fs[i].fn \notin {"enter_stable_state", "history_child_"}
    /\ \A i, j \in DOMAIN fs : i < j =>
         /\ Rank(fs[i].fn) <= Rank(fs[j].fn)
         /\ Rank(fs[i].fn) \in {1, 2} => Rank(fs[i].fn) < Rank(fs[j].fn)

\* Calls of rising rank, all below that of the innermost one.
LEMMA StrictlyFollows ==
    ASSUME NEW fs,
           \A i \in DOMAIN fs :
             /\ Rank(fs[i].fn) < Rank(Top.fn)
             /\ fs[i].fn \notin {"enter_stable_state", "history_child_"},
           \A i, j \in DOMAIN fs : i < j => Rank(fs[i].fn) < Rank(fs[j].fn)
    PROVE  Follows(fs)
<1>1. \A i \in DOMAIN fs : Rank(fs[i].fn) \in 0..4 /\ Rank(Top.fn) \in 0..4
  BY Ranks
<1>2. \A i \in DOMAIN fs : Rank(fs[i].fn) <= Rank(Top.fn)
  BY <1>1
<1>3. \A i, j \in DOMAIN fs : i < j => Rank(fs[i].fn) <= Rank(fs[j].fn)
  BY <1>1
<1> QED
  BY <1>2, <1>3 DEF Follows

\* Calls stay in their order.
LEMMA OrderedKept ==
    ASSUME IInv, Ordered, stack # <<>>, NEW fs, Moved(fs), Follows(fs) PROVE Ordered'
<1> SUFFICES ASSUME NEW i \in DOMAIN stack', NEW j \in DOMAIN stack', i < j
             PROVE  /\ Rank(stack'[i].fn) <= Rank(stack'[j].fn)
                    /\ Rank(stack'[i].fn) \in {1, 2} => Rank(stack'[i].fn) < Rank(stack'[j].fn)
  BY DEF Ordered, Rank
<1>1. CASE i \in DOMAIN fs /\ j \in DOMAIN fs
  BY <1>1 DEF Moved, Follows
<1>2. CASE i \in DOMAIN fs /\ j \notin DOMAIN fs
  <2>1. PICK k \in DOMAIN stack : k > 1 /\ stack'[j] = stack[k]
    BY <1>2 DEF Moved
  <2>2. /\ Rank(Top.fn) <= Rank(stack[k].fn)
        /\ Rank(Top.fn) \in {1, 2} => Rank(Top.fn) < Rank(stack[k].fn)
    BY <2>1, LeastRank
  <2>3. /\ Rank(fs[i].fn) <= Rank(Top.fn) /\ stack'[i] = fs[i]
        /\ Rank(fs[i].fn) \in {1, 2} => Rank(fs[i].fn) < Rank(Top.fn)
    BY <1>2 DEF Moved, Follows
  <2>4. Rank(fs[i].fn) \in 0..4 /\ Rank(Top.fn) \in 0..4 /\ Rank(stack[k].fn) \in 0..4
    BY Ranks
  <2> QED
    BY <2>1, <2>2, <2>3, <2>4
<1>3. CASE i \notin DOMAIN fs
  <2>1. i \in Nat /\ j \in Nat /\ j \notin DOMAIN fs
    BY <1>3 DEF Moved
  <2>2. PICK k \in DOMAIN stack : k > 1 /\ i = k + Len(fs) - 1 /\ stack'[i] = stack[k]
    BY <1>3 DEF Moved
  <2>3. PICK l \in DOMAIN stack : l > 1 /\ j = l + Len(fs) - 1 /\ stack'[j] = stack[l]
    BY <2>1 DEF Moved
  <2>4. k < l
    BY <2>1, <2>2, <2>3 DEF Moved
  <2> QED
    BY <2>2, <2>3, <2>4 DEF Ordered
<1> QED
  BY <1>1, <1>2, <1>3

\* The end of exit_state stays the innermost call.
LEMMA ExitedKept ==
    ASSUME ExitedLast, NEW fs, Moved(fs),
           \A i \in DOMAIN fs : fs[i].fn = "exited" => i = 1 /\ active'[fs[i].state] \in {0, -2}
    PROVE  ExitedLast'
<1> SUFFICES ASSUME NEW i \in DOMAIN stack', stack'[i].fn = "exited"
             PROVE  i = 1 /\ active'[stack'[i].state] \in {0, -2}
  BY DEF ExitedLast
<1>1. CASE i \in DOMAIN fs
  BY <1>1 DEF Moved
<1>2. CASE i \notin DOMAIN fs
  BY <1>2 DEF Moved, ExitedLast
<1> QED
  BY <1>1, <1>2

\* What is entered stays a target; only the innermost call enters.
LEMMA EntersTargetsKept ==
    ASSUME IInv, EntersTargets, NEW fs, Moved(fs), Follows(fs),
           \A i \in DOMAIN fs : fs[i].fn = "enter_target_state" => fs[i].state \in target'
    PROVE  EntersTargets'
<1> SUFFICES ASSUME NEW i \in DOMAIN stack'
             PROVE  /\ stack'[i].fn # "enter_stable_state"
                    /\ stack'[i].fn = "enter_target_state" => stack'[i].state \in target'
  BY DEF EntersTargets
<1>1. CASE i \in DOMAIN fs
  BY <1>1 DEF Moved, Follows
<1>2. CASE i \notin DOMAIN fs
  <2>1. PICK k \in DOMAIN stack : k > 1 /\ stack'[i] = stack[k]
    BY <1>2 DEF Moved
  <2>2. 1 \in DOMAIN stack /\ k # 1
    BY <2>1 DEF Moved
  <2>3. stack[k].fn # "enter_target_state"
    BY <2>1, <2>2 DEF IInv, EntersInside
  <2>4. stack[k].fn # "enter_stable_state"
    BY <2>1, <2>2 DEF EntersTargets
  <2> QED
    BY <2>1, <2>3, <2>4
<1> QED
  BY <1>1, <1>2

\* What is asked for stays as it is.
LEMMA ModestKept ==
    ASSUME Modest, NEW fs, Moved(fs),
           \A i \in DOMAIN fs : fs[i].fn = "transit" /\ fs[i].kept # NoState =>
               state_level(fs[i].kept) <= state_level(fs[i].state)
    PROVE  Modest'
<1> SUFFICES ASSUME NEW i \in DOMAIN stack', stack'[i].fn = "transit", stack'[i].kept # NoState
             PROVE  state_level(stack'[i].kept) <= state_level(stack'[i].state)
  BY DEF Modest, state_level
<1>1. CASE i \in DOMAIN fs
  BY <1>1 DEF Moved
<1>2. CASE i \notin DOMAIN fs
  <2>1. PICK k \in DOMAIN stack : stack'[i] = stack[k]
    BY <1>2 DEF Moved
  <2> QED
    BY <2>1 DEF Modest
<1> QED
  BY <1>1, <1>2

\* While histories are restored no state goes in or out.
LEMMA SetsFreshKept ==
    ASSUME IInv, Ordered, SetsFresh, stack # <<>>, NEW fs, Moved(fs), Follows(fs),
           UNCHANGED active \/ Rank(Top.fn) = 4 \/ \E s \in States : active[s] # 0
    PROVE  SetsFresh'
<1> SUFFICES ASSUME HistoryCalls = {}, NEW i \in DOMAIN stack', stack'[i].fn = "history_child_"
             PROVE  \A s \in States : active'[s] = 0
  BY DEF SetsFresh
<1>1. i \notin DOMAIN fs
  BY DEF Moved, Follows
<1>2. PICK k \in DOMAIN stack : stack[k].fn = "history_child_"
  BY <1>1 DEF Moved
<1>3. \A s \in States : active[s] = 0
  BY <1>2 DEF SetsFresh
<1>4. Rank(stack[k].fn) = 3 /\ Rank(Top.fn) <= Rank(stack[k].fn)
  BY <1>2, Ranks, LeastRank
<1>5. Rank(Top.fn) # 4
  BY <1>4
<1> QED
  BY <1>3, <1>5

\* The level is restored to what it was.
LEMMA LevelUpKept ==
    ASSUME IInv, LevelUp, NEW fs, Moved(fs),
           \A i \in DOMAIN fs : fs[i].fn \in Restoring => fs[i].kept >= 0,
           Top.fn \in {"transited", "terminated"} => level' >= 0,
           \/ level' = level \/ level' >= 0
           \/ \E i \in DOMAIN fs : fs[i].fn \in {"transited", "terminated"}
    PROVE  LevelUp'
<1>1. ASSUME NEW i \in DOMAIN stack', stack'[i].fn \in Restoring PROVE stack'[i].kept >= 0
  <2>1. CASE i \in DOMAIN fs
    BY <1>1, <2>1 DEF Moved
  <2>2. CASE i \notin DOMAIN fs
    <3>1. PICK k \in DOMAIN stack : stack'[i] = stack[k]
      BY <2>2 DEF Moved
    <3> QED
      BY <1>1, <3>1 DEF LevelUp
  <2> QED
    BY <2>1, <2>2
<1>2. ASSUME \A i \in DOMAIN stack' : stack'[i].fn \notin {"transited", "terminated"}
      PROVE  level' >= 0
  <2>1. \A i \in DOMAIN fs : fs[i].fn \notin {"transited", "terminated"}
    BY <1>2 DEF Moved
  <2>2. ASSUME Top.fn \notin {"transited", "terminated"}, level' = level PROVE level' >= 0
    <3>1. ASSUME NEW k \in DOMAIN stack PROVE stack[k].fn \notin {"transited", "terminated"}
      <4>1. CASE k = 1
        BY <2>2, <4>1 DEF Moved
      <4>2. CASE k # 1
        <5>1. k > 1
          BY <4>2 DEF Moved
        <5> QED
          BY <1>2, <5>1 DEF Moved
      <4> QED
        BY <4>1, <4>2
    <3> QED
      BY <2>2, <3>1 DEF LevelUp
  <2> QED
    BY <2>1, <2>2
<1> QED
  BY <1>1, <1>2 DEF LevelUp, Restoring

\* The calls that leave the root on behalf of terminate().
LeavesRoot(call) == Exits(call, Root)

\* Until terminate() returns, only exits run above it.
LEMMA RootLeavesKept ==
    ASSUME TreeAssumption, IInv, Ordered, RootLeaves, stack # <<>>, NEW fs, Moved(fs), Follows(fs),
           \A i \in DOMAIN fs : fs[i].fn # "terminated",
           Rank(Top.fn) = 0 =>
             /\ target' = target
             /\ \A i \in DOMAIN fs : fs[i].fn # "prepare_target_path"
             /\ active[Root] = 0 => active'[Root] = 0
             /\ Top.state = Root => active'[Root] = 0 \/ \E i \in DOMAIN fs : LeavesRoot(fs[i])
    PROVE  RootLeaves'
<1> SUFFICES ASSUME NEW t \in DOMAIN stack', stack'[t].fn = "terminated"
             PROVE  /\ target' = {} /\ \A i \in DOMAIN stack' : stack'[i].fn # "prepare_target_path"
                    /\ active'[Root] = 0 \/ \E i \in DOMAIN stack' : LeavesRoot(stack'[i])
  BY DEF RootLeaves, LeavesRoot, Exits
<1>1. t \notin DOMAIN fs
  BY DEF Moved
<1>2. PICK u \in DOMAIN stack : u > 1 /\ stack[u].fn = "terminated"
  BY <1>1 DEF Moved
<1>3. /\ target = {} /\ \A i \in DOMAIN stack : stack[i].fn # "prepare_target_path"
      /\ active[Root] = 0 \/ \E i \in DOMAIN stack : LeavesRoot(stack[i])
  BY <1>2 DEF RootLeaves, LeavesRoot, Exits
<1>4. Rank(Top.fn) = 0
  <2>1. 1 \in DOMAIN stack /\ stack[1] = Top /\ 1 # u
    BY <1>2, LeastRank
  <2>2. Rank(stack[u].fn) = 2
    BY <1>2, Ranks
  <2>3. Rank(Top.fn) <= 2 /\ (Rank(Top.fn) \in {1, 2} => Rank(Top.fn) < 2)
    BY <1>2, <2>1, <2>2, LeastRank
  <2>4. Top.fn # "prepare_target_path"
    BY <1>3, <2>1
  <2>5. Rank(Top.fn) \in 0..4 /\ Rank(Top.fn) # 1
    BY <2>4, Ranks
  <2> QED
    BY <2>3, <2>5
<1>5. \A i \in DOMAIN stack' : stack'[i].fn # "prepare_target_path"
  <2> SUFFICES ASSUME NEW i \in DOMAIN stack' PROVE stack'[i].fn # "prepare_target_path"
    OBVIOUS
  <2>1. CASE i \in DOMAIN fs
    BY <1>4, <2>1 DEF Moved
  <2>2. CASE i \notin DOMAIN fs
    BY <1>3, <2>2 DEF Moved
  <2> QED
    BY <2>1, <2>2
<1>6. active'[Root] = 0 \/ \E i \in DOMAIN stack' : LeavesRoot(stack'[i])
  <2>1. CASE active[Root] = 0
    BY <1>4, <2>1
  <2>2. CASE active[Root] # 0
    <3>1. PICK k \in DOMAIN stack : LeavesRoot(stack[k])
      BY <1>3, <2>2
    <3>2. CASE k = 1
      <4>1. Top.state = Root
        BY <3>1, <3>2 DEF Moved, LeavesRoot, Exits
      <4>2. CASE \E i \in DOMAIN fs : LeavesRoot(fs[i])
        <5>1. PICK i \in DOMAIN fs : LeavesRoot(fs[i])
          BY <4>2
        <5>2. i \in DOMAIN stack' /\ stack'[i] = fs[i]
          BY DEF Moved
        <5> QED
          BY <5>1, <5>2
      <4> QED
        BY <1>4, <4>1, <4>2
    <3>3. CASE k # 1
      <4>1. k > 1
        BY <3>3 DEF Moved
      <4> QED
        BY <3>1, <4>1 DEF Moved
    <3> QED
      BY <3>2, <3>3
  <2> QED
    BY <2>1, <2>2
<1> QED
  BY <1>3, <1>4, <1>5, <1>6
-------------------------------------------------------------------------------
(* The steps of a machine whose users are careful.                             *)

\* What a step has to show of the calls it makes.
LEMMA NKept ==
    ASSUME TreeAssumption, IInv, NInv, stack # <<>>, NEW fs \in Seq(Frames), Becomes(fs),
           Follows(fs), Led', RootLeaves',
           \A i \in DOMAIN fs :
             /\ fs[i].fn = "exited" => i = 1 /\ active'[fs[i].state] \in {0, -2}
             /\ fs[i].fn = "enter_target_state" => fs[i].state \in target'
             /\ fs[i].fn = "transit" /\ fs[i].kept # NoState =>
                  state_level(fs[i].kept) <= state_level(fs[i].state)
             /\ fs[i].fn \in Restoring => fs[i].kept >= 0,
           UNCHANGED active \/ Rank(Top.fn) = 4 \/ \E s \in States : active[s] # 0,
           Top.fn \in {"transited", "terminated"} => level' >= 0,
           \/ level' = level \/ level' >= 0
           \/ \E i \in DOMAIN fs : fs[i].fn \in {"transited", "terminated"}
    PROVE  NInv'
<1>1. Moved(fs)
  BY StackTyped
<1>2. Ordered'
  BY <1>1, OrderedKept DEF NInv
<1>3. ExitedLast'
  BY <1>1, ExitedKept DEF NInv
<1>4. EntersTargets'
  BY <1>1, EntersTargetsKept DEF NInv
<1>5. Modest'
  BY <1>1, ModestKept DEF NInv
<1>6. SetsFresh'
  BY <1>1, SetsFreshKept DEF NInv
<1>7. LevelUp'
  BY <1>1, LevelUpKept DEF NInv
<1> QED
  BY <1>2, <1>3, <1>4, <1>5, <1>6, <1>7 DEF NInv

\* A step that makes no exit: what RootLeaves asks of it is nothing new.
LEMMA RootStays ==
    ASSUME TreeAssumption, IInv, NInv, stack # <<>>, NEW fs \in Seq(Frames), Becomes(fs),
           Follows(fs), Rank(Top.fn) # 0, \A i \in DOMAIN fs : fs[i].fn # "terminated"
    PROVE  RootLeaves'
<1>1. Moved(fs)
  BY StackTyped
<1> QED
  BY <1>1, RootLeavesKept DEF NInv

\* Calls return.
LEMMA ReturnCareful ==
    ASSUME TreeAssumption, IInv, NInv,
           Transited \/ Terminated \/ settled \/ _complete_transition \/ history_child_
    PROVE  NInv'
<1>1. /\ stack # <<>> /\ Becomes(<<>>) /\ UNCHANGED <<active, target, target_child>>
      /\ Top.fn \in {"transited", "terminated", "settled", "_complete_transition", "history_child_"}
      /\ IF Top.fn \in {"transited", "terminated"} THEN level' = Top.kept ELSE level' = level
  BY DEF Transited, Terminated, settled, _complete_transition, history_child_, Running, Resumed,
         flags, targets
<1>2. <<>> \in Seq(Frames) /\ DOMAIN <<>> = {}
  OBVIOUS
<1>3. Follows(<<>>)
  BY <1>2 DEF Follows
<1>4. Rank(Top.fn) # 0
  BY <1>1, Ranks
<1>5. RootLeaves'
  BY <1>1, <1>2, <1>3, <1>4, RootStays
<1>6. Led'
  BY <1>1 DEF NInv, Led
<1>7. Top.fn \in {"transited", "terminated"} => level' >= 0
  <2>1. 1 \in DOMAIN stack /\ stack[1] = Top
    BY <1>1, LeastRank DEF NInv
  <2> QED
    BY <1>1, <2>1 DEF NInv, LevelUp, Restoring
<1> QED
  BY <1>1, <1>2, <1>3, <1>5, <1>6, <1>7, NKept

\* A step inside of an exit.
LEMMA LeavingKept ==
    ASSUME TreeAssumption, IInv, NInv, stack # <<>>, Rank(Top.fn) = 0,
           NEW fs \in Seq(Frames), Becomes(fs), UNCHANGED <<targets, level>>,
           \A i \in DOMAIN fs :
             /\ fs[i].fn \in {"exit_state", "on__exit", "exited"}
             /\ fs[i].fn = "exited" => i = 1 /\ active'[fs[i].state] \in {0, -2},
           UNCHANGED active \/ \E s \in States : active[s] # 0,
           active[Root] = 0 => active'[Root] = 0,
           Top.state = Root => active'[Root] = 0 \/ \E i \in DOMAIN fs : LeavesRoot(fs[i])
    PROVE  NInv'
<1>1. \A i \in DOMAIN fs : Rank(fs[i].fn) = 0
  BY Ranks
<1>2. Follows(fs)
  <2>1. \A i \in DOMAIN fs :
          /\ Rank(fs[i].fn) <= Rank(Top.fn) /\ Rank(fs[i].fn) \notin {1, 2}
          /\ fs[i].fn \notin {"enter_stable_state", "history_child_"}
    <3> SUFFICES ASSUME NEW i \in DOMAIN fs
                 PROVE  /\ Rank(fs[i].fn) <= Rank(Top.fn) /\ Rank(fs[i].fn) \notin {1, 2}
                        /\ fs[i].fn \notin {"enter_stable_state", "history_child_"}
      OBVIOUS
    <3>1. Rank(fs[i].fn) = 0
      BY <1>1
    <3>2. Rank(fs[i].fn) <= Rank(Top.fn) /\ Rank(fs[i].fn) \notin {1, 2}
      BY <3>1
    <3>3. fs[i].fn \in {"exit_state", "on__exit", "exited"}
      OBVIOUS
    <3>4. fs[i].fn \notin {"enter_stable_state", "history_child_"}
      BY <3>3
    <3> QED
      BY <3>2, <3>4
  <2>2. \A i, j \in DOMAIN fs : Rank(fs[i].fn) <= Rank(fs[j].fn)
    BY <1>1
  <2> QED
    BY <2>1, <2>2 DEF Follows
<1>3. Moved(fs)
  BY StackTyped
<1>4. target' = target /\ target_child' = target_child /\ level' = level
  BY DEF targets
<1>5. RootLeaves'
  <2>1. \A i \in DOMAIN fs : fs[i].fn \notin {"terminated", "prepare_target_path"}
    OBVIOUS
  <2> QED
    BY <1>2, <1>3, <1>4, <2>1, RootLeavesKept DEF NInv
<1>6. Led'
  BY <1>4 DEF NInv, Led
<1>7. Top.fn \notin {"transited", "terminated"}
  BY Ranks
<1> QED
  BY <1>2, <1>4, <1>5, <1>6, <1>7, NKept DEF Restoring

\* The end of exit_state: the root is out when it returns.
LEMMA ExitedCareful == ASSUME TreeAssumption, IInv, NInv, Exited PROVE NInv'
<1> DEFINE s == Top.state
<1>1. /\ stack # <<>> /\ Top.fn = "exited" /\ Becomes(<<>>) /\ UNCHANGED <<targets, level>>
      /\ IF active[s] = -2 /\ ParentLeaving(s) THEN set_active_flag(s, 0) ELSE UNCHANGED flags
  BY DEF Exited, Running
<1>2. /\ s \in States /\ active \in [States -> -2..1] /\ 1 \in DOMAIN stack /\ stack[1] = Top
      /\ Root \in States
  BY <1>1, TopIs, LeastRank DEF NInv, IInv, Typed, TreeAssumption
<1>3. active[s] \in {0, -2}
  BY <1>1, <1>2 DEF NInv, ExitedLast
<1>4. \/ active' = active /\ (s = Root => active[Root] = 0)
      \/ active[s] = -2 /\ active' = [active EXCEPT ![s] = 0]
  <2>1. CASE active[s] = -2 /\ ParentLeaving(s)
    BY <1>1, <2>1 DEF set_active_flag
  <2>2. CASE ~ (active[s] = -2 /\ ParentLeaving(s))
    BY <1>1, <1>3, <2>2 DEF flags, ParentLeaving
  <2> QED
    BY <2>1, <2>2
<1> HIDE DEF s
<1>5. <<>> \in Seq(Frames) /\ DOMAIN <<>> = {}
  OBVIOUS
<1>6. UNCHANGED active \/ \E t \in States : active[t] # 0
  BY <1>2, <1>4
<1>7. (active[Root] = 0 => active'[Root] = 0) /\ (s = Root => active'[Root] = 0)
  BY <1>2, <1>4
<1>8. Rank(Top.fn) = 0
  BY <1>1, Ranks
<1> QED
  BY <1>1, <1>5, <1>6, <1>7, <1>8, LeavingKept DEF s

\* The exit action asks for nothing, and exit_state goes on to its end.
LEMMA on__exitCareful == ASSUME TreeAssumption, Careful, IInv, NInv, on__exit PROVE NInv'
<1> DEFINE s    == Top.state
           back == Frame("exited", s, 0)
           fs   == <<back>>
<1>1. /\ stack # <<>> /\ Top.fn = "on__exit" /\ UNCHANGED <<targets, level>>
      /\ \/ active[s] = -1 /\ set_active_flag(s, -2) /\ UserAction(<<"ex", s>>, back)
         \/ active[s] # -1 /\ Becomes(fs) /\ UNCHANGED flags
  BY DEF on__exit, Running
<1>2. /\ s \in States /\ active \in [States -> -2..1] /\ 1 \in DOMAIN stack /\ stack[1] = Top
      /\ Root \in States
  BY <1>1, TopIs, LeastRank DEF NInv, IInv, Typed, TreeAssumption
<1>3. Becomes(fs)
  <2>1. ASSUME UserAction(<<"ex", s>>, back) PROVE Becomes(fs)
    <3> DEFINE hook == <<"ex", s>>
    <3>1. hook[1] = "ex"
      OBVIOUS
    <3>2. Becomes(fs) \/ (hook \in DOMAIN Asking /\ \E cmd \in Asking[hook] : TRUE)
      BY <2>1 DEF UserAction
    <3> HIDE DEF hook, fs
    <3> QED
      BY <3>1, <3>2 DEF Careful
  <2> QED
    BY <1>1, <2>1
<1>4. active[s] # 1
  BY <1>1, <1>2 DEF IInv, ExitsOnce
<1>5. \/ active' = active /\ active[s] \in {0, -2}
      \/ active[s] = -1 /\ active' = [active EXCEPT ![s] = -2]
  <2>1. active[s] \in -2..1
    BY <1>2
  <2>2. CASE active[s] = -1
    BY <1>1, <2>2 DEF set_active_flag
  <2>3. CASE active[s] # -1
    BY <1>1, <1>4, <2>1, <2>3 DEF flags
  <2> QED
    BY <2>2, <2>3
<1>6. back \in Frames /\ back.fn = "exited" /\ back.state = s
  BY <1>2 DEF Frame, Frames
<1> HIDE DEF s, back
<1>7. fs \in Seq(Frames) /\ DOMAIN fs = {1} /\ fs[1] = back
  BY <1>6
<1> HIDE DEF fs
<1>8. active'[s] \in {0, -2} /\ (active[Root] = 0 => active'[Root] = 0)
  BY <1>2, <1>5
<1>9. UNCHANGED active \/ \E t \in States : active[t] # 0
  BY <1>2, <1>5
<1>10. /\ \A i \in DOMAIN fs : /\ fs[i].fn \in {"exit_state", "on__exit", "exited"}
                               /\ fs[i].fn = "exited" => i = 1 /\ active'[fs[i].state] \in {0, -2}
       /\ s = Root => \E i \in DOMAIN fs : LeavesRoot(fs[i])
  BY <1>6, <1>7, <1>8 DEF LeavesRoot, Exits
<1>11. Rank(Top.fn) = 0
  BY <1>1, Ranks
<1> QED
  BY <1>1, <1>3, <1>7, <1>8, <1>9, <1>10, <1>11, LeavingKept DEF s

\* exit_state goes down, or finds the state left.
LEMMA exit_stateCareful == ASSUME TreeAssumption, IInv, NInv, exit_state PROVE NInv'
<1> DEFINE s  == Top.state
           fs == CASE active[s] \in {1, -1} -> ExitCalls(s)
                   [] active[s] = -2 -> <<Frame("exited", s, 0)>>
                   [] OTHER -> <<>>
<1>1. /\ stack # <<>> /\ Top.fn = "exit_state" /\ Becomes(fs) /\ UNCHANGED <<targets, level>>
      /\ IF active[s] = 1 THEN set_active_flag(s, -1) ELSE UNCHANGED flags
  BY DEF exit_state, Running, ExitCalls
<1>2. s \in States /\ Root \in States /\ Typed /\ Nested /\ active \in [States -> -2..1]
  BY <1>1, TopIs DEF IInv, Typed, TreeAssumption
<1>3. \/ active' = active
      \/ active[s] = 1 /\ active' = [active EXCEPT ![s] = -1]
  BY <1>1 DEF set_active_flag, flags
<1>4. (active[Root] = 0 => active'[Root] = 0) /\ (UNCHANGED active \/ \E t \in States : active[t] # 0)
  <2> HIDE DEF s
  <2> QED
    BY <1>2, <1>3
<1>5. Rank(Top.fn) = 0
  BY <1>1, Ranks
<1>6. CASE active[s] \in {1, -1}
  <2>1. fs = ExitCalls(s)
    BY <1>6
  <2> HIDE DEF fs, s
  <2>2. ExitsDown(s, fs)
    BY <1>2, <2>1, ExitFrames
  <2>3. /\ fs \in Seq(Frames) /\ Len(fs) \in DOMAIN fs
        /\ fs[Len(fs)].fn = "on__exit" /\ fs[Len(fs)].state = s
        /\ \A i \in DOMAIN fs : fs[i].fn \in {"exit_state", "on__exit"}
    BY <2>2, Zenon DEF ExitsDown
  <2>4. s = Root => \E i \in DOMAIN fs : LeavesRoot(fs[i])
    BY <2>3 DEF LeavesRoot, Exits
  <2>5. \A i \in DOMAIN fs : /\ fs[i].fn \in {"exit_state", "on__exit", "exited"}
                             /\ fs[i].fn = "exited" => i = 1 /\ active'[fs[i].state] \in {0, -2}
    BY <2>3
  <2> QED
    BY <1>1, <1>4, <1>5, <2>3, <2>4, <2>5, LeavingKept DEF s
<1>7. CASE active[s] = -2
  <2> DEFINE back == Frame("exited", s, 0)
             gs   == <<back>>
  <2>1. Becomes(gs)
    BY <1>1, <1>7
  <2>2. back \in Frames /\ back.fn = "exited" /\ back.state = s
    BY <1>2 DEF Frame, Frames
  <2>3. active' = active
    BY <1>3, <1>7
  <2> HIDE DEF s, back, fs
  <2>4. gs \in Seq(Frames) /\ DOMAIN gs = {1} /\ gs[1] = back
    BY <2>2
  <2> HIDE DEF gs
  <2>5. /\ \A i \in DOMAIN gs : /\ gs[i].fn \in {"exit_state", "on__exit", "exited"}
                                /\ gs[i].fn = "exited" => i = 1 /\ active'[gs[i].state] \in {0, -2}
        /\ s = Root => \E i \in DOMAIN gs : LeavesRoot(gs[i])
    BY <1>7, <2>2, <2>3, <2>4 DEF LeavesRoot, Exits
  <2> QED
    BY <1>1, <1>4, <1>5, <2>1, <2>4, <2>5, LeavingKept DEF s
<1>8. CASE active[s] \notin {1, -1, -2}
  <2>1. Becomes(<<>>) /\ active' = active
    BY <1>1, <1>3, <1>8
  <2> HIDE DEF s, fs
  <2>2. active[s] = 0
    <3>1. active[s] \in -2..1
      BY <1>2
    <3> QED
      BY <1>8, <3>1
  <2>3. <<>> \in Seq(Frames) /\ DOMAIN <<>> = {}
    OBVIOUS
  <2>4. s = Root => active'[Root] = 0
    BY <2>1, <2>2
  <2> QED
    BY <1>1, <1>4, <1>5, <2>1, <2>3, <2>4, LeavingKept DEF s
<1> QED
  BY <1>6, <1>7, <1>8

\* Where the tree below a target is cut, no child is left that is aimed at.
LEMMA LedCut ==
    ASSUME TreeAssumption, IInv, Led, NEW x \in target,
           target' = (target \ TargetTree(x)) \cup {x},
           target_child' = ClearedChildren(TargetTree(x))
    PROVE  Led'
<1>1. target \in SUBSET States /\ Path /\ Typed /\ x \in States
  BY DEF IInv, Typed
<1>2. TargetTree(x) = {t \in target : x \in Above[t] \cup {t}}
  BY <1>1, TargetTreeIs
<1>3. \A s \in States : target_child'[s] = IF s \in TargetTree(x) THEN NoState ELSE target_child[s]
  BY <1>1, ChildrenCleared
<1>4. ASSUME NEW s \in States, target_child'[s] # NoState
      PROVE  s \in target' /\ target_child'[s] \in target'
  <2> PICK c : c = target_child[s]
    OBVIOUS
  <2>1. s \notin TargetTree(x) /\ target_child'[s] = c
    BY <1>3, <1>4
  <2>2. s \in target /\ c \in target /\ IsChild(c, s)
    BY <1>1, <1>4, <2>1 DEF Led, Typed
  <2>3. x \notin Above[s] \cup {s}
    BY <1>2, <2>1, <2>2
  <2>4. c \in States /\ Above[c] = Above[s] \cup {s}
    BY <2>2, AboveChild DEF IsChild
  <2>5. s \in target'
    BY <2>1, <2>2
  <2>6. c \notin TargetTree(x) \/ c = x
    BY <1>2, <2>3, <2>4
  <2>7. c \in target'
    BY <2>2, <2>6
  <2> QED
    BY <2>1, <2>5, <2>7
<1> QED
  BY <1>4 DEF Led

\* transit() aims, leaves the exit point and keeps the level that was not negative.
LEMMA TransitCareful == ASSUME TreeAssumption, IInv, NInv, Transit PROVE NInv'
<1> DEFINE to   == Top.state
           x    == ExitPoint(to, Top.kept)
           out  == Frame("exit_state", x, 0)
           aim  == Frame("prepare_target_path", to, 0)
           back == Frame("transited", to, level)
<1>1. /\ stack # <<>> /\ Top.fn = "transit" /\ UNCHANGED flags
      /\ x # NoState =>
           /\ x \in target /\ set_target_flags({x}, TargetTree(x))
           /\ target_child' = ClearedChildren(TargetTree(x))
           /\ Becomes(<<out>> \o <<aim, back>>)
      /\ x = NoState => Becomes(<<aim, back>>) /\ UNCHANGED targets
  BY DEF Transit, Running, Asserts
<1>2. to \in States /\ Typed /\ level \in Int /\ target \in SUBSET States
  BY <1>1, TopIs DEF IInv, Typed
<1>3. Rank(Top.fn) = 3
  BY <1>1, Ranks
<1>4. level >= 0
  BY <1>1, <1>3, EntersUp
<1>5. /\ aim \in Frames /\ aim.fn = "prepare_target_path"
      /\ back \in Frames /\ back.fn = "transited" /\ back.kept = level
  BY <1>2 DEF Frame, Frames
<1>6. x # NoState => out \in Frames /\ out.fn = "exit_state"
  <2> HIDE DEF x
  <2> QED
    BY <1>1, <1>2 DEF Frame, Frames
<1>7. Led'
  <2>1. CASE x = NoState
    <3>1. target' = target /\ target_child' = target_child
      BY <1>1, <2>1 DEF targets
    <3> QED
      BY <3>1 DEF NInv, Led
  <2>2. CASE x # NoState
    <3>1. target' = (target \ TargetTree(x)) \cup {x}
      BY <1>1, <2>2 DEF set_target_flags
    <3> HIDE DEF x
    <3> QED
      BY <1>1, <2>2, <3>1, LedCut DEF NInv
  <2> QED
    BY <2>1, <2>2
<1>8. \E fs \in Seq(Frames) :
        /\ Becomes(fs) /\ DOMAIN fs \in SUBSET Nat
        /\ \A i \in DOMAIN fs : fs[i] = aim \/ fs[i] = back \/ fs[i].fn = "exit_state"
        /\ \A i, j \in DOMAIN fs : i < j => Rank(fs[i].fn) < Rank(fs[j].fn)
        /\ \E i \in DOMAIN fs : fs[i] = back
  <2>1. Rank("exit_state") = 0 /\ Rank("prepare_target_path") = 1 /\ Rank("transited") = 2
    BY Ranks
  <2>2. CASE x = NoState
    <3> DEFINE fs == <<aim, back>>
    <3>1. Becomes(fs)
      BY <1>1, <2>2
    <3> HIDE DEF aim, back
    <3>2. fs \in Seq(Frames) /\ DOMAIN fs = {1, 2} /\ fs[1] = aim /\ fs[2] = back
      BY <1>5
    <3> HIDE DEF fs
    <3>3. Rank(fs[1].fn) = 1 /\ Rank(fs[2].fn) = 2
      BY <1>5, <2>1, <3>2
    <3>4. \A i, j \in DOMAIN fs : i < j => i = 1 /\ j = 2
      BY <3>2
    <3>5. \A i, j \in DOMAIN fs : i < j => Rank(fs[i].fn) < Rank(fs[j].fn)
      BY <3>3, <3>4
    <3>6. \A i \in DOMAIN fs : fs[i] = aim \/ fs[i] = back \/ fs[i].fn = "exit_state"
      BY <3>2
    <3>7. DOMAIN fs \in SUBSET Nat /\ \E i \in DOMAIN fs : fs[i] = back
      BY <3>2
    <3> QED
      BY <3>1, <3>2, <3>5, <3>6, <3>7
  <2>3. CASE x # NoState
    <3> DEFINE fs == <<out, aim, back>>
    <3> HIDE DEF x, out, aim, back
    <3>1. <<out>> \o <<aim, back>> = fs
      BY <1>5, <1>6, <2>3, OneAndTwo
    <3>2. Becomes(fs)
      BY <1>1, <2>3, <3>1
    <3>3. /\ fs \in Seq(Frames) /\ DOMAIN fs = {1, 2, 3}
          /\ fs[1] = out /\ fs[2] = aim /\ fs[3] = back
      BY <1>5, <1>6, <2>3
    <3> HIDE DEF fs
    <3>4. Rank(fs[1].fn) = 0 /\ Rank(fs[2].fn) = 1 /\ Rank(fs[3].fn) = 2 /\ fs[1].fn = "exit_state"
      BY <1>5, <1>6, <2>1, <2>3, <3>3
    <3>5. \A i, j \in DOMAIN fs : i < j => (i = 1 /\ j = 2) \/ (i = 1 /\ j = 3) \/ (i = 2 /\ j = 3)
      BY <3>3
    <3>6. \A i, j \in DOMAIN fs : i < j => Rank(fs[i].fn) < Rank(fs[j].fn)
      BY <3>4, <3>5
    <3>7. \A i \in DOMAIN fs : fs[i] = aim \/ fs[i] = back \/ fs[i].fn = "exit_state"
      BY <3>3, <3>4
    <3>8. DOMAIN fs \in SUBSET Nat /\ \E i \in DOMAIN fs : fs[i] = back
      BY <3>3
    <3> QED
      BY <3>2, <3>3, <3>6, <3>7, <3>8
  <2> QED
    BY <2>2, <2>3
<1>9. PICK fs \in Seq(Frames) :
        /\ Becomes(fs) /\ DOMAIN fs \in SUBSET Nat
        /\ \A i \in DOMAIN fs : fs[i] = aim \/ fs[i] = back \/ fs[i].fn = "exit_state"
        /\ \A i, j \in DOMAIN fs : i < j => Rank(fs[i].fn) < Rank(fs[j].fn)
        /\ \E i \in DOMAIN fs : fs[i] = back
  BY <1>8
<1> HIDE DEF to, x, out, aim, back
<1>10. \A i \in DOMAIN fs :
         /\ fs[i].fn \in {"exit_state", "prepare_target_path", "transited"}
         /\ fs[i].fn = "transited" => fs[i].kept = level
  BY <1>5, <1>9
<1>11. Follows(fs)
  <2>1. ASSUME NEW i \in DOMAIN fs
        PROVE  /\ Rank(fs[i].fn) < Rank(Top.fn)
               /\ fs[i].fn \notin {"enter_stable_state", "history_child_"}
    <3>1. fs[i].fn \in {"exit_state", "prepare_target_path", "transited"}
      BY <1>10
    <3>2. Rank(fs[i].fn) \in {0, 1, 2}
      BY <3>1, Ranks
    <3> QED
      BY <1>3, <3>1, <3>2
  <2> QED
    BY <1>9, <2>1, StrictlyFollows
<1>12. RootLeaves'
  <2>1. \A i \in DOMAIN fs : fs[i].fn # "terminated"
    BY <1>10
  <2>2. Rank(Top.fn) # 0
    BY <1>3
  <2> QED
    BY <1>1, <1>9, <1>11, <2>1, <2>2, RootStays
<1>13. /\ UNCHANGED active /\ Top.fn \notin {"transited", "terminated"}
       /\ \E i \in DOMAIN fs : fs[i].fn \in {"transited", "terminated"}
  BY <1>1, <1>5, <1>9 DEF flags
<1>14. \A i \in DOMAIN fs :
         /\ fs[i].fn \notin {"exited", "enter_target_state", "transit"}
         /\ fs[i].fn \in Restoring => fs[i].kept >= 0
  BY <1>4, <1>10 DEF Restoring
<1> QED
  BY <1>1, <1>7, <1>9, <1>11, <1>12, <1>13, <1>14, NKept

\* terminate() clears every target and leaves the root.
LEMMA TerminateCareful == ASSUME TreeAssumption, IInv, NInv, Terminate PROVE NInv'
<1> DEFINE out  == Frame("exit_state", Root, 0)
           back == Frame("terminated", Root, level)
           fs   == <<out, back>>
<1>1. /\ stack # <<>> /\ Top.fn = "terminate" /\ Becomes(fs) /\ UNCHANGED flags
      /\ target' = target \ TargetTree(Root) /\ target_child' = ClearedChildren(TargetTree(Root))
  BY DEF Terminate, Running, set_target_flags, Abandoned
<1>2. level \in Int /\ Root \in States /\ target \in SUBSET States /\ Path /\ Typed /\ Led
  BY DEF IInv, NInv, Typed, TreeAssumption
<1>3. out \in Frames /\ out.fn = "exit_state" /\ out.state = Root
      /\ back \in Frames /\ back.fn = "terminated" /\ back.kept = level
  BY <1>2 DEF Frame, Frames
<1> HIDE DEF out, back
<1>4. fs \in Seq(Frames) /\ DOMAIN fs = {1, 2} /\ fs[1] = out /\ fs[2] = back
  BY <1>3
<1> HIDE DEF fs
<1>5. Moved(fs)
  BY <1>1, <1>4, StackTyped
<1>6. TargetTree(Root) = target
  <2>1. \A t \in target : Root \in Above[t] \cup {t}
    BY <1>2, RootAbove
  <2>2. TargetTree(Root) = {t \in target : Root \in Above[t] \cup {t}}
    BY <1>2, TargetTreeIs
  <2> QED
    BY <2>1, <2>2
<1>7. target' = {} /\ \A s \in States : target_child'[s] = NoState
  <2>1. \A s \in States : target_child'[s] = IF s \in target THEN NoState ELSE target_child[s]
    BY <1>1, <1>2, <1>6, ChildrenCleared
  <2> QED
    BY <1>1, <1>2, <1>6, <2>1 DEF Led
<1>8. Led'
  BY <1>7 DEF Led
<1>9. Rank(Top.fn) = 3 /\ level >= 0
  <2>1. Rank(Top.fn) = 3
    BY <1>1, Ranks
  <2> QED
    BY <1>1, <2>1, EntersUp
<1>10. Rank(fs[1].fn) = 0 /\ Rank(fs[2].fn) = 2
  BY <1>3, <1>4, Ranks
<1>11. Follows(fs)
  <2>1. ASSUME NEW i \in DOMAIN fs
        PROVE  /\ Rank(fs[i].fn) < Rank(Top.fn)
               /\ fs[i].fn \notin {"enter_stable_state", "history_child_"}
    BY <1>3, <1>4, <1>9, <1>10
  <2>2. \A i, j \in DOMAIN fs : i < j => i = 1 /\ j = 2
    BY <1>4
  <2>3. \A i, j \in DOMAIN fs : i < j => Rank(fs[i].fn) < Rank(fs[j].fn)
    BY <1>10, <2>2
  <2> QED
    BY <2>1, <2>3, StrictlyFollows
<1>12. RootLeaves'
  <2>1. \A i \in DOMAIN stack' : stack'[i].fn # "prepare_target_path"
    <3> SUFFICES ASSUME NEW i \in DOMAIN stack', stack'[i].fn = "prepare_target_path" PROVE FALSE
      OBVIOUS
    <3>1. i \notin DOMAIN fs
      BY <1>3, <1>4, <1>5 DEF Moved
    <3>2. PICK k \in DOMAIN stack : stack'[i] = stack[k]
      BY <1>5, <3>1 DEF Moved
    <3>3. Rank(stack[k].fn) = 1
      BY <3>2, Ranks
    <3>4. Rank(Top.fn) <= Rank(stack[k].fn)
      BY <1>1, LeastRank DEF NInv
    <3> QED
      BY <1>9, <3>3, <3>4
  <2>2. 1 \in DOMAIN stack' /\ stack'[1] = out
    BY <1>4, <1>5 DEF Moved
  <2>3. \E i \in DOMAIN stack' :
          stack'[i].fn \in {"exit_state", "on__exit", "exited"} /\ stack'[i].state = Root
    BY <1>3, <2>2
  <2> QED
    BY <1>7, <2>1, <2>3 DEF RootLeaves
<1>13. UNCHANGED active /\ Top.fn \notin {"transited", "terminated"}
  BY <1>1 DEF flags
<1>14. /\ \A i \in DOMAIN fs :
            /\ fs[i].fn \notin {"exited", "enter_target_state", "transit"}
            /\ fs[i].fn \in Restoring => fs[i].kept >= 0
       /\ \E i \in DOMAIN fs : fs[i].fn \in {"transited", "terminated"}
  BY <1>3, <1>4, <1>9 DEF Restoring
<1> QED
  BY <1>1, <1>4, <1>8, <1>11, <1>12, <1>13, <1>14, NKept

\* A path is chosen where none was, or what was chosen is given up.
LEMMA LedParted ==
    ASSUME TreeAssumption, IInv, Led, NEW s \in States, s \notin target,
           NEW p, NEW old, NEW off, Parting(s, p, old, off)
    PROVE  Led'
<1>1. /\ off \in SUBSET target /\ off \cap Untargeted(s) = {}
      /\ p # NoState => p \in target /\ p \in States /\ p \in Above[s] /\ p \notin off
      /\ old # NoState => IsChild(old, p) /\ IsOr(p) /\ p # NoState /\ old = target_child[p]
      /\ \A t \in States : t \in off <=> (old # NoState /\ t \in target /\ old \in Above[t] \cup {t})
      /\ \A u \in States : IsOr(u) /\ u # s /\ u \in Untargeted(s) \cup {p} =>
           target_child'[u] = Toward(u, s) /\ Toward(u, s) \in Untargeted(s)
      /\ \A u \in States : ~ (IsOr(u) /\ u # s /\ u \in Untargeted(s) \cup {p}) =>
           target_child'[u] = IF u \in off THEN NoState ELSE target_child[u]
  BY Parts
<1>2. target' = (target \ off) \cup Untargeted(s) /\ Typed /\ NoState \notin States
  BY DEF Parting, IInv, TreeAssumption
<1>3. ASSUME NEW u \in States, target_child'[u] # NoState
      PROVE  u \in target' /\ target_child'[u] \in target'
  <2>1. CASE IsOr(u) /\ u # s /\ u \in Untargeted(s) \cup {p}
    BY <1>1, <1>2, <2>1
  <2>2. CASE ~ (IsOr(u) /\ u # s /\ u \in Untargeted(s) \cup {p})
    <3> PICK c : c = target_child[u]
      OBVIOUS
    <3>1. u \notin off /\ target_child'[u] = c /\ c # NoState
      BY <1>1, <1>3, <2>2
    <3>2. u \in target /\ c \in target /\ IsChild(c, u)
      BY <3>1 DEF Led, IInv, Typed
    <3>3. c \in States /\ Above[c] = Above[u] \cup {u}
      BY <3>2, AboveChild DEF IsChild
    <3>4. c \notin off
      <4> SUFFICES ASSUME c \in off PROVE FALSE
        OBVIOUS
      <4>1. old # NoState /\ old = c
        BY <1>1, <3>1, <3>2, <3>3
      <4>2. u = p /\ IsOr(u) /\ u \in Above[s]
        BY <1>1, <3>2, <4>1 DEF IsChild
      <4>3. u # s
        BY <4>2, NotAboveItself
      <4> QED
        BY <2>2, <4>2, <4>3
    <3> QED
      BY <1>2, <3>1, <3>2, <3>4
  <2> QED
    BY <2>1, <2>2
<1> QED
  BY <1>3 DEF Led

\* prepare_target_path aims, and leaves what stands in the way.
LEMMA prepare_target_pathCareful ==
    ASSUME TreeAssumption, IInv, NInv, prepare_target_path PROVE NInv'
<1> DEFINE s == Top.state
           p == Joint(s)
           old == IF p # NoState /\ IsOr(p) THEN target_child[p] ELSE NoState
           off == IF old = NoState THEN {} ELSE TargetTree(old)
           at  == active_child[p]
<1>1. /\ stack # <<>> /\ Top.fn = "prepare_target_path" /\ Asserts /\ UNCHANGED flags /\ level' = level
  BY DEF prepare_target_path, Running
<1>2. s \in States /\ Typed
  BY <1>1, TopIs DEF IInv
<1>3. \A t \in States : Frame("exit_state", t, 0) \in Frames /\ Frame("exit_state", t, 0).fn = "exit_state"
  BY DEF Frame, Frames
<1>4. Led'
  <2>1. CASE s \in target
    <3>1. target' = target /\ target_child' = target_child
      BY <2>1 DEF prepare_target_path, targets
    <3> QED
      BY <3>1 DEF NInv, Led
  <2>2. CASE s \notin target
    <3>1. /\ target' = (target \ off) \cup Untargeted(s)
          /\ target_child' = [u \in States |->
                                IF IsOr(u) /\ u # s /\ u \in Untargeted(s) \cup {p} THEN Toward(u, s)
                                ELSE IF u \in off THEN NoState
                                ELSE target_child[u]]
      BY <2>2 DEF prepare_target_path, set_target_flags
    <3>2. old # NoState => old \in target
      BY <1>1, <2>2 DEF Asserts
    <3>3. Parting(s, p, old, off)
      BY <3>1, <3>2 DEF Parting
    <3> HIDE DEF s, p, old, off
    <3> QED
      BY <1>2, <2>2, <3>3, LedParted DEF NInv
  <2> QED
    BY <2>1, <2>2
<1>5. \E t \in States : Becomes(<<Frame("exit_state", t, 0)>>) \/ Becomes(<<>>)
  <2>1. CASE s \in target
    BY <1>2, <2>1 DEF prepare_target_path
  <2>2. CASE s \notin target
    <3>1. Becomes(IF old # NoState /\ at # NoState THEN <<Frame("exit_state", at, 0)>> ELSE <<>>)
      BY <2>2 DEF prepare_target_path
    <3>2. CASE old # NoState /\ at # NoState
      <4>1. p \in States
        <5>1. p # NoState
          BY <3>2
        <5> HIDE DEF s
        <5> QED
          BY <1>2, <2>2, <5>1, JoinsPath DEF IInv, Typed, s
      <4>2. at \in States
        BY <1>2, <3>2, <4>1 DEF Typed, IsChild
      <4> QED
        BY <3>1, <3>2, <4>2
    <3>3. CASE ~ (old # NoState /\ at # NoState)
      BY <1>2, <3>1, <3>3
    <3> QED
      BY <3>2, <3>3
  <2> QED
    BY <2>1, <2>2
<1> HIDE DEF s, p, old, off, at
<1>6. \E fs \in Seq(Frames) : Becomes(fs) /\ \A i, j \in DOMAIN fs : fs[i].fn = "exit_state" /\ ~ (i < j)
  <2>1. PICK t \in States : Becomes(<<Frame("exit_state", t, 0)>>) \/ Becomes(<<>>)
    BY <1>5
  <2> DEFINE f == Frame("exit_state", t, 0)
             fs == <<f>>
             none == <<>>
  <2>2. f \in Frames /\ f.fn = "exit_state"
    BY <1>3
  <2>3. Becomes(fs) \/ Becomes(none)
    BY <2>1
  <2> HIDE DEF f
  <2>4. fs \in Seq(Frames) /\ \A i, j \in DOMAIN fs : fs[i].fn = "exit_state" /\ ~ (i < j)
    BY <2>2
  <2>5. none \in Seq(Frames) /\ \A i, j \in DOMAIN none : none[i].fn = "exit_state" /\ ~ (i < j)
    OBVIOUS
  <2> HIDE DEF fs, none
  <2> QED
    BY <2>3, <2>4, <2>5
<1>7. PICK fs \in Seq(Frames) : Becomes(fs) /\ \A i, j \in DOMAIN fs : fs[i].fn = "exit_state" /\ ~ (i < j)
  BY <1>6
<1>8. Rank(Top.fn) = 1 /\ \A i \in DOMAIN fs : Rank(fs[i].fn) = 0
  BY <1>1, <1>7, Ranks
<1>9. Follows(fs)
  <2>1. ASSUME NEW i \in DOMAIN fs
        PROVE  /\ Rank(fs[i].fn) < Rank(Top.fn) /\ Rank(fs[i].fn) <= Rank(Top.fn)
               /\ fs[i].fn \notin {"enter_stable_state", "history_child_"}
    BY <1>7, <1>8
  <2>2. \A i, j \in DOMAIN fs : ~ (i < j)
    BY <1>7
  <2> QED
    BY <2>1, <2>2 DEF Follows
<1>10. RootLeaves'
  <2>1. \A i \in DOMAIN fs : fs[i].fn # "terminated"
    BY <1>7
  <2>2. Rank(Top.fn) # 0
    BY <1>8
  <2> QED
    BY <1>1, <1>7, <1>9, <2>1, <2>2, RootStays
<1>11. UNCHANGED active /\ Top.fn \notin {"transited", "terminated"}
  BY <1>1 DEF flags
<1>12. \A i \in DOMAIN fs : fs[i].fn \notin Restoring \cup {"exited", "enter_target_state", "transit"}
  BY <1>7 DEF Restoring
<1> QED
  BY <1>1, <1>4, <1>7, <1>9, <1>10, <1>11, <1>12, NKept

\* A step that goes on entering.
LEMMA EnteringNKept ==
    ASSUME TreeAssumption, IInv, NInv, stack # <<>>, Rank(Top.fn) = 4, Led',
           NEW fs \in Seq(Frames), Becomes(fs),
           \A i \in DOMAIN fs :
             /\ fs[i].fn \in {"transit", "terminate", "enter_target_state", "entered", "region",
                              "settled", "_complete_transition"}
             /\ fs[i].fn = "enter_target_state" => fs[i].state \in target'
             /\ fs[i].fn = "transit" /\ fs[i].kept # NoState =>
                  state_level(fs[i].kept) <= state_level(fs[i].state)
             /\ fs[i].fn = "entered" => fs[i].kept >= 0,
           \A i, j \in DOMAIN fs : i < j => fs[j].fn \notin {"transit", "terminate"},
           level' = level \/ level' >= 0
    PROVE  NInv'
<1>1. \A i \in DOMAIN fs : Rank(fs[i].fn) = 4 \/ (Rank(fs[i].fn) = 3 /\ fs[i].fn \in {"transit", "terminate"})
  BY Ranks
<1>2. Follows(fs)
  <2>1. ASSUME NEW i \in DOMAIN fs
        PROVE  /\ Rank(fs[i].fn) <= Rank(Top.fn) /\ Rank(fs[i].fn) \notin {1, 2}
               /\ fs[i].fn \notin {"enter_stable_state", "history_child_"}
    <3>1. Rank(fs[i].fn) \in {3, 4}
      BY <1>1
    <3>2. fs[i].fn \notin {"enter_stable_state", "history_child_"}
      OBVIOUS
    <3> QED
      BY <3>1, <3>2
  <2>2. ASSUME NEW i \in DOMAIN fs, NEW j \in DOMAIN fs, i < j PROVE Rank(fs[i].fn) <= Rank(fs[j].fn)
    <3>1. Rank(fs[j].fn) = 4 /\ Rank(fs[i].fn) \in {3, 4}
      BY <1>1, <2>2
    <3> QED
      BY <3>1
  <2> QED
    BY <2>1, <2>2 DEF Follows
<1>3. RootLeaves'
  <2>1. \A i \in DOMAIN fs : fs[i].fn # "terminated"
    OBVIOUS
  <2>2. Rank(Top.fn) # 0
    OBVIOUS
  <2> QED
    BY <1>2, <2>1, <2>2, RootStays
<1>4. Top.fn \notin {"transited", "terminated"}
  BY Ranks
<1>5. \A i \in DOMAIN fs :
        /\ fs[i].fn # "exited"
        /\ fs[i].fn \in Restoring => fs[i].kept >= 0
  BY DEF Restoring
<1> QED
  BY <1>2, <1>3, <1>4, <1>5, NKept

\* With any target the root is one; without one a machine is stable.
LEMMA RootTargeted ==
    ASSUME TreeAssumption, IInv, CountsAgree, ~ Stable PROVE Root \in target
<1>1. target \in SUBSET States /\ Path /\ IsFiniteSet(States)
  BY DEF IInv, Typed, TreeAssumption
<1>2. target # {}
  <2> SUFFICES ASSUME target = {} PROVE FALSE
    OBVIOUS
  <2> DEFINE on == {s \in States : active[s] > 0}
  <2>1. IsFiniteSet(on)
    <3>1. on \in SUBSET States
      OBVIOUS
    <3> HIDE DEF on
    <3> QED
      BY <1>1, <3>1, FS_Subset
  <2>2. active_count = Cardinality(on) /\ target_count = Cardinality(target)
    BY DEF IInv, Counted
  <2> HIDE DEF on
  <2>3. active_count \in Nat /\ target_count = 0
    BY <2>1, <2>2, FS_CardinalityType, FS_EmptySet
  <2> QED
    BY <2>3 DEF CountsAgree, Stable
<1>3. PICK t \in target : TRUE
  BY <1>2
<1>4. Root \in Above[t] \cup {t}
  BY <1>1, <1>3, RootAbove
<1> QED
  BY <1>1, <1>3, <1>4 DEF Path

\* enter_stable_state enters the root, which is a target, or has nothing to do.
LEMMA enter_stable_stateCareful == ASSUME TreeAssumption, IInv, NInv, enter_stable_state PROVE NInv'
<1> DEFINE due  == ~ Stable /\ level = 0
           next == Frame(Top.kept, Root, 0)
           down == Frame("enter_target_state", Root, 0)
<1>1. /\ stack # <<>> /\ Top.fn = "enter_stable_state" /\ Asserts /\ UNCHANGED <<targets, level>>
      /\ Becomes(IF due THEN <<down, next>> ELSE <<next>>)
  BY DEF enter_stable_state, Running
<1>2. Rank(Top.fn) = 4 /\ target' = target /\ target_child' = target_child /\ level' = level
  BY <1>1, Ranks DEF targets
<1>3. due => Root \in target
  <2>1. CountsAgree
    BY <1>1 DEF Asserts, AskingIfStable
  <2> QED
    BY <2>1, RootTargeted
<1>4. Top.kept \in {"settled", "_complete_transition"} /\ Root \in States
  BY <1>1, TopIs, FramesFields DEF TreeAssumption
<1>5. /\ next \in Frames /\ next.fn \in {"settled", "_complete_transition"}
      /\ down \in Frames /\ down.fn = "enter_target_state" /\ down.state = Root
  BY <1>4 DEF Frame, Frames
<1>6. Led'
  BY <1>2 DEF NInv, Led
<1>7. CASE due
  <2> DEFINE fs == <<down, next>>
  <2>1. Becomes(fs)
    BY <1>1, <1>7
  <2>2. Root \in target
    BY <1>3, <1>7
  <2> HIDE DEF due, next, down
  <2>3. fs \in Seq(Frames) /\ DOMAIN fs = {1, 2} /\ fs[1] = down /\ fs[2] = next
    BY <1>5
  <2> HIDE DEF fs
  <2>4. \A i \in DOMAIN fs :
          /\ fs[i].fn \in {"enter_target_state", "settled", "_complete_transition"}
          /\ fs[i].fn = "enter_target_state" => fs[i].state \in target'
    BY <1>2, <1>5, <2>2, <2>3
  <2> QED
    BY <1>1, <1>2, <1>6, <2>1, <2>3, <2>4, EnteringNKept
<1>8. CASE ~ due
  <2> DEFINE fs == <<next>>
  <2>1. Becomes(fs)
    BY <1>1, <1>8
  <2> HIDE DEF due, next, down
  <2>2. fs \in Seq(Frames) /\ DOMAIN fs = {1} /\ fs[1] = next
    BY <1>5
  <2> HIDE DEF fs
  <2>3. \A i \in DOMAIN fs : fs[i].fn \in {"settled", "_complete_transition"}
    BY <1>5, <2>2
  <2> QED
    BY <1>1, <1>2, <1>6, <2>1, <2>2, <2>3, EnteringNKept
<1> QED
  BY <1>7, <1>8

\* The call of a command that Careful allows.
LEMMA CommandModest ==
    ASSUME Careful, NEW cmd \in Commands,
           cmd \in Calls \/ \E hook \in DOMAIN Asking : cmd \in Asking[hook]
    PROVE  LET f == Command(cmd)
           IN  f.fn = "transit" /\ f.kept # NoState => state_level(f.kept) <= state_level(f.state)
<1>1. Command(cmd).state = cmd.to /\ Command(cmd).kept = cmd.ex
  BY DEF Command, Frame
<1>2. cmd \in Calls \cup UNION {Asking[hook] : hook \in DOMAIN Asking}
  OBVIOUS
<1>3. cmd.ex # NoState => state_level(cmd.ex) <= state_level(cmd.to)
  BY <1>2 DEF Careful
<1> HIDE DEF Command
<1> QED
  BY <1>1, <1>3

\* A state is entered, and its entry action may ask for a transition.
LEMMA enter_target_stateCareful ==
    ASSUME TreeAssumption, CallsAssumption, Careful, IInv, NInv, enter_target_state PROVE NInv'
<1> DEFINE s    == Top.state
           next == Frame("entered", s, level)
           hook == <<"en", s>>
<1>1. /\ stack # <<>> /\ Top.fn = "enter_target_state" /\ UNCHANGED targets
      /\ level' = level \/ level' = level + 1
      /\ Becomes(<<next>>) \/ UserAction(hook, next)
  BY DEF enter_target_state, Running
<1>2. s \in States /\ level \in Int /\ Rank(Top.fn) = 4
  BY <1>1, TopIs, Ranks DEF IInv, Typed
<1>3. level >= 0 /\ level' >= 0
  <2>1. level >= 0
    BY <1>1, <1>2, EntersUp
  <2> QED
    BY <1>1, <1>2, <2>1
<1>4. next \in Frames /\ next.fn = "entered" /\ next.kept >= 0
  BY <1>2, <1>3 DEF Frame, Frames
<1>5. Led'
  BY <1>1 DEF NInv, Led, targets
<1>6. Becomes(<<next>>) \/ \E cmd \in Commands :
        (\E h \in DOMAIN Asking : cmd \in Asking[h]) /\ Becomes(<<Command(cmd), next>>)
  <2> HIDE DEF next, hook
  <2>1. CASE Becomes(<<next>>)
    BY <2>1
  <2>2. CASE hook \in DOMAIN Asking /\ \E cmd \in Asking[hook] : Becomes(<<Command(cmd), next>>)
    BY <2>2 DEF CallsAssumption
  <2> QED
    BY <1>1, <2>1, <2>2 DEF UserAction
<1>7. CASE Becomes(<<next>>)
  <2> DEFINE fs == <<next>>
  <2> HIDE DEF next, s, hook
  <2>1. fs \in Seq(Frames) /\ DOMAIN fs = {1} /\ fs[1] = next /\ Becomes(fs)
    BY <1>4, <1>7
  <2> HIDE DEF fs
  <2>2. \A i \in DOMAIN fs : fs[i].fn = "entered" /\ fs[i].kept >= 0
    BY <1>4, <2>1
  <2> QED
    BY <1>1, <1>2, <1>3, <1>5, <2>1, <2>2, EnteringNKept
<1>8. CASE \E cmd \in Commands :
             (\E h \in DOMAIN Asking : cmd \in Asking[h]) /\ Becomes(<<Command(cmd), next>>)
  <2>1. PICK cmd \in Commands :
          (\E h \in DOMAIN Asking : cmd \in Asking[h]) /\ Becomes(<<Command(cmd), next>>)
    BY <1>8
  <2> DEFINE f  == Command(cmd)
             fs == <<f, next>>
  <2>2. f \in Frames /\ f.fn \in {"transit", "terminate"}
    BY CommandFrame
  <2>3. f.fn = "transit" /\ f.kept # NoState => state_level(f.kept) <= state_level(f.state)
    BY <2>1, CommandModest
  <2>4. Becomes(fs)
    BY <2>1
  <2> HIDE DEF f, next, s, hook
  <2>5. fs \in Seq(Frames) /\ DOMAIN fs = {1, 2} /\ fs[1] = f /\ fs[2] = next
    BY <1>4, <2>2
  <2> HIDE DEF fs
  <2>6. \A i \in DOMAIN fs :
          /\ fs[i].fn \in {"transit", "terminate", "entered"}
          /\ fs[i].fn = "transit" /\ fs[i].kept # NoState =>
               state_level(fs[i].kept) <= state_level(fs[i].state)
          /\ fs[i].fn = "entered" => fs[i].kept >= 0
    BY <1>4, <2>2, <2>3, <2>5
  <2>7. \A i, j \in DOMAIN fs : i < j => fs[j].fn \notin {"transit", "terminate"}
    BY <1>4, <2>5
  <2>8. \A i \in DOMAIN fs :
          /\ fs[i].fn \in {"transit", "terminate", "enter_target_state", "entered", "region",
                           "settled", "_complete_transition"}
          /\ fs[i].fn # "enter_target_state"
    BY <2>6
  <2> QED
    BY <1>1, <1>2, <1>3, <1>5, <2>4, <2>5, <2>6, <2>7, <2>8, EnteringNKept
<1> QED
  BY <1>6, <1>7, <1>8

\* A state whose entry action has returned aims at the child it enters.
LEMMA EnteredCareful == ASSUME TreeAssumption, IInv, NInv, Entered PROVE NInv'
<1> DEFINE s     == Top.state
           inner == IF target_child[s] # NoState THEN target_child[s] ELSE DefaultChild(s)
           down  == Frame("enter_target_state", inner, 0)
           first == Frame("region", s, 1)
<1>1. /\ stack # <<>> /\ Top.fn = "entered" /\ level' = Top.kept
      /\ \/ /\ active[s] = 1 /\ IsOr(s) /\ Becomes(<<down>>)
            /\ IF inner \in target THEN UNCHANGED targets
               ELSE /\ set_target_flags({inner}, {})
                    /\ target_child' = [target_child EXCEPT ![s] = inner]
         \/ /\ Becomes(<<>>) \/ (IsAnd(s) /\ Becomes(<<first>>))
            /\ UNCHANGED targets
  BY DEF Entered, Running, Resumed
<1>2. /\ s \in States /\ Rank(Top.fn) = 4 /\ Typed /\ target \in SUBSET States
      /\ 1 \in DOMAIN stack /\ stack[1] = Top /\ NoState \notin States
  BY <1>1, TopIs, LeastRank, Ranks DEF NInv, IInv, Typed, TreeAssumption
<1>3. level' >= 0
  BY <1>1, <1>2 DEF NInv, LevelUp, Restoring
<1>4. CASE active[s] = 1 /\ IsOr(s) /\ Becomes(<<down>>)
           /\ IF inner \in target THEN UNCHANGED targets
              ELSE /\ set_target_flags({inner}, {})
                   /\ target_child' = [target_child EXCEPT ![s] = inner]
  <2> DEFINE fs == <<down>>
  <2> HIDE DEF s
  <2>1. IsChild(inner, s)
    BY <1>2, <1>4, DefaultIsChild DEF Typed
  <2>2. s \in target
    <3>1. s \in Inside
      BY <1>2, <1>4 DEF Inside
    <3>2. Rank(Top.fn) # 0
      BY <1>2
    <3> QED
      BY <1>1, <3>1, <3>2, NothingLeft DEF NInv
  <2>3. down \in Frames /\ down.fn = "enter_target_state" /\ down.state = inner
    BY <2>1 DEF Frame, Frames, IsChild
  <2>4. inner \in target' /\ Led'
    <3>1. CASE inner \in target
      BY <1>4, <3>1 DEF targets, NInv, Led
    <3>2. CASE inner \notin target
      <4>1. target' = target \cup {inner} /\ target_child' = [target_child EXCEPT ![s] = inner]
        BY <1>4, <3>2 DEF set_target_flags
      <4> HIDE DEF inner
      <4>2. \A u \in States : target_child'[u] = IF u = s THEN inner ELSE target_child[u]
        BY <1>2, <4>1 DEF Typed
      <4> QED
        BY <2>2, <4>1, <4>2 DEF NInv, Led
    <3> QED
      BY <3>1, <3>2
  <2>5. Becomes(fs)
    BY <1>4
  <2> HIDE DEF down, inner, first
  <2>6. fs \in Seq(Frames) /\ DOMAIN fs = {1} /\ fs[1] = down
    BY <2>3
  <2> HIDE DEF fs
  <2>7. \A i \in DOMAIN fs : fs[i].fn = "enter_target_state" /\ fs[i].state \in target'
    BY <2>3, <2>4, <2>6
  <2> QED
    BY <1>1, <1>2, <1>3, <2>4, <2>5, <2>6, <2>7, EnteringNKept
<1>5. CASE (Becomes(<<>>) \/ (IsAnd(s) /\ Becomes(<<first>>))) /\ UNCHANGED targets
  <2>1. Led'
    BY <1>5 DEF targets, NInv, Led
  <2>2. IsAnd(s) => first \in Frames /\ first.fn = "region"
    BY <1>2 DEF Frame, Frames
  <2> HIDE DEF s, first, inner, down
  <2>3. CASE Becomes(<<>>)
    <3>1. <<>> \in Seq(Frames) /\ DOMAIN <<>> = {}
      OBVIOUS
    <3> QED
      BY <1>1, <1>2, <1>3, <2>1, <2>3, <3>1, EnteringNKept
  <2>4. CASE IsAnd(s) /\ Becomes(<<first>>)
    <3> DEFINE fs == <<first>>
    <3>1. fs \in Seq(Frames) /\ DOMAIN fs = {1} /\ fs[1] = first /\ Becomes(fs)
      BY <2>2, <2>4
    <3> HIDE DEF fs
    <3>2. \A i \in DOMAIN fs : fs[i].fn = "region"
      BY <2>2, <2>4, <3>1
    <3> QED
      BY <1>1, <1>2, <1>3, <2>1, <3>1, <3>2, EnteringNKept
  <2> QED
    BY <1>5, <2>3, <2>4
<1> QED
  BY <1>1, <1>4, <1>5

\* The regions of an AND state are aimed at one by one.
LEMMA RegionCareful == ASSUME TreeAssumption, IInv, NInv, Region PROVE NInv'
<1> DEFINE s    == Top.state
           i    == Top.kept
           c    == Kids[s][i]
           down == Frame("enter_target_state", c, 0)
           more == Frame("region", s, i + 1)
<1>1. /\ stack # <<>> /\ Top.fn = "region" /\ level' = level /\ target_child' = target_child
      /\ \/ i <= Len(Kids[s]) /\ Becomes(<<down, more>>) /\ set_target_flags({c}, {})
         \/ Becomes(<<>>) /\ UNCHANGED target
  BY DEF Region, Running
<1>2. s \in States /\ IsAnd(s) /\ i \in Nat \ {0} /\ Rank(Top.fn) = 4 /\ Kids[s] \in Seq(States)
  <2>1. Top \in Frames /\ s \in States
    BY <1>1, TopIs
  <2>2. IsAnd(s) /\ i \in Nat \ {0}
    BY <1>1, <2>1, FramesFields
  <2> QED
    BY <1>1, <2>1, <2>2, Ranks DEF TreeAssumption
<1> HIDE DEF s, i
<1>3. CASE Becomes(<<>>) /\ UNCHANGED target
  <2>1. Led'
    BY <1>1, <1>3 DEF NInv, Led
  <2>2. <<>> \in Seq(Frames) /\ DOMAIN <<>> = {}
    OBVIOUS
  <2> QED
    BY <1>1, <1>2, <1>3, <2>1, <2>2, EnteringNKept
<1>4. CASE i <= Len(Kids[s]) /\ Becomes(<<down, more>>) /\ set_target_flags({c}, {})
  <2> DEFINE fs == <<down, more>>
  <2>1. c \in States /\ i + 1 \in Nat \ {0}
    BY <1>2, <1>4
  <2>2. target' = target \cup {c}
    BY <1>4 DEF set_target_flags
  <2>3. Led'
    BY <1>1, <2>2 DEF NInv, Led
  <2> HIDE DEF c
  <2>4. /\ down \in Frames /\ down.fn = "enter_target_state" /\ down.state = c
        /\ more \in Frames /\ more.fn = "region"
    BY <1>2, <2>1 DEF Frame, Frames
  <2>5. Becomes(fs)
    BY <1>4
  <2> HIDE DEF down, more
  <2>6. fs \in Seq(Frames) /\ DOMAIN fs = {1, 2} /\ fs[1] = down /\ fs[2] = more
    BY <2>4
  <2> HIDE DEF fs
  <2>7. \A n \in DOMAIN fs :
          /\ fs[n].fn \in {"enter_target_state", "region"}
          /\ fs[n].fn = "enter_target_state" => fs[n].state \in target'
    BY <2>2, <2>4, <2>6
  <2> QED
    BY <1>1, <1>2, <2>3, <2>5, <2>6, <2>7, EnteringNKept
<1> QED
  BY <1>1, <1>3, <1>4

\* A machine at rest that is called.
LEMMA CalledCareful ==
    ASSUME Led, level = 0, NEW f, stack' = <<f>>, UNCHANGED <<active, target, target_child, level>>,
           \/ f.fn \in {"transit", "terminate", "enter_stable_state"}
           \/ f.fn = "history_child_" /\ HistoryCalls # {},
           f.fn = "transit" /\ f.kept # NoState => state_level(f.kept) <= state_level(f.state)
    PROVE  NInv'
<1>1. DOMAIN stack' = {1} /\ stack'[1] = f
  OBVIOUS
<1>2. Ordered'
  BY <1>1 DEF Ordered
<1>3. ExitedLast' /\ RootLeaves' /\ EntersTargets' /\ SetsFresh'
  BY <1>1 DEF ExitedLast, RootLeaves, EntersTargets, SetsFresh
<1>4. Led' /\ LevelUp'
  BY <1>1 DEF Led, LevelUp, Restoring
<1>5. Modest'
  BY <1>1 DEF Modest, state_level
<1> QED
  BY <1>2, <1>3, <1>4, <1>5 DEF NInv

\* What a handler or the continuation calls.
LEMMA CallCareful ==
    ASSUME TreeAssumption, CallsAssumption, Careful, IInv, NInv, Call \/ EnterNow \/ SetHistory \/ Continue
    PROVE  NInv'
<1>1. stack = <<>> /\ UNCHANGED <<active, target, target_child, level>>
  BY DEF Call, EnterNow, SetHistory, Continue, InHandler, Idle, flags, targets
<1>2. level = 0 /\ Led
  BY <1>1, RestIs DEF AtRest, NInv
<1>3. CASE Call
  <2>1. PICK cmd \in Calls : stack' = <<Command(cmd)>>
    BY <1>3 DEF Call, Asks
  <2>2. cmd \in Commands
    BY DEF CallsAssumption
  <2> DEFINE f == Command(cmd)
  <2>3. f.fn \in {"transit", "terminate"}
    BY <2>2, CommandFrame
  <2>4. f.fn = "transit" /\ f.kept # NoState => state_level(f.kept) <= state_level(f.state)
    BY <2>2, CommandModest
  <2>5. stack' = <<f>>
    BY <2>1
  <2> HIDE DEF f
  <2> QED
    BY <1>1, <1>2, <2>3, <2>4, <2>5, CalledCareful
<1>4. CASE EnterNow \/ Continue
  <2>1. \E f : stack' = <<f>> /\ f.fn = "enter_stable_state"
    BY <1>4 DEF EnterNow, Continue, Asks, Frame
  <2>2. PICK f : stack' = <<f>> /\ f.fn = "enter_stable_state"
    BY <2>1
  <2> QED
    BY <1>1, <1>2, <2>2, CalledCareful
<1>5. CASE SetHistory
  <2>1. HistoryCalls # {} /\ \E f : stack' = <<f>> /\ f.fn = "history_child_"
    BY <1>5 DEF SetHistory, Asks, Frame
  <2>2. PICK f : stack' = <<f>> /\ f.fn = "history_child_"
    BY <2>1
  <2> QED
    BY <1>1, <1>2, <2>1, <2>2, CalledCareful
<1> QED
  BY <1>3, <1>4, <1>5

\* A copy starts with transits, and histories of states that are out.
LEMMA RespawnCareful == ASSUME TreeAssumption, WalkAssumption, IInv, NInv, Respawn PROVE NInv'
<1>1. /\ stack' = _start_copy(save_machine_state)
      /\ active' = [s \in States |-> 0] /\ target_child' = [s \in States |-> NoState] /\ level' = 0
  BY DEF Respawn, Asks
<1>2. /\ \A i \in DOMAIN stack' : stack'[i].fn \in {"transit", "history_child_"}
      /\ \A i \in DOMAIN stack' : stack'[i].fn = "transit" => stack'[i].kept = NoState
  <2>1. /\ \A i \in DOMAIN stack' : stack'[i].fn \in {"transit", "history_child_"}
        /\ \A i \in DOMAIN stack' : stack'[i].fn = "transit" =>
             stack'[i].state \in target /\ stack'[i].kept = NoState
    BY <1>1, StartsCopy DEF IInv
  <2> QED
    BY <2>1
<1>3. Ordered'
  <2>1. \A i \in DOMAIN stack' : Rank(stack'[i].fn) = 3
    BY <1>2, Ranks
  <2>2. \A i, j \in DOMAIN stack' :
          Rank(stack'[i].fn) <= Rank(stack'[j].fn) /\ Rank(stack'[i].fn) \notin {1, 2}
    BY <2>1
  <2> QED
    BY <2>2 DEF Ordered, Rank
<1>4. ExitedLast' /\ RootLeaves' /\ EntersTargets'
  BY <1>2 DEF ExitedLast, RootLeaves, EntersTargets
<1>5. Led' /\ SetsFresh'
  BY <1>1 DEF Led, SetsFresh
<1>6. LevelUp'
  <2>1. \A i \in DOMAIN stack' : stack'[i].fn \notin Restoring
    BY <1>2 DEF Restoring
  <2>2. level' >= 0
    BY <1>1
  <2> QED
    BY <2>1, <2>2 DEF LevelUp, Restoring
<1>7. Modest'
  BY <1>2 DEF Modest
<1> QED
  BY <1>3, <1>4, <1>5, <1>6, <1>7 DEF NInv

\* A new machine: nothing is called and nothing aimed at.
LEMMA InitNInv == ASSUME Init PROVE NInv
<1>1. DOMAIN stack = {} /\ target_child = [s \in States |-> NoState] /\ level = 0
  BY DEF Init
<1> QED
  BY <1>1 DEF NInv, Ordered, ExitedLast, RootLeaves, Led, EntersTargets, LevelUp, SetsFresh, Modest

\* Nothing changes.
LEMMA SameNInv == ASSUME NInv, UNCHANGED vars PROVE NInv'
<1>1. UNCHANGED <<active, target, target_child, level, stack>>
  BY DEF vars, flags, targets
<1> QED
  BY <1>1 DEF NInv, Ordered, ExitedLast, RootLeaves, Led, EntersTargets, LevelUp, SetsFresh, Modest,
              Rank, state_level

-------------------------------------------------------------------------------
(* A machine whose actions ask for nothing.                                    *)

\* What enters goes on entering, and nothing else starts to.
LEMMA NoneHalfKept ==
    ASSUME NoneHalf, NEW fs, Moved(fs),
           \A i \in DOMAIN fs : fs[i].fn \in Descending => Top.fn \in Descending,
           (\E k \in DOMAIN stack : stack[k].fn \in Descending) =>
               /\ \A i \in DOMAIN fs : fs[i].fn \in Entering
               /\ \A s \in States : active'[s] \in {0, 1}
    PROVE  NoneHalf'
<1> SUFFICES ASSUME NEW i \in DOMAIN stack', stack'[i].fn \in Descending
             PROVE  /\ \A j \in DOMAIN stack' : stack'[j].fn \in Entering
                    /\ \A s \in States : active'[s] \in {0, 1}
  BY DEF NoneHalf, Descending, Entering
<1>1. \E k \in DOMAIN stack : stack[k].fn \in Descending
  <2>1. CASE i \in DOMAIN fs
    BY <2>1 DEF Moved
  <2>2. CASE i \notin DOMAIN fs
    BY <2>2 DEF Moved
  <2> QED
    BY <2>1, <2>2
<1>2. \A k \in DOMAIN stack : stack[k].fn \in Entering
  BY <1>1 DEF NoneHalf
<1>3. ASSUME NEW j \in DOMAIN stack' PROVE stack'[j].fn \in Entering
  <2>1. CASE j \in DOMAIN fs
    BY <1>1, <2>1 DEF Moved
  <2>2. CASE j \notin DOMAIN fs
    BY <1>2, <2>2 DEF Moved
  <2> QED
    BY <2>1, <2>2
<1> QED
  BY <1>1, <1>3

\* Outside of every exit no on__exit is waiting.
LEMMA NoneLeaves ==
    ASSUME IInv, Ordered, stack # <<>>, Rank(Top.fn) # 0, NEW fs, Moved(fs),
           \A i \in DOMAIN fs : fs[i].fn # "on__exit"
    PROVE  AllLeave'
<1>1. \A k \in DOMAIN stack : stack[k].fn # "on__exit"
  <2> SUFFICES ASSUME NEW k \in DOMAIN stack, stack[k].fn = "on__exit" PROVE FALSE
    OBVIOUS
  <2>1. Rank(stack[k].fn) = 0
    BY Ranks
  <2>2. Rank(Top.fn) <= 0 /\ Rank(Top.fn) \in 0..4
    BY <2>1, LeastRank, Ranks
  <2> QED
    BY <2>2
<1>2. \A i \in DOMAIN stack' : stack'[i].fn # "on__exit"
  BY <1>1 DEF Moved
<1> QED
  BY <1>2 DEF AllLeave

\* A step that enters and leaves no state.
LEMMA QuietSame ==
    ASSUME IInv, NInv, OInv, stack # <<>>, Rank(Top.fn) # 0,
           NEW fs \in Seq(Frames), Becomes(fs), UNCHANGED <<active, active_child>>,
           \A i \in DOMAIN fs :
             /\ fs[i].fn # "on__exit"
             /\ fs[i].fn \in Descending => Top.fn \in Descending
             /\ Top.fn \in Entering => fs[i].fn \in Entering
    PROVE  OInv'
<1>1. Moved(fs)
  BY StackTyped
<1>2. AllLeave'
  BY <1>1, NoneLeaves DEF NInv
<1>3. InBelow'
  BY DEF OInv, InBelow
<1>4. (\E k \in DOMAIN stack : stack[k].fn \in Descending) =>
        /\ Top.fn \in Entering
        /\ \A s \in States : active'[s] \in {0, 1}
  BY <1>1 DEF OInv, NoneHalf, Moved
<1>5. NoneHalf'
  BY <1>1, <1>4, NoneHalfKept DEF OInv
<1> QED
  BY <1>2, <1>3, <1>5 DEF OInv

\* The calls of transit and terminate, what they call, and the returns.
LEMMA AimingQuiet ==
    ASSUME TreeAssumption, IInv, NInv, OInv, Transit \/ Terminate \/ prepare_target_path PROVE OInv'
<1>1. /\ stack # <<>> /\ Top.fn \in {"transit", "terminate", "prepare_target_path"}
      /\ UNCHANGED <<active, active_child>>
  BY DEF Transit, Terminate, prepare_target_path, Running, flags
<1>2. Rank(Top.fn) # 0 /\ Top.fn \notin Entering
  BY <1>1, Ranks DEF Entering
<1>3. ASSUME NEW fs \in Seq(Frames), Becomes(fs),
             \A i \in DOMAIN fs :
               fs[i].fn \in {"exit_state", "prepare_target_path", "transited", "terminated"}
      PROVE  OInv'
  <2>1. \A i \in DOMAIN fs : fs[i].fn # "on__exit" /\ fs[i].fn \notin Descending
    BY <1>3 DEF Descending
  <2> QED
    BY <1>1, <1>2, <1>3, <2>1, QuietSame
<1>4. /\ \A t \in States : Frame("exit_state", t, 0) \in Frames /\ Frame("exit_state", t, 0).fn = "exit_state"
      /\ Top.state \in States /\ level \in Int /\ Root \in States /\ Typed
  BY <1>1, TopIs DEF IInv, Typed, TreeAssumption, Frame, Frames
<1>5. CASE Transit
  <2> DEFINE x    == ExitPoint(Top.state, Top.kept)
             out  == Frame("exit_state", x, 0)
             aim  == Frame("prepare_target_path", Top.state, 0)
             back == Frame("transited", Top.state, level)
  <2>1. /\ x # NoState => x \in target /\ Becomes(<<out>> \o <<aim, back>>)
        /\ x = NoState => Becomes(<<aim, back>>)
    BY <1>5 DEF Transit, Running, Asserts
  <2>2. aim \in Frames /\ aim.fn = "prepare_target_path" /\ back \in Frames /\ back.fn = "transited"
    BY <1>4 DEF Frame, Frames
  <2>3. x # NoState => out \in Frames /\ out.fn = "exit_state"
    <3>1. target \in SUBSET States
      BY <1>4 DEF Typed
    <3> HIDE DEF x
    <3> QED
      BY <1>4, <2>1, <3>1
  <2> HIDE DEF x, out, aim, back
  <2>4. CASE x = NoState
    <3> DEFINE fs == <<aim, back>>
    <3>1. fs \in Seq(Frames) /\ DOMAIN fs = {1, 2} /\ fs[1] = aim /\ fs[2] = back /\ Becomes(fs)
      BY <2>1, <2>2, <2>4
    <3> HIDE DEF fs
    <3> QED
      BY <1>3, <2>2, <3>1
  <2>5. CASE x # NoState
    <3> DEFINE fs == <<out, aim, back>>
    <3>1. <<out>> \o <<aim, back>> = fs
      BY <2>2, <2>3, <2>5, OneAndTwo
    <3>2. Becomes(fs)
      BY <2>1, <2>5, <3>1
    <3>3. fs \in Seq(Frames) /\ DOMAIN fs = {1, 2, 3} /\ fs[1] = out /\ fs[2] = aim /\ fs[3] = back
      BY <2>2, <2>3, <2>5
    <3> HIDE DEF fs
    <3> QED
      BY <1>3, <2>2, <2>3, <2>5, <3>2, <3>3
  <2> QED
    BY <2>4, <2>5
<1>6. CASE Terminate
  <2> DEFINE out  == Frame("exit_state", Root, 0)
             back == Frame("terminated", Root, level)
             fs   == <<out, back>>
  <2>1. Becomes(fs)
    BY <1>6 DEF Terminate
  <2>2. out \in Frames /\ out.fn = "exit_state" /\ back \in Frames /\ back.fn = "terminated"
    BY <1>4 DEF Frame, Frames
  <2> HIDE DEF out, back
  <2>3. fs \in Seq(Frames) /\ DOMAIN fs = {1, 2} /\ fs[1] = out /\ fs[2] = back
    BY <2>2
  <2> HIDE DEF fs
  <2> QED
    BY <1>3, <2>1, <2>2, <2>3
<1>7. CASE prepare_target_path
  <2>1. \E t \in States : Becomes(<<Frame("exit_state", t, 0)>>) \/ Becomes(<<>>)
    <3> DEFINE s   == Top.state
               p   == Joint(s)
               old == IF p # NoState /\ IsOr(p) THEN target_child[p] ELSE NoState
               at  == active_child[p]
    <3>1. CASE s \in target
      BY <1>4, <1>7, <3>1 DEF prepare_target_path
    <3>2. CASE s \notin target
      <4>1. Becomes(IF old # NoState /\ at # NoState THEN <<Frame("exit_state", at, 0)>> ELSE <<>>)
        BY <1>7, <3>2 DEF prepare_target_path
      <4>2. CASE old # NoState /\ at # NoState
        <5>1. p \in States
          <6>1. p # NoState
            BY <4>2
          <6> HIDE DEF s
          <6> QED
            BY <1>4, <3>2, <6>1, JoinsPath DEF IInv, Typed, s
        <5>2. at \in States
          BY <1>4, <4>2, <5>1 DEF Typed, IsChild
        <5> QED
          BY <4>1, <4>2, <5>2
      <4>3. CASE ~ (old # NoState /\ at # NoState)
        BY <1>4, <4>1, <4>3
      <4> QED
        BY <4>2, <4>3
    <3> QED
      BY <3>1, <3>2
  <2>2. PICK t \in States : Becomes(<<Frame("exit_state", t, 0)>>) \/ Becomes(<<>>)
    BY <2>1
  <2> DEFINE f == Frame("exit_state", t, 0)
  <2>3. f \in Frames /\ f.fn = "exit_state"
    BY <1>4
  <2>4. Becomes(<<f>>) \/ Becomes(<<>>)
    BY <2>2
  <2> HIDE DEF f
  <2>5. <<f>> \in Seq(Frames) /\ DOMAIN <<f>> = {1} /\ <<f>>[1] = f
    BY <2>3
  <2>6. <<>> \in Seq(Frames) /\ DOMAIN <<>> = {}
    OBVIOUS
  <2>7. \A i \in DOMAIN <<f>> : <<f>>[i].fn = "exit_state"
    BY <2>3, <2>5
  <2> DEFINE one == <<f>>
  <2>8. one \in Seq(Frames) /\ \A i \in DOMAIN one : one[i].fn = "exit_state"
    BY <2>5, <2>7
  <2>9. Becomes(one) \/ Becomes(<<>>)
    BY <2>4
  <2> HIDE DEF one
  <2> QED
    BY <1>3, <2>6, <2>8, <2>9
<1> QED
  BY <1>5, <1>6, <1>7

\* Calls return.
LEMMA ReturnsQuiet ==
    ASSUME IInv, NInv, OInv, Transited \/ Terminated \/ settled \/ _complete_transition PROVE OInv'
<1>1. /\ stack # <<>> /\ Becomes(<<>>) /\ UNCHANGED <<active, active_child>>
      /\ Top.fn \in {"transited", "terminated", "settled", "_complete_transition"}
  BY DEF Transited, Terminated, settled, _complete_transition, Running, flags
<1>2. <<>> \in Seq(Frames) /\ DOMAIN <<>> = {}
  OBVIOUS
<1>3. Rank(Top.fn) # 0
  BY <1>1, Ranks
<1> QED
  BY <1>1, <1>2, <1>3, QuietSame

\* A history is set of a state that is out, and cleared of such states.
LEMMA HistoryQuiet == ASSUME IInv, NInv, OInv, history_child_ PROVE OInv'
<1> DEFINE s == Top.state
           deep == ClearsDeep(s, Top.kept)
           set  == SetsHistory(s, Top.kept)
<1>1. /\ stack # <<>> /\ Becomes(<<>>) /\ Top.fn = "history_child_" /\ active' = active /\ Asserts
      /\ active_child' =
             [t \in States |->
                 IF deep /\ t \in Cleared(s) /\ histype(t) = INHERITED THEN NoState
                 ELSE IF set /\ t = s THEN Top.kept
                 ELSE active_child[t]]
  BY DEF history_child_, Running, flags
<1>2. deep => \A t \in Cleared(s) : active[t] = 0
  BY <1>1 DEF Asserts
<1>3. set => active[s] = 0
  BY DEF SetsHistory, CanSetHistory
<1>4. s \in States
  BY <1>1, TopIs
<1> HIDE DEF deep, set, s
<1>5. \A t \in States : active[t] \in {1, -1} => active_child'[t] = active_child[t]
  BY <1>1, <1>2, <1>3, <1>4
<1>6. InBelow'
  <2> SUFFICES ASSUME NEW c \in States \ {Root}, active'[c] # 0
               PROVE  /\ active'[Parent[c]] \in {1, -1}
                      /\ IsOr(Parent[c]) => active_child'[Parent[c]] = c
    BY DEF InBelow, IsOr
  <2>1. active[Parent[c]] \in {1, -1} /\ (IsOr(Parent[c]) => active_child[Parent[c]] = c)
    BY <1>1 DEF OInv, InBelow
  <2>2. Parent[c] \in States
    BY LevelOfParent, TreeAssumption
  <2> QED
    BY <1>1, <1>5, <2>1, <2>2
<1>7. <<>> \in Seq(Frames) /\ DOMAIN <<>> = {}
  OBVIOUS
<1>8. Moved(<<>>)
  BY <1>1, <1>7, StackTyped
<1>9. Rank(Top.fn) # 0 /\ Top.fn \notin Entering
  BY <1>1, Ranks DEF Entering
<1>10. AllLeave'
  BY <1>1, <1>7, <1>8, <1>9, NoneLeaves DEF NInv
<1>11. ~ \E k \in DOMAIN stack : stack[k].fn \in Descending
  BY <1>8, <1>9 DEF OInv, NoneHalf, Moved
<1>12. NoneHalf'
  BY <1>7, <1>8, <1>11, NoneHalfKept DEF OInv
<1> QED
  BY <1>6, <1>10, <1>12 DEF OInv

\* Children that are not out have the calls that leave them in front of the
\* on__exit of their parent.
LEMMA AllLeaveKept ==
    ASSUME AllLeave, NEW fs, Moved(fs),
           \A c \in States : active'[c] # 0 => active[c] # 0,
           \A i \in DOMAIN fs : fs[i].fn = "on__exit" =>
               \A c \in States : IsChild(c, fs[i].state) /\ active'[c] # 0 =>
                   \E j \in DOMAIN fs : j < i /\ Exits(fs[j], c),
           \A k \in DOMAIN stack :
               stack[k].fn = "on__exit" /\ IsChild(Top.state, stack[k].state) /\ active'[Top.state] # 0
                 => \E i \in DOMAIN fs : Exits(fs[i], Top.state)
    PROVE  AllLeave'
<1> SUFFICES ASSUME NEW i \in DOMAIN stack', stack'[i].fn = "on__exit",
                    NEW c \in States, IsChild(c, stack'[i].state), active'[c] # 0
             PROVE  \E j \in DOMAIN stack' : j < i /\ Exits(stack'[j], c)
  BY DEF AllLeave, Exits, IsChild
<1>1. CASE i \in DOMAIN fs
  <2>1. stack'[i] = fs[i]
    BY <1>1 DEF Moved
  <2>2. PICK j \in DOMAIN fs : j < i /\ Exits(fs[j], c)
    BY <1>1, <2>1
  <2> QED
    BY <2>2 DEF Moved
<1>2. CASE i \notin DOMAIN fs
  <2>1. PICK k \in DOMAIN stack : k > 1 /\ i = k + Len(fs) - 1 /\ stack'[i] = stack[k]
    BY <1>2 DEF Moved
  <2>2. PICK l \in DOMAIN stack : l < k /\ Exits(stack[l], c)
    BY <2>1 DEF AllLeave
  <2>3. CASE l = 1
    <3>1. c = Top.state
      BY <2>2, <2>3 DEF Exits, Moved
    <3>2. PICK j \in DOMAIN fs : Exits(fs[j], c)
      BY <2>1, <3>1
    <3>3. j \in DOMAIN stack' /\ stack'[j] = fs[j] /\ j < i
      BY <2>1, <3>2 DEF Moved
    <3> QED
      BY <3>2, <3>3
  <2>4. CASE l # 1
    <3>1. l > 1 /\ l + Len(fs) - 1 < i
      BY <2>1, <2>2, <2>4 DEF Moved
    <3>2. l + Len(fs) - 1 \in DOMAIN stack' /\ stack'[l + Len(fs) - 1] = stack[l]
      BY <3>1 DEF Moved
    <3> QED
      BY <2>2, <3>1, <3>2
  <2> QED
    BY <2>3, <2>4
<1> QED
  BY <1>1, <1>2

\* A step inside of an exit.
LEMMA LeavingQuiet ==
    ASSUME IInv, OInv, InBelow', stack # <<>>, Top.fn \in {"exit_state", "on__exit", "exited"},
           NEW fs \in Seq(Frames), Becomes(fs),
           \A i \in DOMAIN fs : fs[i].fn \in {"exit_state", "on__exit", "exited"},
           \A c \in States : active'[c] # 0 => active[c] # 0,
           \A i \in DOMAIN fs : fs[i].fn = "on__exit" =>
               \A c \in States : IsChild(c, fs[i].state) /\ active'[c] # 0 =>
                   \E j \in DOMAIN fs : j < i /\ Exits(fs[j], c),
           \A k \in DOMAIN stack :
               stack[k].fn = "on__exit" /\ IsChild(Top.state, stack[k].state) /\ active'[Top.state] # 0
                 => \E i \in DOMAIN fs : Exits(fs[i], Top.state)
    PROVE  OInv'
<1>1. Moved(fs)
  BY StackTyped
<1>2. AllLeave'
  BY <1>1, AllLeaveKept DEF OInv
<1>3. Top.fn \notin Entering
  BY DEF Entering
<1>4. ~ \E k \in DOMAIN stack : stack[k].fn \in Descending
  BY <1>1, <1>3 DEF OInv, NoneHalf, Moved
<1>5. \A i \in DOMAIN fs : fs[i].fn \notin Descending
  BY DEF Descending
<1>6. NoneHalf'
  BY <1>1, <1>4, <1>5, NoneHalfKept DEF OInv
<1> QED
  BY <1>2, <1>6 DEF OInv

\* exit_state goes down into every child that is in, or half left.
LEMMA exit_stateQuiet == ASSUME TreeAssumption, IInv, OInv, exit_state PROVE OInv'
<1> DEFINE s  == Top.state
           fs == CASE active[s] \in {1, -1} -> ExitCalls(s)
                   [] active[s] = -2 -> <<Frame("exited", s, 0)>>
                   [] OTHER -> <<>>
<1>1. /\ stack # <<>> /\ Top.fn = "exit_state" /\ Becomes(fs) /\ active_child' = active_child
      /\ IF active[s] = 1 THEN set_active_flag(s, -1) ELSE UNCHANGED flags
  BY DEF exit_state, Running, ExitCalls
<1>2. s \in States /\ Root \in States /\ Typed /\ active \in [States -> -2..1]
  BY <1>1, TopIs DEF IInv, Typed, TreeAssumption
<1>3. \/ active' = active
      \/ active[s] = 1 /\ active' = [active EXCEPT ![s] = -1]
  BY <1>1 DEF set_active_flag, flags
<1>4. \A c \in States : /\ active'[c] # 0 => active[c] # 0
                        /\ active[c] \in {1, -1} => active'[c] \in {1, -1}
  <2> HIDE DEF s
  <2> QED
    BY <1>2, <1>3
<1>5. InBelow'
  <2> SUFFICES ASSUME NEW c \in States \ {Root}, active'[c] # 0
               PROVE  /\ active'[Parent[c]] \in {1, -1}
                      /\ IsOr(Parent[c]) => active_child'[Parent[c]] = c
    BY DEF InBelow, IsOr
  <2>1. active[c] # 0 /\ Parent[c] \in States
    BY <1>4, LevelOfParent
  <2>2. active[Parent[c]] \in {1, -1} /\ (IsOr(Parent[c]) => active_child[Parent[c]] = c)
    BY <2>1 DEF OInv, InBelow
  <2> QED
    BY <1>1, <1>4, <2>1, <2>2
<1>6. CASE active[s] \in {1, -1}
  <2>1. fs = ExitCalls(s)
    BY <1>6
  <2> HIDE DEF fs, s
  <2>2. ExitsDown(s, fs)
    BY <1>2, <2>1, ExitFrames
  <2>3. /\ fs \in Seq(Frames) /\ Len(fs) \in DOMAIN fs
        /\ fs[Len(fs)].fn = "on__exit" /\ fs[Len(fs)].state = s
        /\ \A i \in DOMAIN fs : fs[i].fn \in {"exit_state", "on__exit"}
        /\ \A i \in DOMAIN fs : fs[i].fn = "on__exit" => i = Len(fs)
    BY <2>2 DEF ExitsDown
  <2>4. ASSUME NEW c \in States, IsChild(c, s), active'[c] # 0
        PROVE  \E j \in DOMAIN fs : j < Len(fs) /\ Exits(fs[j], c)
    <3>1. active[c] # 0 /\ c # Root /\ Parent[c] = s
      BY <1>4, <2>4 DEF IsChild
    <3>2. IsOr(s) => active_child[s] = c
      BY <3>1 DEF OInv, InBelow
    <3>3. \E j \in DOMAIN fs : j < Len(fs) /\ fs[j].fn = "exit_state" /\ fs[j].state = c
      BY <2>2, <2>4, <3>2 DEF ExitsDown
    <3> QED
      BY <3>3 DEF Exits
  <2>5. Exits(fs[Len(fs)], s)
    BY <2>3 DEF Exits
  <2>6. \A i \in DOMAIN fs : fs[i].fn = "on__exit" =>
          \A c \in States : IsChild(c, fs[i].state) /\ active'[c] # 0 =>
            \E j \in DOMAIN fs : j < i /\ Exits(fs[j], c)
    BY <2>3, <2>4
  <2> QED
    BY <1>1, <1>4, <1>5, <2>3, <2>5, <2>6, LeavingQuiet DEF s
<1>7. CASE active[s] = -2
  <2> DEFINE back == Frame("exited", s, 0)
             gs   == <<back>>
  <2>1. Becomes(gs)
    BY <1>1, <1>7
  <2>2. back \in Frames /\ back.fn = "exited" /\ back.state = s
    BY <1>2 DEF Frame, Frames
  <2> HIDE DEF s, back, fs
  <2>3. gs \in Seq(Frames) /\ DOMAIN gs = {1} /\ gs[1] = back
    BY <2>2
  <2> HIDE DEF gs
  <2>4. /\ \A i \in DOMAIN gs : gs[i].fn = "exited"
        /\ \E i \in DOMAIN gs : Exits(gs[i], s)
    BY <2>2, <2>3 DEF Exits
  <2> QED
    BY <1>1, <1>4, <1>5, <2>1, <2>3, <2>4, LeavingQuiet DEF s
<1>8. CASE active[s] \notin {1, -1, -2}
  <2>1. Becomes(<<>>) /\ active' = active
    BY <1>1, <1>3, <1>8
  <2> HIDE DEF s, fs
  <2>2. active'[s] = 0
    <3>1. active[s] \in -2..1
      BY <1>2
    <3> QED
      BY <1>8, <2>1, <3>1
  <2>3. <<>> \in Seq(Frames) /\ DOMAIN <<>> = {}
    OBVIOUS
  <2> QED
    BY <1>1, <1>4, <1>5, <2>1, <2>2, <2>3, LeavingQuiet DEF s
<1> QED
  BY <1>6, <1>7, <1>8

\* The exit action runs when every child is out.
LEMMA on__exitQuiet == ASSUME TreeAssumption, QuietActions, IInv, OInv, on__exit PROVE OInv'
<1> DEFINE s    == Top.state
           back == Frame("exited", s, 0)
           fs   == <<back>>
<1>1. /\ stack # <<>> /\ Top.fn = "on__exit" /\ active_child' = active_child
      /\ \/ active[s] = -1 /\ set_active_flag(s, -2) /\ UserAction(<<"ex", s>>, back)
         \/ active[s] # -1 /\ Becomes(fs) /\ UNCHANGED flags
  BY DEF on__exit, Running
<1>2. Top \in Frames /\ s \in States /\ active \in [States -> -2..1] /\ stack \in Seq(Frames)
  BY <1>1, TopIs DEF IInv, Typed
<1>3. Becomes(fs)
  <2>1. ASSUME UserAction(<<"ex", s>>, back) PROVE Becomes(fs)
    <3> DEFINE hook == <<"ex", s>>
    <3>1. Becomes(fs) \/ (hook \in DOMAIN Asking /\ \E cmd \in Asking[hook] : TRUE)
      BY <2>1 DEF UserAction
    <3> HIDE DEF hook, fs
    <3> QED
      BY <3>1 DEF QuietActions
  <2> QED
    BY <1>1, <2>1
<1>4. \/ active' = active
      \/ active[s] = -1 /\ active' = [active EXCEPT ![s] = -2]
  BY <1>1 DEF flags, set_active_flag
<1>5. back \in Frames /\ back.fn = "exited" /\ back.state = s
  BY <1>2 DEF Frame, Frames
<1> HIDE DEF s, back
<1>6. fs \in Seq(Frames) /\ DOMAIN fs = {1} /\ fs[1] = back
  BY <1>5
<1> HIDE DEF fs
<1>7. Moved(fs)
  BY <1>1, <1>3, <1>6, StackTyped
<1>8. ASSUME NEW c \in States, IsChild(c, s) PROVE active[c] = 0
  <2>1. 1 \in DOMAIN stack /\ stack[1] = Top /\ \A j \in DOMAIN stack : ~ (j < 1)
    BY <1>7 DEF Moved
  <2>2. stack[1].fn = "on__exit" /\ IsChild(c, stack[1].state)
    BY <1>1, <1>8, <2>1 DEF s
  <2> QED
    BY <2>1, <2>2 DEF OInv, AllLeave
<1>9. \A c \in States : active'[c] # 0 => active[c] # 0
  BY <1>2, <1>4
<1>10. InBelow'
  <2> SUFFICES ASSUME NEW c \in States \ {Root}, active'[c] # 0
               PROVE  /\ active'[Parent[c]] \in {1, -1}
                      /\ IsOr(Parent[c]) => active_child'[Parent[c]] = c
    BY DEF InBelow, IsOr
  <2>1. active[c] # 0 /\ Parent[c] \in States
    BY <1>9, LevelOfParent
  <2>2. active[Parent[c]] \in {1, -1} /\ (IsOr(Parent[c]) => active_child[Parent[c]] = c)
    BY <2>1 DEF OInv, InBelow
  <2>3. Parent[c] # s
    BY <1>8, <2>1 DEF IsChild
  <2>4. active'[Parent[c]] = active[Parent[c]]
    BY <1>2, <1>4, <2>1, <2>3
  <2> QED
    BY <1>1, <2>2, <2>4
<1>11. /\ \A i \in DOMAIN fs : fs[i].fn = "exited"
       /\ \E i \in DOMAIN fs : Exits(fs[i], s)
  BY <1>5, <1>6 DEF Exits
<1> QED
  BY <1>1, <1>3, <1>6, <1>9, <1>10, <1>11, LeavingQuiet DEF s

\* When exit_state of a child returns to a parent that is being left, it is out.
LEMMA ExitedQuiet == ASSUME TreeAssumption, IInv, NInv, OInv, Exited PROVE OInv'
<1> DEFINE s == Top.state
<1>1. /\ stack # <<>> /\ Top.fn = "exited" /\ Becomes(<<>>) /\ active_child' = active_child
      /\ IF active[s] = -2 /\ ParentLeaving(s) THEN set_active_flag(s, 0) ELSE UNCHANGED flags
  BY DEF Exited, Running
<1>2. s \in States /\ active \in [States -> -2..1] /\ 1 \in DOMAIN stack /\ stack[1] = Top
  BY <1>1, TopIs, LeastRank DEF NInv, IInv, Typed
<1>3. active[s] \in {0, -2}
  BY <1>1, <1>2 DEF NInv, ExitedLast
<1>4. \/ active' = active /\ (active[s] = -2 => ~ ParentLeaving(s))
      \/ active[s] = -2 /\ active' = [active EXCEPT ![s] = 0]
  <2>1. CASE active[s] = -2 /\ ParentLeaving(s)
    BY <1>1, <2>1 DEF set_active_flag
  <2>2. CASE ~ (active[s] = -2 /\ ParentLeaving(s))
    BY <1>1, <2>2 DEF flags
  <2> QED
    BY <2>1, <2>2
<1> HIDE DEF s
<1>5. \A c \in States : active'[c] # 0 => active[c] # 0
  BY <1>2, <1>4
<1>6. InBelow'
  <2> SUFFICES ASSUME NEW c \in States \ {Root}, active'[c] # 0
               PROVE  /\ active'[Parent[c]] \in {1, -1}
                      /\ IsOr(Parent[c]) => active_child'[Parent[c]] = c
    BY DEF InBelow, IsOr
  <2>1. active[c] # 0 /\ Parent[c] \in States
    BY <1>5, LevelOfParent
  <2>2. active[Parent[c]] \in {1, -1} /\ (IsOr(Parent[c]) => active_child[Parent[c]] = c)
    BY <2>1 DEF OInv, InBelow
  <2>3. Parent[c] # s
    BY <1>3, <2>2
  <2>4. active'[Parent[c]] = active[Parent[c]]
    BY <1>2, <1>4, <2>1, <2>3
  <2> QED
    BY <1>1, <2>2, <2>4
<1>7. ASSUME NEW k \in DOMAIN stack, stack[k].fn = "on__exit", IsChild(s, stack[k].state)
      PROVE  active'[s] = 0
  <2>1. s # Root /\ Parent[s] = stack[k].state /\ Parent[s] \in States
    BY <1>2, <1>7, LevelOfParent DEF IsChild
  <2>2. active[Parent[s]] # 1
    BY <1>7, <2>1 DEF IInv, ExitsOnce
  <2>3. active[s] = -2 => active[Parent[s]] = -1
    BY <1>2, <2>1, <2>2 DEF OInv, InBelow
  <2>4. active[s] = -2 => ParentLeaving(s)
    BY <2>1, <2>3 DEF ParentLeaving
  <2> QED
    BY <1>2, <1>3, <1>4, <2>4
<1>8. <<>> \in Seq(Frames) /\ DOMAIN <<>> = {}
  OBVIOUS
<1> QED
  BY <1>1, <1>5, <1>6, <1>7, <1>8, LeavingQuiet DEF s

\* enter_stable_state finds the states that are half left, and no other calls.
LEMMA enter_stable_stateQuiet ==
    ASSUME TreeAssumption, IInv, NInv, OInv, enter_stable_state PROVE OInv'
<1> DEFINE due  == ~ Stable /\ level = 0
           next == Frame(Top.kept, Root, 0)
           down == Frame("enter_target_state", Root, 0)
<1>1. /\ stack # <<>> /\ Top.fn = "enter_stable_state" /\ active_child' = active_child
      /\ Becomes(IF due THEN <<down, next>> ELSE <<next>>)
      /\ active' = [s \in States |-> IF due /\ active[s] = -2 /\ s \in Visited THEN 0 ELSE active[s]]
  BY DEF enter_stable_state, Running
<1>2. Rank(Top.fn) # 0 /\ Top.fn \in Entering
  BY <1>1, Ranks DEF Entering
<1>3. DOMAIN stack = {1} /\ stack[1] = Top /\ active \in [States -> -2..1]
  <2>1. 1 \in DOMAIN stack /\ stack[1] = Top
    BY <1>1, LeastRank DEF NInv
  <2> QED
    BY <1>1, <2>1 DEF NInv, EntersTargets, IInv, Typed
<1>4. \A s \in States : active[s] # -1
  BY <1>1, <1>3 DEF IInv, ExitsOnce
<1>5. \A s \in States : active[s] # 0 => s \in Visited
  <2> DEFINE T == {s \in States : active[s] # 0 => s \in Visited}
  <2>1. ASSUME NEW s \in States, s = Root \/ Parent[s] \in T PROVE s \in T
    <3>1. CASE s = Root
      <4>1. Above[s] = {}
        BY <3>1 DEF TreeAssumption
      <4> QED
        BY <3>1, <4>1 DEF Visited
    <3>2. CASE s # Root
      <4> DEFINE p == Parent[s]
      <4>1. p \in States /\ Above[s] = Above[p] \cup {p} /\ (active[p] # 0 => p \in Visited)
        BY <2>1, <3>2, LevelOfParent
      <4>2. active[s] # 0 => active[p] = 1 /\ (IsOr(p) => active_child[p] = s)
        BY <1>4, <3>2, <4>1 DEF OInv, InBelow
      <4>3. active[s] # 0 => \A u \in Above[p] \cup {p} : u # Root =>
              /\ active[Parent[u]] = 1
              /\ IsOr(Parent[u]) => active_child[Parent[u]] = u
        BY <4>1, <4>2 DEF Visited
      <4> QED
        BY <4>1, <4>2, <4>3 DEF Visited
    <3> QED
      BY <3>1, <3>2
  <2> HIDE DEF T
  <2>2. States \subseteq T
    BY <2>1, FromTheRoot
  <2> QED
    BY <2>2 DEF T
<1>6. due => \A s \in States : active'[s] \in {0, 1}
  <2> SUFFICES ASSUME due, NEW s \in States PROVE active'[s] \in {0, 1}
    OBVIOUS
  <2>1. active[s] \in -2..1
    BY <1>3
  <2>2. active[s] \in {-2, 0, 1}
    BY <1>4, <2>1
  <2>3. active'[s] = IF active[s] = -2 /\ s \in Visited THEN 0 ELSE active[s]
    BY <1>1
  <2> QED
    BY <1>5, <2>2, <2>3
<1>7. InBelow'
  <2> SUFFICES ASSUME NEW c \in States \ {Root}, active'[c] # 0
               PROVE  /\ active'[Parent[c]] \in {1, -1}
                      /\ IsOr(Parent[c]) => active_child'[Parent[c]] = c
    BY DEF InBelow, IsOr
  <2> HIDE DEF due
  <2>1. active[c] # 0 /\ Parent[c] \in States
    BY <1>1, LevelOfParent
  <2>2. active[Parent[c]] \in {1, -1} /\ (IsOr(Parent[c]) => active_child[Parent[c]] = c)
    BY <2>1 DEF OInv, InBelow
  <2> QED
    BY <1>1, <2>1, <2>2
<1>8. Top.kept \in {"settled", "_complete_transition"} /\ Root \in States
  BY <1>1, TopIs, FramesFields DEF TreeAssumption
<1>9. /\ next \in Frames /\ next.fn \in {"settled", "_complete_transition"}
      /\ down \in Frames /\ down.fn = "enter_target_state"
  BY <1>8 DEF Frame, Frames
<1>10. CASE due
  <2> DEFINE fs == <<down, next>>
  <2>1. Becomes(fs)
    BY <1>1, <1>10
  <2>2. \A s \in States : active'[s] \in {0, 1}
    BY <1>6, <1>10
  <2> HIDE DEF due, next, down
  <2>3. fs \in Seq(Frames) /\ DOMAIN fs = {1, 2} /\ fs[1] = down /\ fs[2] = next
    BY <1>9
  <2> HIDE DEF fs
  <2>4. Moved(fs)
    BY <1>1, <2>1, <2>3, StackTyped
  <2>5. \A i \in DOMAIN fs : fs[i].fn \in Entering /\ fs[i].fn # "on__exit"
    BY <1>9, <2>3 DEF Entering
  <2>6. AllLeave'
    BY <1>1, <1>2, <2>4, <2>5, NoneLeaves DEF NInv
  <2>7. \A i \in DOMAIN stack' : stack'[i].fn \in Entering
    BY <1>3, <2>4, <2>5 DEF Moved
  <2> QED
    BY <1>7, <2>2, <2>6, <2>7 DEF OInv, NoneHalf, Entering
<1>11. CASE ~ due
  <2> DEFINE fs == <<next>>
  <2>1. Becomes(fs)
    BY <1>1, <1>11
  <2> HIDE DEF due, next, down
  <2>2. fs \in Seq(Frames) /\ DOMAIN fs = {1} /\ fs[1] = next
    BY <1>9
  <2> HIDE DEF fs
  <2>3. Moved(fs)
    BY <1>1, <2>1, <2>2, StackTyped
  <2>4. \A i \in DOMAIN fs : fs[i].fn \notin Descending /\ fs[i].fn # "on__exit"
    BY <1>9, <2>2 DEF Descending
  <2>5. AllLeave'
    BY <1>1, <1>2, <2>3, <2>4, NoneLeaves DEF NInv
  <2>6. \A i \in DOMAIN stack' : stack'[i].fn \notin Descending
    BY <1>3, <2>3, <2>4 DEF Moved
  <2> QED
    BY <1>7, <2>5, <2>6 DEF OInv, NoneHalf, Descending
<1> QED
  BY <1>10, <1>11

\* A state is entered below its parent, where an OR parent points.
LEMMA enter_target_stateQuiet ==
    ASSUME TreeAssumption, QuietActions, IInv, NInv, OInv, enter_target_state PROVE OInv'
<1> DEFINE s    == Top.state
           next == Frame("entered", s, level)
           hook == <<"en", s>>
           fs   == <<next>>
<1>1. /\ stack # <<>> /\ Top.fn = "enter_target_state" /\ active_child' = active_child
      /\ \/ active[s] = 1 /\ active' = active
         \/ active' = [active EXCEPT ![s] = 1]
      /\ Becomes(fs) \/ UserAction(hook, next)
  BY DEF enter_target_state, Running, flags, set_active_flag
<1>2. s \in States /\ active \in [States -> -2..1] /\ level \in Int /\ 1 \in DOMAIN stack /\ stack[1] = Top
  BY <1>1, TopIs, LeastRank DEF NInv, IInv, Typed
<1>3. Becomes(fs)
  <2>1. ASSUME UserAction(hook, next) PROVE Becomes(fs)
    <3>1. Becomes(fs) \/ (hook \in DOMAIN Asking /\ \E cmd \in Asking[hook] : TRUE)
      BY <2>1 DEF UserAction
    <3> HIDE DEF hook, fs
    <3> QED
      BY <3>1 DEF QuietActions
  <2> QED
    BY <1>1, <2>1
<1>4. next \in Frames /\ next.fn = "entered"
  BY <1>2 DEF Frame, Frames
<1>5. s # Root => active[Parent[s]] = 1 /\ (IsOr(Parent[s]) => active_child[Parent[s]] = s)
  BY <1>1, <1>2 DEF IInv, EntersInside
<1> HIDE DEF s, next, hook
<1>6. \A c \in States : active'[c] = IF c = s THEN 1 ELSE active[c]
  BY <1>1, <1>2
<1>7. fs \in Seq(Frames) /\ DOMAIN fs = {1} /\ fs[1] = next
  BY <1>4
<1> HIDE DEF fs
<1>8. Moved(fs)
  BY <1>1, <1>3, <1>7, StackTyped
<1>9. InBelow'
  <2> SUFFICES ASSUME NEW c \in States \ {Root}, active'[c] # 0
               PROVE  /\ active'[Parent[c]] \in {1, -1}
                      /\ IsOr(Parent[c]) => active_child'[Parent[c]] = c
    BY DEF InBelow, IsOr
  <2>1. active[Parent[c]] \in {1, -1} /\ (IsOr(Parent[c]) => active_child[Parent[c]] = c)
    BY <1>5, <1>6 DEF OInv, InBelow
  <2>2. Parent[c] \in States
    BY LevelOfParent
  <2> QED
    BY <1>1, <1>6, <2>1, <2>2
<1>10. Rank(Top.fn) # 0 /\ Top.fn \in Descending
  BY <1>1, Ranks DEF Descending
<1>11. \A i \in DOMAIN fs : fs[i].fn \in Entering /\ fs[i].fn # "on__exit"
  BY <1>4, <1>7 DEF Entering
<1>12. AllLeave'
  BY <1>1, <1>8, <1>10, <1>11, NoneLeaves DEF NInv
<1>13. \A c \in States : active'[c] \in {0, 1}
  BY <1>2, <1>6, <1>10 DEF OInv, NoneHalf
<1>14. NoneHalf'
  BY <1>8, <1>10, <1>11, <1>13, NoneHalfKept DEF OInv
<1> QED
  BY <1>9, <1>12, <1>14 DEF OInv

\* The child that an OR state goes down to is the one that is in, if there is one:
\* what is in is aimed at.
LEMMA EnteredQuiet == ASSUME TreeAssumption, IInv, NInv, OInv, Entered PROVE OInv'
<1> DEFINE s     == Top.state
           inner == IF target_child[s] # NoState THEN target_child[s] ELSE DefaultChild(s)
           down  == Frame("enter_target_state", inner, 0)
           first == Frame("region", s, 1)
<1>1. /\ stack # <<>> /\ Top.fn = "entered" /\ active' = active
      /\ \/ /\ active[s] = 1 /\ IsOr(s) /\ Becomes(<<down>>)
            /\ active_child' = [active_child EXCEPT ![s] = inner]
         \/ /\ Becomes(<<>>) \/ (IsAnd(s) /\ Becomes(<<first>>))
            /\ active_child' = active_child
  BY DEF Entered, Running, flags
<1>2. /\ s \in States /\ Typed /\ NoState \notin States /\ 1 \in DOMAIN stack /\ stack[1] = Top
  BY <1>1, TopIs, LeastRank DEF NInv, IInv, TreeAssumption
<1>3. Rank(Top.fn) # 0 /\ Top.fn \in Descending
  BY <1>1, Ranks DEF Descending
<1>4. \A c \in States : active[c] \in {0, 1}
  BY <1>2, <1>3 DEF OInv, NoneHalf
<1>5. CASE active[s] = 1 /\ IsOr(s) /\ Becomes(<<down>>)
           /\ active_child' = [active_child EXCEPT ![s] = inner]
  <2> DEFINE fs == <<down>>
  <2>1. IsChild(inner, s)
    <3> HIDE DEF s
    <3> QED
      BY <1>2, <1>5, DefaultIsChild DEF Typed
  <2>2. down \in Frames /\ down.fn = "enter_target_state"
    <3> HIDE DEF inner
    <3> QED
      BY <2>1 DEF Frame, Frames, IsChild
  <2>3. Becomes(fs)
    BY <1>5
  <2>4. ASSUME NEW c \in States, IsChild(c, s), active[c] # 0 PROVE c = inner
    <3>1. c \in Inside
      BY <1>4, <2>4 DEF Inside
    <3>2. c \in target
      BY <1>1, <1>3, <3>1, NothingLeft DEF NInv
    <3>3. target_child[s] = c
      BY <1>5, <2>4, <3>2 DEF IInv, Path, IsChild
    <3> QED
      BY <1>2, <3>3
  <2> HIDE DEF s, down, inner
  <2>5. fs \in Seq(Frames) /\ DOMAIN fs = {1} /\ fs[1] = down
    BY <2>2
  <2> HIDE DEF fs
  <2>6. Moved(fs)
    BY <1>1, <2>3, <2>5, StackTyped
  <2>7. \A i \in DOMAIN fs : fs[i].fn \in Entering /\ fs[i].fn # "on__exit"
    BY <2>2, <2>5 DEF Entering
  <2>8. AllLeave'
    BY <1>1, <1>3, <2>6, <2>7, NoneLeaves DEF NInv
  <2>9. NoneHalf'
    BY <1>1, <1>3, <1>4, <2>6, <2>7, NoneHalfKept DEF OInv
  <2>10. InBelow'
    <3> SUFFICES ASSUME NEW c \in States \ {Root}, active'[c] # 0
                 PROVE  /\ active'[Parent[c]] \in {1, -1}
                        /\ IsOr(Parent[c]) => active_child'[Parent[c]] = c
      BY DEF InBelow, IsOr
    <3>1. active[Parent[c]] \in {1, -1} /\ (IsOr(Parent[c]) => active_child[Parent[c]] = c)
      BY <1>1 DEF OInv, InBelow
    <3>2. Parent[c] \in States
      BY LevelOfParent
    <3>3. CASE Parent[c] = s
      <4>1. c = inner
        BY <1>1, <2>4, <3>3 DEF IsChild
      <4>2. active_child'[s] = inner
        BY <1>2, <1>5 DEF Typed
      <4> QED
        BY <1>1, <3>1, <3>3, <4>1, <4>2
    <3>4. CASE Parent[c] # s
      BY <1>1, <1>2, <1>5, <3>1, <3>2, <3>4 DEF Typed
    <3> QED
      BY <3>3, <3>4
  <2> QED
    BY <2>8, <2>9, <2>10 DEF OInv
<1>6. CASE (Becomes(<<>>) \/ (IsAnd(s) /\ Becomes(<<first>>))) /\ active_child' = active_child
  <2>1. IsAnd(s) => first \in Frames /\ first.fn = "region"
    BY <1>2 DEF Frame, Frames
  <2> HIDE DEF s, first, inner, down
  <2>2. CASE Becomes(<<>>)
    <3>1. <<>> \in Seq(Frames) /\ DOMAIN <<>> = {}
      OBVIOUS
    <3> QED
      BY <1>1, <1>3, <1>6, <2>2, <3>1, QuietSame
  <2>3. CASE IsAnd(s) /\ Becomes(<<first>>)
    <3> DEFINE fs == <<first>>
    <3>1. fs \in Seq(Frames) /\ DOMAIN fs = {1} /\ fs[1] = first /\ Becomes(fs)
      BY <2>1, <2>3
    <3> HIDE DEF fs
    <3>2. \A i \in DOMAIN fs : fs[i].fn # "on__exit" /\ fs[i].fn \in Entering
      BY <2>1, <2>3, <3>1 DEF Entering
    <3> QED
      BY <1>1, <1>3, <1>6, <3>1, <3>2, QuietSame
  <2> QED
    BY <1>6, <2>2, <2>3
<1> QED
  BY <1>1, <1>5, <1>6

\* The next region is entered, or all are.
LEMMA RegionQuiet == ASSUME TreeAssumption, IInv, NInv, OInv, Region PROVE OInv'
<1> DEFINE s    == Top.state
           i    == Top.kept
           c    == Kids[s][i]
           down == Frame("enter_target_state", c, 0)
           more == Frame("region", s, i + 1)
<1>1. /\ stack # <<>> /\ Top.fn = "region" /\ UNCHANGED <<active, active_child>>
      /\ (i <= Len(Kids[s]) /\ Becomes(<<down, more>>)) \/ Becomes(<<>>)
  BY DEF Region, Running, flags
<1>2. s \in States /\ IsAnd(s) /\ i \in Nat \ {0} /\ Kids[s] \in Seq(States)
  <2>1. Top \in Frames /\ s \in States
    BY <1>1, TopIs
  <2>2. IsAnd(s) /\ i \in Nat \ {0}
    BY <1>1, <2>1, FramesFields
  <2> QED
    BY <1>1, <2>1, <2>2 DEF TreeAssumption
<1>3. Rank(Top.fn) # 0 /\ Top.fn \in Descending
  BY <1>1, Ranks DEF Descending
<1> HIDE DEF s, i
<1>4. CASE Becomes(<<>>)
  <2>1. <<>> \in Seq(Frames) /\ DOMAIN <<>> = {}
    OBVIOUS
  <2> QED
    BY <1>1, <1>3, <1>4, <2>1, QuietSame
<1>5. CASE i <= Len(Kids[s]) /\ Becomes(<<down, more>>)
  <2> DEFINE fs == <<down, more>>
  <2>1. c \in States /\ i + 1 \in Nat \ {0}
    BY <1>2, <1>5
  <2> HIDE DEF c
  <2>2. down \in Frames /\ down.fn = "enter_target_state" /\ more \in Frames /\ more.fn = "region"
    BY <1>2, <2>1 DEF Frame, Frames
  <2>3. Becomes(fs)
    BY <1>5
  <2> HIDE DEF down, more
  <2>4. fs \in Seq(Frames) /\ DOMAIN fs = {1, 2} /\ fs[1] = down /\ fs[2] = more
    BY <2>2
  <2> HIDE DEF fs
  <2>5. \A n \in DOMAIN fs : fs[n].fn # "on__exit" /\ fs[n].fn \in Entering
    BY <2>2, <2>4 DEF Entering
  <2> QED
    BY <1>1, <1>3, <2>3, <2>4, <2>5, QuietSame
<1> QED
  BY <1>1, <1>4, <1>5

\* A machine at rest that is called, or started anew.
LEMMA CalledQuiet ==
    ASSUME TreeAssumption, WalkAssumption, CallsAssumption, IInv, OInv,
           Call \/ EnterNow \/ SetHistory \/ Continue \/ Respawn
    PROVE  OInv'
<1>1. \A i \in DOMAIN stack' :
        stack'[i].fn \in {"transit", "terminate", "enter_stable_state", "history_child_"}
  <2>1. CASE Respawn
    <3>1. stack' = _start_copy(save_machine_state)
      BY <2>1 DEF Respawn, Asks
    <3>2. \A i \in DOMAIN stack' : stack'[i].fn \in {"transit", "history_child_"}
      BY <3>1, StartsCopy DEF IInv
    <3> QED
      BY <3>2
  <2>2. CASE Call
    <3>1. PICK cmd \in Calls : stack' = <<Command(cmd)>>
      BY <2>2 DEF Call, Asks
    <3>2. cmd \in Commands
      BY <3>1 DEF CallsAssumption
    <3> DEFINE f == Command(cmd)
    <3>3. f.fn \in {"transit", "terminate"} /\ stack' = <<f>>
      BY <3>1, <3>2, CommandFrame
    <3> HIDE DEF f
    <3> QED
      BY <3>3
  <2>3. CASE EnterNow \/ SetHistory \/ Continue
    <3>1. \E f : stack' = <<f>> /\ f.fn \in {"enter_stable_state", "history_child_"}
      BY <2>3 DEF EnterNow, SetHistory, Continue, Asks, Frame
    <3> QED
      BY <3>1
  <2> QED
    BY <2>1, <2>2, <2>3
<1>2. AllLeave' /\ NoneHalf'
  BY <1>1 DEF AllLeave, NoneHalf, Descending
<1>3. InBelow'
  <2>1. CASE Respawn
    <3>1. \A c \in States : active'[c] = 0
      BY <2>1 DEF Respawn
    <3> QED
      BY <3>1 DEF InBelow
  <2>2. CASE Call \/ EnterNow \/ SetHistory \/ Continue
    <3>1. UNCHANGED <<active, active_child>>
      BY <2>2 DEF Call, EnterNow, SetHistory, Continue, flags
    <3> QED
      BY <3>1 DEF OInv, InBelow
  <2> QED
    BY <2>1, <2>2
<1> QED
  BY <1>2, <1>3 DEF OInv

\* A new machine: every state is out.
LEMMA InitOInv == ASSUME Init PROVE OInv
<1>1. DOMAIN stack = {} /\ \A s \in States : active[s] = 0
  BY DEF Init
<1> QED
  BY <1>1 DEF OInv, InBelow, AllLeave, NoneHalf

\* Every step of a machine whose actions ask for nothing.
LEMMA NextOInv ==
    ASSUME TreeAssumption, CallsAssumption, WalkAssumption, QuietActions, IInv, NInv, OInv, [Next]_vars
    PROVE  OInv'
<1>1. CASE Call \/ EnterNow \/ SetHistory \/ Continue \/ Respawn
  BY <1>1, CalledQuiet
<1>2. CASE Transit \/ Terminate \/ prepare_target_path
  BY <1>2, AimingQuiet
<1>3. CASE Transited \/ Terminated \/ settled \/ _complete_transition
  BY <1>3, ReturnsQuiet
<1>4. CASE history_child_
  BY <1>4, HistoryQuiet
<1>5. CASE exit_state \/ on__exit \/ Exited
  BY <1>5, exit_stateQuiet, on__exitQuiet, ExitedQuiet
<1>6. CASE enter_stable_state \/ enter_target_state \/ Entered \/ Region
  BY <1>6, enter_stable_stateQuiet, enter_target_stateQuiet, EnteredQuiet, RegionQuiet
<1>7. CASE Abort \/ UNCHANGED vars
  <2>1. UNCHANGED <<active, active_child, stack>>
    BY <1>7 DEF Abort, vars, flags
  <2> QED
    BY <2>1 DEF OInv, InBelow, AllLeave, NoneHalf, Exits
<1> QED
  BY <1>1, <1>2, <1>3, <1>4, <1>5, <1>6, <1>7 DEF Next, Step

-------------------------------------------------------------------------------
(* No assertion fails.                                                         *)

\* Every step of a machine whose users are careful keeps the invariant, and fails not.
LEMMA NextNInv ==
    ASSUME TreeAssumption, CallsAssumption, WalkAssumption, Careful, IInv, NInv,
           QuietActions => OInv, [Next]_vars
    PROVE  NInv' /\ failed' = failed
<1>1. CASE Call \/ EnterNow \/ SetHistory \/ Continue
  <2>1. NInv'
    BY <1>1, CallCareful
  <2> QED
    BY <1>1, <2>1 DEF Call, EnterNow, SetHistory, Continue
<1>2. CASE Respawn
  <2>1. NInv'
    BY <1>2, RespawnCareful
  <2> QED
    BY <1>2, <2>1 DEF Respawn
<1>3. CASE Transit \/ Terminate \/ prepare_target_path
  <2>1. NInv'
    BY <1>3, TransitCareful, TerminateCareful, prepare_target_pathCareful
  <2> QED
    BY <1>3, <2>1 DEF Transit, Terminate, prepare_target_path
<1>4. CASE Transited \/ Terminated \/ settled \/ _complete_transition \/ history_child_
  <2>1. NInv'
    BY <1>4, ReturnCareful
  <2> QED
    BY <1>4, <2>1 DEF Transited, Terminated, settled, _complete_transition, history_child_
<1>5. CASE exit_state \/ on__exit \/ Exited
  <2>1. NInv'
    BY <1>5, exit_stateCareful, on__exitCareful, ExitedCareful
  <2> QED
    BY <1>5, <2>1 DEF exit_state, on__exit, Exited
<1>6. CASE enter_stable_state \/ enter_target_state \/ Entered \/ Region
  <2>1. NInv'
    BY <1>6, enter_stable_stateCareful, enter_target_stateCareful, EnteredCareful, RegionCareful
  <2> QED
    BY <1>6, <2>1 DEF enter_stable_state, enter_target_state, Entered, Region
<1>7. CASE Abort
  <2>1. stack # <<>> /\ ~ Asserts
    BY <1>7 DEF Abort
  <2>2. HistoryCalls = {} \/ InBelow
    BY DEF Careful, OInv
  <2> QED
    BY <2>1, <2>2, AssertsHold
<1>8. CASE UNCHANGED vars
  <2>1. NInv'
    BY <1>8, SameNInv
  <2> QED
    BY <1>8, <2>1 DEF vars
<1> QED
  BY <1>1, <1>2, <1>3, <1>4, <1>5, <1>6, <1>7, <1>8 DEF Next, Step

(* No legal sequence of calls makes an assertion of the machine fail, and none   *)
(* runs off the tree, as long as its users are Careful (coe-hsm--exec.cpp, the   *)
(* assert()s of transit, terminate and what they call; coe-hsm.cpp:251).         *)
THEOREM CarefulNeverFails == ASSUME Careful PROVE Spec => []NoFailure
<1> DEFINE Inv == IInv /\ NInv /\ (QuietActions => OInv) /\ NoFailure
<1>1. Init => Inv
  BY InitIInv, InitNInv, InitOInv, TreeAssumption, CallsAssumption DEF Init, NoFailure
<1>2. Inv /\ [Next]_vars => Inv'
  <2> SUFFICES ASSUME Inv, [Next]_vars PROVE Inv'
    OBVIOUS
  <2>1. IInv'
    BY NextIInv, TreeAssumption, CallsAssumption, WalkAssumption
  <2>2. NInv' /\ failed' = failed
    BY NextNInv, TreeAssumption, CallsAssumption, WalkAssumption
  <2>3. QuietActions => OInv'
    BY NextOInv, TreeAssumption, CallsAssumption, WalkAssumption
  <2>4. QuietActions' = QuietActions
    BY DEF QuietActions
  <2> QED
    BY <2>1, <2>2, <2>3, <2>4 DEF NoFailure
<1>3. Inv => NoFailure
  OBVIOUS
<1> QED
  BY <1>1, <1>2, <1>3, PTL DEF Spec
===============================================================================
