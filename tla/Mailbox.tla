------------------------------ MODULE Mailbox ------------------------------
(***************************************************************************)
(* What a coexx thread promises to those who post messages to it: two      *)
(* first-in first-out lanes, a local one that only handlers running on the *)
(* thread fill and that is served first, and a shared one that any thread  *)
(* fills.  A message is handed to its handler exactly once, in the order   *)
(* of its lane, and no message is left in a lane for ever.                 *)
(*                                                                         *)
(* EventLoop implements this specification: the shared lane is spread over *)
(* two queues there, the one guarded by a mutex and the thread's own.      *)
(***************************************************************************)
EXTENDS Sequences

CONSTANT Msgs        \* the messages; each one is posted at most once

VARIABLES local,     \* posted by a handler to its own kernel
          shared,    \* posted from anywhere else
          posted     \* the messages posted so far

vars == <<local, shared, posted>>

TypeOK ==
    /\ local \in Seq(Msgs)
    /\ shared \in Seq(Msgs)
    /\ posted \in SUBSET Msgs

Init ==
    /\ local = <<>>
    /\ shared = <<>>
    /\ posted = {}

PostLocal(m) ==
    /\ m \notin posted
    /\ posted' = posted \cup {m}
    /\ local' = Append(local, m)
    /\ UNCHANGED shared

PostShared(m) ==
    /\ m \notin posted
    /\ posted' = posted \cup {m}
    /\ shared' = Append(shared, m)
    /\ UNCHANGED local

TakeLocal ==
    /\ local # <<>>
    /\ local' = Tail(local)
    /\ UNCHANGED <<shared, posted>>

TakeShared ==
    /\ local = <<>>
    /\ shared # <<>>
    /\ shared' = Tail(shared)
    /\ UNCHANGED <<local, posted>>

Take == TakeLocal \/ TakeShared

Next == Take \/ \E m \in Msgs : PostLocal(m) \/ PostShared(m)

Spec == Init /\ [][Next]_vars /\ WF_vars(Take)
=============================================================================
