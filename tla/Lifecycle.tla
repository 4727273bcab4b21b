------------------------------ MODULE Lifecycle ------------------------------
(***************************************************************************)
(* What a kernel promises about its sessions.  They form a tree; stopping  *)
(* one stops everything below it at once; a stopped session gets no new    *)
(* message; and it is deleted, together with everything below it, once     *)
(* every message accepted for it has been consumed.                        *)
(***************************************************************************)
EXTENDS Integers

CONSTANTS Root,       \* the session of the kernel itself, never stopped
          Children,   \* the other sessions
          None,       \* no session
          MaxOwed     \* bound on the messages a session waits for

(* What is assumed of the constants; the theorems name it.                  *)
LifecycleAssumption ==
    /\ Root \notin Children
    /\ None \notin Children \cup {Root}
    /\ MaxOwed \in Nat

Nodes == {Root} \cup Children

VARIABLES status,   \* "new", "live", "stopped" or "gone"
          above,    \* the parent of each session
          owed      \* the messages accepted for a session and not yet consumed

vars == <<status, above, owed>>

Init ==
    /\ status = [s \in Nodes |-> IF s = Root THEN "live" ELSE "new"]
    /\ above = [s \in Nodes |-> None]
    /\ owed = [s \in Nodes |-> 0]

(* A set of sessions that contains the children of all its members.         *)
Closed(D) == \A c \in Nodes : above[c] \in D => c \in D

(* The session and everything below it: what every closed set with the      *)
(* session in it contains.                                                  *)
Below(s) == {n \in Nodes : \A D \in SUBSET Nodes : s \in D /\ Closed(D) => n \in D}

MayHaveChildren(p) == status[p] = "live"

Start(s, p) ==
    /\ status[s] = "new" /\ MayHaveChildren(p)
    /\ status' = [status EXCEPT ![s] = "live"]
    /\ above' = [above EXCEPT ![s] = p]
    /\ UNCHANGED owed

(* A session that cannot be started is deleted.                             *)
Refuse(s) ==
    /\ status[s] = "new"
    /\ status' = [status EXCEPT ![s] = "gone"]
    /\ UNCHANGED <<above, owed>>

Stop(r) ==
    /\ status[r] = "live"
    /\ status' = [s \in Nodes |-> IF s \in Below(r) /\ status[s] = "live" THEN "stopped"
                                                                          ELSE status[s]]
    /\ UNCHANGED <<above, owed>>

(* Posted to a live session, or yielded by one that is stopped already.     *)
Accept(s) ==
    /\ status[s] \in {"live", "stopped"} /\ owed[s] < MaxOwed
    /\ owed' = [owed EXCEPT ![s] = @ + 1]
    /\ UNCHANGED <<status, above>>

Consumable(s) == owed[s] > 0

(* Handled by a live session, or dropped.                                   *)
Consume(s) ==
    /\ Consumable(s)
    /\ owed' = [owed EXCEPT ![s] = @ - 1]
    /\ UNCHANGED <<status, above>>

(* The promise that the code keeps with the place of the delete event in    *)
(* the queue: nothing is left for the session or for one below it.          *)
Settled(r) == \A s \in Below(r) : status[s] = "stopped" /\ owed[s] = 0

Delete(r) ==
    /\ Settled(r)
    /\ status' = [s \in Nodes |-> IF s \in Below(r) THEN "gone" ELSE status[s]]
    /\ above' = [s \in Nodes |-> IF s \in Below(r) THEN None ELSE above[s]]
    /\ UNCHANGED owed

Next ==
    \/ \E s \in Children, p \in Nodes : Start(s, p)
    \/ \E s \in Children : Refuse(s) \/ Stop(s) \/ Delete(s)
    \/ \E s \in Nodes : Accept(s) \/ Consume(s)

Fairness == \A s \in Nodes : WF_vars(Consume(s)) /\ WF_vars(Delete(s))

Spec == Init /\ [][Next]_vars /\ Fairness
-----------------------------------------------------------------------------
Present == {s \in Nodes : status[s] \in {"live", "stopped"}}

(* Every variable has a value of its kind; a session has a parent exactly   *)
(* while it is in the tree (r4Session::_parent, local.stopper).             *)
TypeOK ==
    /\ status \in [Nodes -> {"new", "live", "stopped", "gone"}]
    /\ above \in [Nodes -> Nodes \cup {None}]
    /\ owed \in [Nodes -> 0..MaxOwed]
    /\ status[Root] = "live" /\ above[Root] = None
    /\ \A s \in Children : above[s] # None <=> s \in Present

(* The parent of a session in the tree is in the tree, and is live if the   *)
(* session is: a stop or a deletion leaves no session behind (destroy,      *)
(* _set_stopper, and the refusal of start_session).                         *)
ParentsStay ==
    \A s \in Children \cap Present :
        above[s] \in Present /\ (status[s] = "live" => status[above[s]] = "live")

(* All sessions in the tree hang from the kernel's own: there are neither   *)
(* orphans nor rings (start_session, destroy).                              *)
Connected == Present \subseteq Below(Root)

=============================================================================
