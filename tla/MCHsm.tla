-------------------------------- MODULE MCHsm --------------------------------
(* An OR state with shallow history beside an AND state, one region of which   *)
(* has deep history.                                                           *)
EXTENDS Hsm

CONSTANTS R, A, A1, A2, B, E, E1, E2, F, F1, F2, G, H

TheStates == {R, A, A1, A2, B, E, E1, E2, F, F1, F2, G, H}
TheKids ==
    (R :> <<A, B>>) @@ (A :> <<A1, A2>>) @@ (B :> <<E, F>>) @@
    (E :> <<E1, E2>>) @@ (F :> <<F1, F2>>) @@ (F2 :> <<G, H>>) @@
    [s \in TheStates |-> <<>>]
TheParent ==
    (A :> R) @@ (B :> R) @@ (A1 :> A) @@ (A2 :> A) @@ (E :> B) @@ (F :> B) @@
    (E1 :> E) @@ (E2 :> E) @@ (F1 :> F) @@ (F2 :> F) @@ (G :> F2) @@ (H :> F2)
TheAbove ==
    (R :> {}) @@ (A :> {R}) @@ (B :> {R}) @@ (A1 :> {R, A}) @@ (A2 :> {R, A}) @@
    (E :> {R, B}) @@ (F :> {R, B}) @@ (E1 :> {R, B, E}) @@ (E2 :> {R, B, E}) @@
    (F1 :> {R, B, F}) @@ (F2 :> {R, B, F}) @@ (G :> {R, B, F, F2}) @@ (H :> {R, B, F, F2})
TheType ==
    (B :> "and") @@ (R :> "or") @@ (A :> "or") @@ (E :> "or") @@ (F :> "or") @@
    (F2 :> "or") @@ [s \in TheStates |-> "basic"]
TheOrder == <<R, A, A1, A2, B, E, E1, E2, F, F1, F2, G, H>>
TheHistory == (A :> SHALLOW) @@ (F :> DEEP) @@ [s \in TheStates |-> NONE]

transit(to)        == [op |-> "transit", to |-> to, ex |-> NoState]
transit_ex(to, ex) == [op |-> "transit", to |-> to, ex |-> ex]
terminate          == [op |-> "terminate", to |-> Root, ex |-> NoState]

SomeTransits == {transit(s) : s \in {A2, B, E}} \cup {terminate}
Histories    == {<<F, NoState>>, <<F2, H>>}

NoHistories == {}

\* In on__entry and on__exit: transitions from an entry action into the other
\* region, out of the AND state, or to the end; from an exit action, elsewhere.
AskingBoth ==
    (<<"en", E>>  :> {transit(F2), transit(A1), terminate}) @@
    (<<"ex", A1>> :> {transit(E2)})
\* An exit action of the AND state's region that asks for a transition.
AskExit == <<"ex", E1>> :> {transit(A1)}
ExTransits == SomeTransits \cup {transit_ex(B, E1)}
NoOne == [h \in {} |-> {}]
==============================================================================
