---------------------------- MODULE PushCoalescer ----------------------------
(***************************************************************************)
(* What the PushQueue promises its callers, without maps, queues, locks or *)
(* goroutines.  Anything may be asked for a connection at any time; a      *)
(* connection is given one push at a time; a push takes some of what is    *)
(* owed, and nothing owed disappears unless a push took it.  (Part of what *)
(* a push takes may stay owed and be pushed again: harmless.)              *)
(***************************************************************************)
CONSTANTS Conns, Items

VARIABLES
    owed,      \* con -> items asked for and not yet given to a push
    current    \* con -> items of the push under way, {} when there is none

coalescerVars == <<owed, current>>

Init ==
    /\ owed = [c \in Conns |-> {}]
    /\ current = [c \in Conns |-> {}]

Ask(c) ==
    \E items \in (SUBSET Items) \ {{}} :
        /\ owed' = [owed EXCEPT ![c] = @ \cup items]
        /\ UNCHANGED current

Begin(c) ==
    /\ current[c] = {}
    /\ \E given \in (SUBSET owed[c]) \ {{}}, kept \in SUBSET owed[c] :
        /\ given \cup kept = owed[c]
        /\ owed' = [owed EXCEPT ![c] = kept]
        /\ current' = [current EXCEPT ![c] = given]

End(c) ==
    /\ current[c] # {}
    /\ current' = [current EXCEPT ![c] = {}]
    /\ UNCHANGED owed

Next == \E c \in Conns : Ask(c) \/ End(c) \/ Begin(c)

Spec == Init /\ [][Next]_coalescerVars

(* Every item owed to a connection is eventually part of a push to it. *)
Served == \A c \in Conns, i \in Items : (i \in owed[c]) ~> (i \in current[c])

=============================================================================
