----------------------------- MODULE PushRequest -----------------------------
(***************************************************************************)
(* model.PushRequest (pilot/pkg/model/push_context.go): what a change in   *)
(* the mesh asks the xDS server to push, and Merge, with which both the    *)
(* debouncer and the PushQueue coalesce requests.                          *)
(*                                                                         *)
(* The Go fields Start and Reason feed metrics only and are left out.  A   *)
(* nil and an empty map are told apart nowhere in the code that reads      *)
(* NamespacesUpdated and ConfigTypesUpdated (it tests len), so both are {}. *)
(***************************************************************************)
EXTENDS Naturals

CONSTANTS
    Services,      \* hostnames, the keys of EdsUpdates
    Namespaces,    \* the keys of NamespacesUpdated
    ConfigTypes,   \* config kinds (GroupVersionKind), keys of ConfigTypesUpdated
    Contexts,      \* push contexts, numbered in the order they were created
    NoReq          \* the nil *PushRequest

(* The PushRequest struct. *)
PushRequests ==
    [ full       : BOOLEAN,
      push       : Contexts,
      eds        : SUBSET Services,
      namespaces : SUBSET Namespaces,
      configs    : SUBSET ConfigTypes ]

ASSUME PushRequestAssumption ==
    /\ Contexts \subseteq Nat
    /\ NoReq \notin PushRequests

(* Mutant: a plain union; an empty scope no longer means everything. *)
MergeScopeUnion(first, other) == first \cup other

(* Merging two of the optional scopes: an empty one stands for everything  *)
(* and so absorbs the other.                                               *)
MergeScope(first, other) ==
    IF first # {} /\ other # {} THEN first \cup other ELSE {}

(* Mutant: the merged request keeps the first context. *)
MergeKeepsFirst(first, other) ==
    IF first = NoReq THEN other
    ELSE IF other = NoReq THEN first
    ELSE LET full == first.full \/ other.full IN
         [ full       |-> full,
           push       |-> first.push,
           eds        |-> IF full THEN {} ELSE first.eds \cup other.eds,
           namespaces |-> MergeScope(first.namespaces, other.namespaces),
           configs    |-> MergeScope(first.configs, other.configs) ]

(* func (first *PushRequest) Merge(other *PushRequest) *)
Merge(first, other) ==
    IF first = NoReq THEN other
    ELSE IF other = NoReq THEN first
    ELSE LET full == first.full \/ other.full IN
         [ full       |-> full,
           push       |-> other.push,
           eds        |-> IF full THEN {} ELSE first.eds \cup other.eds,
           namespaces |-> MergeScope(first.namespaces, other.namespaces),
           configs    |-> MergeScope(first.configs, other.configs) ]

-----------------------------------------------------------------------------
(* The meaning of a request, for stating properties: everything it asks    *)
(* for, with the conventions of the struct's comments unfolded (a full     *)
(* request covers every service, an empty scope covers everything).        *)

Unscoped(scope, everything) == IF scope = {} THEN everything ELSE scope

Tagged(tag, set) == {<<tag, x>> : x \in set}

AllWants == Tagged("full", {TRUE}) \cup Tagged("eds", Services)
              \cup Tagged("ns", Namespaces) \cup Tagged("type", ConfigTypes)

Wants(r) ==
    IF r = NoReq THEN {}
    ELSE      Tagged("full", {r.full} \cap {TRUE})
         \cup Tagged("eds",  IF r.full THEN Services ELSE r.eds)
         \cup Tagged("ns",   Unscoped(r.namespaces, Namespaces))
         \cup Tagged("type", Unscoped(r.configs, ConfigTypes))

=============================================================================
