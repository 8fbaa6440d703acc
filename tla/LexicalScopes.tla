---------------------------- MODULE LexicalScopes ----------------------------
(***************************************************************************)
(* What name resolution promises, without the lists of forward references  *)
(* that NameResolver uses to keep the promise.  Scopes are opened and      *)
(* closed like brackets; each binds keys, and each use of a key is settled *)
(* at once when a scope around it binds the key, and otherwise by the      *)
(* first scope to close around it with the key bound.  A use that no scope *)
(* settles is undefined when the outermost one closes.                     *)
(*                                                                         *)
(* Scopes are numbered in the order they are opened, 1 being the global    *)
(* one, so that of the scopes around a place the innermost has the largest *)
(* number.                                                                 *)
(***************************************************************************)
EXTENDS Naturals, Sequences

CONSTANT Key     \* what a scope can bind

VARIABLES
    enclosing,   \* scope -> the scopes around it, itself included
    open,        \* the scopes that are not closed yet
    bound,       \* scope -> the keys it binds
    uses,        \* the uses of keys, in the order they are met
    settled,     \* <<use, scope>>: the scope whose binding the use denotes
    undefined    \* the uses that denote nothing

vars == <<enclosing, open, bound, uses, settled, undefined>>

Scope == DOMAIN enclosing

Innermost(S) == {e \in S : \A f \in S : f <= e}

(* The scopes around e that bind k. *)
Binders(e, k) == {f \in enclosing[e] : k \in bound[f]}

Unsettled(u) == u \notin undefined /\ \A e \in Scope : <<u, e>> \notin settled

TypeOK ==
    /\ enclosing \in Seq(SUBSET Nat)
    /\ open \subseteq Scope
    /\ bound \in Seq(SUBSET Key)
    /\ Len(bound) = Len(enclosing)
    /\ uses \in Seq([key : Key, environment : Scope])
    /\ settled \subseteq (DOMAIN uses) \X Scope
    /\ undefined \subseteq DOMAIN uses

Init ==
    /\ enclosing = <<{1}>>
    /\ open = {1}
    /\ \E keys \in SUBSET Key : bound = <<keys>>
    /\ uses = <<>>
    /\ settled = {}
    /\ undefined = {}

(* A scope is opened inside the innermost open one, binding some keys of   *)
(* its own; keys may be bound in the scope around it first.                *)
Open ==
    \E e \in Innermost(open), outerKeys \in SUBSET Key, keys \in SUBSET Key :
        /\ enclosing' = Append(enclosing, enclosing[e] \cup {Len(enclosing) + 1})
        /\ open' = open \cup {Len(enclosing) + 1}
        /\ bound' = Append([bound EXCEPT ![e] = @ \cup outerKeys], keys)
        /\ UNCHANGED <<uses, settled, undefined>>

Bind ==
    \E e \in Innermost(open), keys \in SUBSET Key :
        /\ bound' = [bound EXCEPT ![e] = @ \cup keys]
        /\ UNCHANGED <<enclosing, open, uses, settled, undefined>>

(* A use in the innermost open scope denotes the innermost binding there   *)
(* is at that moment; with none, it waits.                                 *)
Use ==
    \E e \in Innermost(open), k \in Key :
        /\ uses' = Append(uses, [key |-> k, environment |-> e])
        /\ \/ /\ Binders(e, k) = {}
              /\ UNCHANGED settled
           \/ \E b \in Innermost(Binders(e, k)) :
                 settled' = settled \cup {<<Len(uses) + 1, b>>}
        /\ UNCHANGED <<enclosing, open, bound, undefined>>

(* The uses inside e that still wait when e closes. *)
WaitingIn(e) ==
    {u \in DOMAIN uses : e \in enclosing[uses[u].environment] /\ Unsettled(u)}

Close ==
    \E e \in Innermost(open) :
        LET found == {u \in WaitingIn(e) : uses[u].key \in bound[e]}
        IN  /\ open' = open \ {e}
            /\ settled' = settled \cup {<<u, e>> : u \in found}
            /\ undefined' = IF e = 1
                            THEN undefined \cup (WaitingIn(e) \ found)
                            ELSE undefined
            /\ UNCHANGED <<enclosing, bound, uses>>

Next == Open \/ Bind \/ Use \/ Close

Spec == Init /\ [][Next]_vars
=============================================================================
