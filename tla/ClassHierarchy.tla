---------------------------- MODULE ClassHierarchy ----------------------------
(***************************************************************************)
(* What the class tree promises, whatever the order in which a program     *)
(* defines its classes: a class is finalized once all its bases are, no    *)
(* class waits while another definition is accepted, and the tree is       *)
(* declared clean exactly when no defined class is left waiting.           *)
(***************************************************************************)
CONSTANT Class

VARIABLES
  bases,      \* the base classes of each defined class
  finalized,  \* the classes whose ancestors are all known
  verdict     \* "open" until the tree is closed, then "clean" or "errors"

vars == <<bases, finalized, verdict>>

Defined == DOMAIN bases

Ready(c) == c \in Defined \ finalized /\ bases[c] \subseteq finalized

AtRest == \A c \in Class : ~ Ready(c)

Init ==
  /\ bases = [c \in {} |-> {}]
  /\ finalized = {}
  /\ verdict = "open"

(* A definition whose bases are all finalized is finalized at once.        *)
Define(c, bs) ==
  /\ verdict = "open"
  /\ AtRest
  /\ c \in Class \ Defined
  /\ bases' = [d \in Defined \cup {c} |-> IF d = c THEN bs ELSE bases[d]]
  /\ finalized' = IF bs \subseteq finalized THEN finalized \cup {c} ELSE finalized
  /\ UNCHANGED verdict

(* A definition that was waiting for its bases.                            *)
Finalize(c) ==
  /\ Ready(c)
  /\ finalized' = finalized \cup {c}
  /\ UNCHANGED <<bases, verdict>>

Conclude ==
  /\ verdict = "open"
  /\ AtRest
  /\ verdict' = IF Defined \subseteq finalized THEN "clean" ELSE "errors"
  /\ UNCHANGED <<bases, finalized>>

Next ==
  \/ \E c \in Class, bs \in SUBSET Class : Define(c, bs)
  \/ \E c \in Class : Finalize(c)
  \/ Conclude

Spec == Init /\ [][Next]_vars

-----------------------------------------------------------------------------
TypeOK ==
  /\ Defined \subseteq Class
  /\ bases \in [Defined -> SUBSET Class]
  /\ finalized \subseteq Defined
  /\ verdict \in {"open", "clean", "errors"}

(* S contains every defined class whose bases it contains.                 *)
ClosedUnderDefinition(S) == \A c \in Defined : bases[c] \subseteq S => c \in S

(* No more is finalized than the definitions force: the finalized classes  *)
(* are in every set closed under the definitions.  So a class on a cycle,  *)
(* or above an undefined class, is never finalized.                        *)
FinalizedIsLeast ==
  \A S \in SUBSET Class : ClosedUnderDefinition(S) => finalized \subseteq S

=============================================================================
