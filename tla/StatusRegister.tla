--------------------------- MODULE StatusRegister ---------------------------
(***************************************************************************)
(* What the status of a resource promises to whoever reads it, whatever    *)
(* runs behind it: status.conditions of an object is a register shared by  *)
(* several writers.  One of them owns the condition of type Owned and      *)
(* reports verdicts on generations of the object; a report never replaces  *)
(* a report on a newer generation, and never touches what the others       *)
(* wrote.  How many replicas make the reports, from which view of the      *)
(* object and who leads, is not said here.                                 *)
(***************************************************************************)
EXTENDS Naturals

CONSTANTS
    Objects,          \* the names of the objects
    MaxGeneration,    \* bound: generations of an object
    Types,            \* the condition types
    Owned             \* the type the reporting controller owns

ASSUME Owned \in Types /\ MaxGeneration \in Nat \ {0}

VARIABLES
    object,       \* object[o]: which object has the name (uid) and its generation
    conditions    \* conditions[o]: status.conditions, by type

vars == <<object, conditions>>

Condition == [status : {"Unknown", "True", "False"}, observedGeneration : 0..MaxGeneration]

Init ==
    /\ object = [o \in Objects |-> [uid |-> 0, generation |-> 1]]
    /\ conditions = [o \in Objects |-> <<>>]

\* The type t of o is set to c, and the other types are left as they are.
Set(o, t, c) ==
    conditions' = [conditions EXCEPT ![o] =
                      [u \in DOMAIN @ \cup {t} |-> IF u = t THEN c ELSE @[u]]]

\* The spec of o is edited.
Edit(o) ==
    /\ object[o].generation < MaxGeneration
    /\ object' = [object EXCEPT ![o].generation = @ + 1]
    /\ UNCHANGED conditions

\* Another object takes the name of o, with no status.
Replace(o) ==
    /\ object' = [object EXCEPT ![o] = [uid |-> @.uid + 1, generation |-> 1]]
    /\ conditions' = [conditions EXCEPT ![o] = <<>>]

\* Another controller sets a condition of its own.
Foreign(o) ==
    /\ \E t \in Types \ {Owned}, c \in Condition : Set(o, t, c)
    /\ UNCHANGED object

\* A verdict on generation g is reported, unless a verdict on a newer
\* generation is shown.
Report(o) ==
    /\ \E g \in 1..MaxGeneration, verdict \in {"True", "False"} :
           /\ Owned \in DOMAIN conditions[o] =>
                  conditions[o][Owned].observedGeneration <= g
           /\ Set(o, Owned, [status |-> verdict, observedGeneration |-> g])
    /\ UNCHANGED object

Next == \E o \in Objects : Edit(o) \/ Replace(o) \/ Foreign(o) \/ Report(o)

Spec == Init /\ [][Next]_vars

=============================================================================
