------------------------------ MODULE ConditionPhase ------------------------------
(***************************************************************************)
(* extractConditionPhase (internal/k8s/status.go): the phase of an MPIJob  *)
(* or a JobSet, read from an unstructured object.  Nothing is known of its *)
(* shape: status.conditions may be missing or be no list, an element may   *)
(* be no map, a field may be missing or be no string.                      *)
(***************************************************************************)
EXTENDS Naturals, Sequences

\* What stands for a missing (or empty) field, and for one of the wrong type.
Absent    == ""
Malformed == "malformed"

\* An element of the list, and one that is no map.
Condition(type, status) == [map |-> TRUE, type |-> type, status |-> status]
NoMap == [map |-> FALSE, type |-> Absent, status |-> Absent]

\* status.conditions: a list, nothing, or something else.
List(items) == [list |-> "ok", items |-> items]
NoList(why) == [list |-> why, items |-> <<>>]

Error == "error"   \* the error returned, whatever it says

\* One round of the loop: what it returns, or "" when it goes on.
Round(cond) ==
  IF ~cond.map \/ cond.status \notin {Malformed, "True"} THEN ""
  ELSE IF Malformed \in {cond.status, cond.type} THEN Error
  ELSE cond.type

\* Mutant: the first condition that decides wins.
extractConditionPhase_First(conditions) ==
  LET items == conditions.items
      scan[i \in 1 .. Len(items) + 1] ==
        IF i > Len(items) THEN "Pending"
        ELSE IF Round(items[i]) # "" THEN Round(items[i])
        ELSE scan[i + 1]
  IN  IF conditions.list = Malformed THEN Error ELSE scan[1]

\* scan[i] is what the loop returns from index i on, downwards.
extractConditionPhase(conditions) ==
  LET items == conditions.items
      scan[i \in 0 .. Len(items)] ==
        IF i = 0 THEN "Pending"
        ELSE IF Round(items[i]) # "" THEN Round(items[i])
        ELSE scan[i - 1]
  IN  IF conditions.list = Malformed THEN Error ELSE scan[Len(items)]
===================================================================================
