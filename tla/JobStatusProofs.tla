------------------------------ MODULE JobStatusProofs ------------------------------
(***************************************************************************)
(* Theorems about JobStatus, for every number of callers, attempts and     *)
(* checks and every backoff limit: type correctness, that a finished       *)
(* object is reported as finished, and that a reported success is final.   *)
(***************************************************************************)
EXTENDS JobStatus, RetryProofs, ConditionPhaseProofs

(***************************************************************************)
(* What the controllers keep true of an object, and so of every copy of it *)
(* that was read: an MPIJob or a JobSet that ended shows that in its last  *)
(* condition, which is true; the counts of a Job agree with its end.       *)
(***************************************************************************)
CondTypes  == {"Created", "Running", "Suspended", "Succeeded", "Completed", "Complete", "Failed"}
Conditions == [map : {TRUE}, status : {"True", "False"}, type : CondTypes]
Phases     == {"Pending", "Created", "Running", "Suspended", "Succeeded", "Completed", "Failed"}
Finals(o)  == {Success[o.kind], "Failed"}

\* Conditions that pass come and go; one of finals ends the list, and is true.
EndsAtTheEnd(items, finals) == \A i \in 1 .. Len(items) :
  \/ \E type \in {"Created", "Running", "Suspended"}, status \in {"True", "False"} :
       items[i] = Condition(type, status)
  \/ i = Len(items) /\ \E type \in finals : items[i] = Condition(type, "True")

Coherent(o) ==
  LET items == o.conditions.items
  IN  IF o.kind = "job"
      THEN /\ o.active = 1 => o.succeeded = 0 /\ o.failed <= BackoffLimit
           /\ o.succeeded = 1 => o.failed <= BackoffLimit
           /\ \A i \in 1 .. Len(items) :
                \/ items[i] = Condition("Complete", "True") /\ o.succeeded = 1
                \/ items[i] = Condition("Failed", "True") /\ o.failed > BackoffLimit
      ELSE EndsAtTheEnd(items, Finals(o))

\* How the object o, any copy of the object, has ended, and whether it will succeed.
HoldsIn(o, type) == \E i \in 1 .. Len(o.conditions.items) :
                      o.conditions.items[i] = Condition(type, "True")
OutcomeOf(o) == IF HoldsIn(o, Success[o.kind]) THEN "success"
                ELSE IF HoldsIn(o, "Failed") THEN "failure" ELSE "none"
Promised(o)  == IF o.kind = "job" THEN o.succeeded = 1 ELSE OutcomeOf(o) = "success"

LEMMA ObjectType ==
  ASSUME NEW o \in Objects
  PROVE  /\ o.kind \in {"mpijob", "jobset", "job"} /\ o.kind \in Kinds /\ o.exists \in BOOLEAN
         /\ o.active \in 0 .. 1 /\ o.succeeded \in 0 .. 1 /\ o.failed \in 0 .. BackoffLimit + 1
         /\ o.conditions.list \in {"ok", Absent} /\ o.conditions.items \in Seq(Conditions)
         /\ Len(o.conditions.items) \in Nat
         /\ DOMAIN o.conditions.items = 1 .. Len(o.conditions.items)
<1>1. /\ o.kind \in {"mpijob", "jobset", "job"} /\ o.kind \in Kinds /\ o.exists \in BOOLEAN
      /\ o.active \in 0 .. 1 /\ o.succeeded \in 0 .. 1 /\ o.failed \in 0 .. BackoffLimit + 1
      /\ o.conditions.list \in {"ok", Absent} /\ o.conditions.items \in Seq(Conditions)
  BY StatusAssumption DEF Objects, StatusAssumption, Conditions, CondTypes
<1> QED BY <1>1

(* The rounds of the loop for the conditions that controllers set.         *)
LEMMA RoundOf ==
  \A type \in CondTypes : /\ Round(Condition(type, "True")) = type /\ type # ""
                          /\ Round(Condition(type, "False")) = ""
  BY DEF Round, Condition, CondTypes, Malformed, Absent, Error

LEMMA SameCondition ==
  ASSUME NEW type1, NEW status1, NEW type2, NEW status2,
         Condition(type1, status1) = Condition(type2, status2)
  PROVE  type1 = type2 /\ status1 = status2
<1>1. /\ Condition(type1, status1).type = type1 /\ Condition(type1, status1).status = status1
      /\ Condition(type2, status2).type = type2 /\ Condition(type2, status2).status = status2
  BY DEF Condition
<1> QED BY <1>1

(* The phase shows the condition that ended the object, or a passing one.  *)
ShowsEnd(phase, items, success) ==
  /\ phase \in Phases
  /\ \A type \in {success, "Failed"} :
       phase = type <=> \E i \in 1 .. Len(items) : items[i] = Condition(type, "True")
  /\ phase \in SuccessPhases => phase = success

LEMMA PhaseAtTheEnd ==
  ASSUME NEW conditions, conditions.list # Malformed, Len(conditions.items) \in Nat,
         NEW success \in SuccessPhases,
         EndsAtTheEnd(conditions.items, {success, "Failed"})
  PROVE  ShowsEnd(extractConditionPhase(conditions), conditions.items, success)
<1> DEFINE items == conditions.items
           n     == Len(conditions.items)
           phase == extractConditionPhase(conditions)
<1>1. n \in Nat /\ EndsAtTheEnd(items, {success, "Failed"}) /\ n = Len(items)
  OBVIOUS
<1>2. Undecided(phase, items, n) \/ \E j \in 1 .. n : DecidedAt(phase, items, n, j)
  BY LastConditionDecides
<1>3. SUFFICES /\ phase \in Phases
               /\ \A type \in {success, "Failed"} :
                    phase = type <=> \E i \in 1 .. n : items[i] = Condition(type, "True")
               /\ phase \in SuccessPhases => phase = success
  BY DEF ShowsEnd
<1> HIDE DEF items, n, phase
<1>4. ASSUME NEW i \in 1 .. n
      PROVE  \/ \E type \in {"Created", "Running", "Suspended"}, status \in {"True", "False"} :
                  items[i] = Condition(type, status)
             \/ i = n /\ \E type \in {success, "Failed"} : items[i] = Condition(type, "True")
  BY <1>1 DEF EndsAtTheEnd
<1> DEFINE passing == {"Created", "Running", "Suspended"}
           finals  == {success, "Failed"}
<1>0. passing \subseteq CondTypes /\ finals \subseteq CondTypes /\ passing \cap finals = {}
  BY DEF CondTypes, SuccessPhases
<1> HIDE DEF passing, finals
<1>5. CASE Undecided(phase, items, n)
  <2>1. \A type \in CondTypes, i \in 1 .. n : items[i] # Condition(type, "True")
    BY <1>5, RoundOf DEF Undecided
  <2> QED BY <1>5, <2>1 DEF Undecided, Phases, SuccessPhases, CondTypes
<1>6. ASSUME NEW j \in 1 .. n, DecidedAt(phase, items, n, j)
      PROVE  /\ phase \in Phases
             /\ \A type \in {success, "Failed"} :
                  phase = type <=> \E i \in 1 .. n : items[i] = Condition(type, "True")
             /\ phase \in SuccessPhases => phase = success
  <2>1. Round(items[j]) # "" /\ phase = Round(items[j])
    BY <1>6 DEF DecidedAt
  <2>2. /\ items[j] = Condition(phase, "True")
        /\ \/ phase \in {"Created", "Running", "Suspended"}
           \/ j = n /\ phase \in {success, "Failed"}
    <3>1. CASE \E type \in passing, status \in {"True", "False"} : items[j] = Condition(type, status)
      BY <1>0, <2>1, <3>1, RoundOf DEF passing
    <3>2. CASE j = n /\ \E type \in finals : items[j] = Condition(type, "True")
      BY <1>0, <2>1, <3>2, RoundOf DEF finals
    <3> QED BY <1>4, <3>1, <3>2 DEF passing, finals
  <2>3. ASSUME NEW type \in finals, NEW i \in 1 .. n, items[i] = Condition(type, "True")
        PROVE  phase = type
    <3>1. i = n
      BY <1>0, <1>4, <2>3, SameCondition DEF passing
    <3>2. Round(items[i]) # ""
      BY <1>0, <2>3, RoundOf
    <3>3. ~(i \in j + 1 .. n)
      BY <1>6, <3>2 DEF DecidedAt
    <3>4. i = j
      BY <1>1, <3>1, <3>3
    <3> QED BY <2>2, <2>3, <3>4, SameCondition
  <2> QED BY <2>2, <2>3 DEF finals, Phases, SuccessPhases
<1> QED BY <1>2, <1>5, <1>6

LEMMA PhaseOf ==
  ASSUME NEW o \in Objects, Coherent(o)
  PROVE  /\ Phase(o) \in Phases
         /\ Phase(o) \in SuccessPhases <=> Promised(o)
         /\ OutcomeOf(o) = "success" => Promised(o)
         /\ OutcomeOf(o) = "failure" => Phase(o) = "Failed" /\ ~Promised(o)
<1>1. CASE o.kind = "job"
  <2>1. Success[o.kind] = "Complete"
    BY <1>1 DEF Success
  <2>2. OutcomeOf(o) = "success" => o.succeeded = 1
    <3>1. Condition("Failed", "True") # Condition("Complete", "True")
      BY SameCondition
    <3> QED BY <1>1, <2>1, <3>1 DEF OutcomeOf, HoldsIn, Coherent
  <2>3. OutcomeOf(o) = "failure" => o.failed > BackoffLimit /\ o.succeeded # 1
    <3>1. Condition("Failed", "True") # Condition("Complete", "True")
      BY SameCondition
    <3>2. OutcomeOf(o) = "failure" => o.failed > BackoffLimit
      BY <1>1, <2>1, <3>1 DEF OutcomeOf, HoldsIn, Coherent
    <3>3. o.succeeded = 1 => o.failed <= BackoffLimit
      BY <1>1 DEF Coherent
    <3> QED BY <3>2, <3>3, ObjectType, StatusAssumption DEF StatusAssumption
  <2> QED BY <1>1, <2>2, <2>3, ObjectType, StatusAssumption
          DEF StatusAssumption, Phase, getBatchJobStatus, Promised, SuccessPhases, Phases
<1>2. CASE o.kind # "job"
  <2>1. /\ Phase(o) = extractConditionPhase(o.conditions)
        /\ o.conditions.list # Malformed /\ Len(o.conditions.items) \in Nat
    BY <1>2, ObjectType DEF Phase, Malformed, Absent
  <2>2. /\ Success[o.kind] \in SuccessPhases /\ Finals(o) = {Success[o.kind], "Failed"}
        /\ "Failed" \notin SuccessPhases
    BY <1>2, ObjectType DEF Finals, Success, SuccessPhases
  <2>3. EndsAtTheEnd(o.conditions.items, {Success[o.kind], "Failed"})
    BY <1>2, <2>2 DEF Coherent
  <2>4. /\ Phase(o) \in Phases
        /\ Phase(o) = Success[o.kind] <=> HoldsIn(o, Success[o.kind])
        /\ Phase(o) = "Failed" <=> HoldsIn(o, "Failed")
        /\ Phase(o) \in SuccessPhases => Phase(o) = Success[o.kind]
    <3>1. ShowsEnd(Phase(o), o.conditions.items, Success[o.kind])
      BY <2>1, <2>2, <2>3, PhaseAtTheEnd
    <3> QED BY <3>1 DEF ShowsEnd, HoldsIn
  <2> QED BY <1>2, <2>2, <2>4 DEF OutcomeOf, Promised
<1> QED BY <1>1, <1>2

----------------------------------------------------------------------------
(* The controllers.                                                        *)

(* What With makes of the conditions: each keeps its place and its type.   *)
LEMMA WithEffect ==
  ASSUME Items \in Seq(Conditions), NEW set \in CondTypes, NEW unset \in SUBSET CondTypes,
         NEW c, c = With(set, unset)
  PROVE  /\ c \in [list : {"ok", Absent}, items : Seq(Conditions)]
         /\ Len(c.items) = Len(Items) + (IF Has(set) THEN 0 ELSE 1)
         /\ \A i \in 1 .. Len(Items) :
              \/ c.items[i] = Items[i]
              \/ c.items[i] = Condition(Items[i].type, "False") /\ Items[i].type \in unset
              \/ c.items[i] = Condition(set, "True") /\ Items[i].type = set
         /\ ~Has(set) => c.items[Len(Items) + 1] = Condition(set, "True")
<1> DEFINE items == Items
           kept  == [i \in DOMAIN items |->
                       IF items[i].type \in unset THEN Condition(items[i].type, "False")
                       ELSE IF items[i].type = set THEN Condition(set, "True")
                       ELSE items[i]]
           new   == Condition(set, "True")
<1>1. c = List(IF Has(set) THEN kept ELSE Append(kept, new))
  BY DEF With
<1>2. c = [list |-> "ok", items |-> c.items] /\ c.items = IF Has(set) THEN kept ELSE Append(kept, new)
  BY <1>1 DEF List
<1>3. items \in Seq(Conditions) /\ new \in Conditions
  BY DEF Conditions, Condition
<1>4. \A type \in CondTypes : Condition(type, "False") \in Conditions
  BY DEF Conditions, Condition
<1>5. kept \in Seq(Conditions) /\ Len(kept) = Len(items)
  <2> HIDE DEF items, new
  <2>1. \A i \in 1 .. Len(items) : items[i] \in Conditions /\ items[i].type \in CondTypes
    <3>1. \A e \in Conditions : e.type \in CondTypes
      BY DEF Conditions
    <3> QED BY <1>3, <3>1
  <2>2. DOMAIN items = 1 .. Len(items) /\ Len(items) \in Nat
    BY <1>3
  <2>3. kept \in [1 .. Len(items) -> Conditions]
    BY <1>3, <1>4, <2>1, <2>2 DEF new
  <2> QED BY <2>2, <2>3
<1>6. \A i \in 1 .. Len(items) :
        \/ kept[i] = items[i]
        \/ kept[i] = Condition(items[i].type, "False") /\ items[i].type \in unset
        \/ kept[i] = new /\ items[i].type = set
  <2> HIDE DEF items, new
  <2>1. DOMAIN items = 1 .. Len(items)
    BY <1>3
  <2> QED BY <2>1 DEF new
<1> HIDE DEF items, kept, new
<1>7. /\ c.items \in Seq(Conditions) /\ Len(c.items) = Len(items) + (IF Has(set) THEN 0 ELSE 1)
      /\ \A i \in 1 .. Len(items) : c.items[i] = kept[i]
      /\ ~Has(set) => c.items[Len(items) + 1] = new
  BY <1>2, <1>3, <1>5
<1> QED BY <1>2, <1>6, <1>7 DEF items, new

LEMMA SetConditions ==
  ASSUME object \in Objects, NEW c \in [list : {"ok", Absent}, items : Seq(Conditions)],
         object' = [object EXCEPT !.conditions = c]
  PROVE  /\ object' \in Objects /\ object'.conditions = c /\ object'.kind = object.kind
         /\ object'.active = object.active /\ object'.succeeded = object.succeeded
         /\ object'.failed = object.failed
  BY DEF Objects, Conditions, CondTypes

LEMMA OutcomeIs == Outcome = OutcomeOf(object)
  BY DEF Outcome, OutcomeOf, Holds, HoldsIn, Items

(* An MPIJob or a JobSet that has not ended gets a condition, or is        *)
(* changed one: it stays coherent.                                         *)
LEMMA ConditionMoves ==
  ASSUME object \in Objects, Coherent(object), object.kind # "job", Outcome = "none",
         NEW set \in {"Created", "Running", "Suspended"} \cup Finals(object),
         NEW unset \in SUBSET {"Running", "Suspended"},
         object' = [object EXCEPT !.conditions = With(set, unset)]
  PROVE  object' \in Objects /\ Coherent(object') /\ object'.kind = object.kind
<1> DEFINE c == With(set, unset)
           items == Items
           passing == {"Created", "Running", "Suspended"}
<1>1. /\ set \in CondTypes /\ unset \in SUBSET CondTypes /\ passing \subseteq CondTypes
      /\ passing \cap Finals(object) = {} /\ Finals(object) = {Success[object.kind], "Failed"}
  BY ObjectType DEF CondTypes, Finals, Success
<1>2. items \in Seq(Conditions) /\ Len(items) \in Nat
  BY ObjectType DEF Items
<1>3. \A i \in 1 .. Len(items) : \E type \in passing, status \in {"True", "False"} :
        items[i] = Condition(type, status) /\ items[i].type = type
  <2>1. \A type \in Finals(object), i \in 1 .. Len(items) : items[i] # Condition(type, "True")
    BY <1>1, OutcomeIs DEF OutcomeOf, HoldsIn, Items
  <2>2. EndsAtTheEnd(items, Finals(object))
    BY DEF Coherent, Items
  <2>3. \A type, status : Condition(type, status).type = type
    BY DEF Condition
  <2> QED BY <2>1, <2>2, <2>3 DEF EndsAtTheEnd
<1>4. /\ c \in [list : {"ok", Absent}, items : Seq(Conditions)]
      /\ Len(c.items) = Len(items) + (IF Has(set) THEN 0 ELSE 1)
      /\ \A i \in 1 .. Len(items) :
           \/ c.items[i] = items[i]
           \/ c.items[i] = Condition(items[i].type, "False") /\ items[i].type \in unset
           \/ c.items[i] = Condition(set, "True") /\ items[i].type = set
      /\ ~Has(set) => c.items[Len(items) + 1] = Condition(set, "True")
  BY <1>1, <1>2, WithEffect
<1>5. object' \in Objects /\ object'.conditions = c /\ object'.kind = object.kind
  BY <1>4, SetConditions
<1> HIDE DEF c, items, passing
<1>6. ASSUME NEW i \in 1 .. Len(c.items)
      PROVE  \/ \E type \in passing, status \in {"True", "False"} : c.items[i] = Condition(type, status)
             \/ i = Len(c.items) /\ \E type \in Finals(object) : c.items[i] = Condition(type, "True")
  <2>1. CASE i \in 1 .. Len(items)
    <3>1. PICK type \in passing, status \in {"True", "False"} :
            items[i] = Condition(type, status) /\ items[i].type = type
      BY <1>3, <2>1
    <3> QED BY <1>4, <2>1, <3>1
  <2>2. CASE i \notin 1 .. Len(items)
    <3>1. ~Has(set) /\ i = Len(items) + 1 /\ i = Len(c.items)
      BY <1>2, <1>4, <2>2
    <3>2. c.items[i] = Condition(set, "True")
      BY <1>4, <3>1
    <3> QED BY <3>1, <3>2 DEF passing
  <2> QED BY <2>1, <2>2
<1>7. EndsAtTheEnd(c.items, Finals(object))
  BY <1>6 DEF EndsAtTheEnd, passing
<1>8. Finals(object') = Finals(object)
  BY <1>5 DEF Finals
<1> QED BY <1>5, <1>7, <1>8 DEF Coherent

LEMMA ConditionKindsMove ==
  ASSUME object \in Objects, Coherent(object), MPIJobMoves \/ JobSetMoves
  PROVE  object' \in Objects /\ Coherent(object') /\ object'.kind = object.kind
<1>1. object.kind # "job" /\ Outcome = "none"
  BY DEF MPIJobMoves, JobSetMoves
<1>2. ASSUME object' = [object EXCEPT !.conditions = List(<<Condition("Suspended", "False")>>)]
      PROVE  object' \in Objects /\ Coherent(object') /\ object'.kind = object.kind
  <2> DEFINE c == List(<<Condition("Suspended", "False")>>)
  <2>1. Condition("Suspended", "False") \in Conditions
    BY DEF Condition, Conditions, CondTypes
  <2>2. /\ c \in [list : {"ok", Absent}, items : Seq(Conditions)]
        /\ Len(c.items) = 1 /\ c.items[1] = Condition("Suspended", "False")
    BY <2>1 DEF List
  <2>3. object' \in Objects /\ object'.conditions = c /\ object'.kind = object.kind
    BY <1>2, <2>2, SetConditions
  <2> HIDE DEF c
  <2>4. EndsAtTheEnd(c.items, Finals(object'))
    BY <2>2 DEF EndsAtTheEnd
  <2> QED BY <1>1, <2>3, <2>4 DEF Coherent
<1>3. /\ {"Running", "Suspended"} \in SUBSET {"Running", "Suspended"}
      /\ {"Suspended"} \in SUBSET {"Running", "Suspended"}
      /\ {"Running"} \in SUBSET {"Running", "Suspended"}
      /\ {} \in SUBSET {"Running", "Suspended"}
  OBVIOUS
<1>4. CASE Finish
  BY <1>1, <1>3, <1>4, ConditionMoves DEF Finish, Finals
<1>5. CASE \/ object' = [object EXCEPT !.conditions = With("Created", {})]
           \/ object' = [object EXCEPT !.conditions = With("Running", {"Suspended"})]
           \/ object' = [object EXCEPT !.conditions = With("Suspended", {"Running"})]
           \/ object' = [object EXCEPT !.conditions = With("Suspended", {})]
  BY <1>1, <1>3, <1>5, ConditionMoves
<1> QED BY <1>2, <1>4, <1>5 DEF MPIJobMoves, JobSetMoves

LEMMA JobMovesEffect ==
  ASSUME object \in Objects, Coherent(object), JobMoves
  PROVE  /\ object' \in Objects /\ Coherent(object') /\ object'.kind = object.kind
         /\ Promised(object) => Promised(object')
<1>1. object.kind = "job" /\ Outcome = "none"
  BY DEF JobMoves
<1>2. Items \in Seq(Conditions) /\ Len(Items) \in Nat /\ BackoffLimit \in Nat
  BY ObjectType, StatusAssumption DEF Items, StatusAssumption
<1>3. Len(Items) = 0
  <2>1. \A i \in 1 .. Len(Items) : Items[i] \notin {Condition("Complete", "True"), Condition("Failed", "True")}
    BY <1>1, OutcomeIs DEF OutcomeOf, HoldsIn, Items, Success
  <2>2. \A i \in 1 .. Len(Items) : Items[i] \in {Condition("Complete", "True"), Condition("Failed", "True")}
    BY <1>1 DEF Coherent, Items
  <2> QED BY <1>2, <2>1, <2>2
<1>4. ASSUME NEW type \in {"Complete", "Failed"},
             object' = [object EXCEPT !.conditions = With(type, {})],
             type = "Complete" => object.succeeded = 1,
             type = "Failed" => object.failed > BackoffLimit
      PROVE  object' \in Objects /\ Coherent(object') /\ object'.kind = object.kind
               /\ object'.succeeded = object.succeeded
  <2> DEFINE c == With(type, {})
  <2>1. type \in CondTypes /\ {} \in SUBSET CondTypes
    BY DEF CondTypes
  <2>2. ~Has(type)
    BY <1>2, <1>3 DEF Has
  <2>3. /\ c \in [list : {"ok", Absent}, items : Seq(Conditions)]
        /\ Len(c.items) = 1 /\ c.items[1] = Condition(type, "True")
    <3>1. /\ c \in [list : {"ok", Absent}, items : Seq(Conditions)]
          /\ Len(c.items) = Len(Items) + (IF Has(type) THEN 0 ELSE 1)
          /\ ~Has(type) => c.items[Len(Items) + 1] = Condition(type, "True")
      BY <1>2, <2>1, WithEffect
    <3> HIDE DEF c
    <3>2. Len(c.items) = 1
      BY <1>3, <2>2, <3>1
    <3>3. c.items[0 + 1] = Condition(type, "True")
      BY <1>3, <2>2, <3>1
    <3> QED BY <3>1, <3>2, <3>3
  <2>4. /\ object' \in Objects /\ object'.conditions = c /\ object'.kind = object.kind
        /\ object'.active = object.active /\ object'.succeeded = object.succeeded
        /\ object'.failed = object.failed
    BY <1>4, <2>3, SetConditions
  <2> HIDE DEF c
  <2> QED BY <1>1, <1>4, <2>3, <2>4 DEF Coherent
<1>5. /\ object.active \in 0 .. 1 /\ object.succeeded \in 0 .. 1
      /\ object.failed \in 0 .. BackoffLimit + 1
      /\ object.active = 1 => object.succeeded = 0 /\ object.failed <= BackoffLimit
      /\ object.succeeded = 1 => object.failed <= BackoffLimit
  BY <1>1, ObjectType DEF Coherent
<1>6. ASSUME object' \in Objects, object'.conditions = object.conditions,
             object'.kind = object.kind,
             object'.active = 1 => object'.succeeded = 0 /\ object'.failed <= BackoffLimit,
             object'.succeeded = 1 => object'.failed <= BackoffLimit
      PROVE  Coherent(object')
  BY <1>1, <1>3, <1>6 DEF Coherent, Items
<1>7. CASE /\ object.active = 0 /\ object.succeeded = 0 /\ object.failed <= BackoffLimit
           /\ object' = [object EXCEPT !.active = 1]
  <2>1. /\ object' \in Objects /\ object'.conditions = object.conditions
        /\ object'.kind = object.kind /\ object'.active = 1 /\ object'.succeeded = 0
        /\ object'.failed = object.failed
    BY <1>7 DEF Objects
  <2> QED BY <1>1, <1>6, <1>7, <2>1 DEF Promised
<1>8. CASE /\ object.active = 1
           /\ object' = [object EXCEPT !.active = 0, !.failed = @ + 1]
  <2>1. object.failed + 1 \in 0 .. BackoffLimit + 1 /\ object.succeeded = 0
    BY <1>2, <1>5, <1>8
  <2>2. /\ object' \in Objects /\ object'.conditions = object.conditions
        /\ object'.kind = object.kind /\ object'.active = 0 /\ object'.succeeded = 0
    BY <1>8, <2>1 DEF Objects
  <2> QED BY <1>1, <1>6, <2>1, <2>2 DEF Promised
<1>9. CASE /\ object.active = 1
           /\ object' = [object EXCEPT !.active = 0, !.succeeded = 1]
  <2>1. /\ object' \in Objects /\ object'.conditions = object.conditions
        /\ object'.kind = object.kind /\ object'.active = 0 /\ object'.succeeded = 1
        /\ object'.failed = object.failed
    BY <1>9, 0 \in 0 .. 1, 1 \in 0 .. 1 DEF Objects
  <2> QED BY <1>1, <1>5, <1>6, <1>9, <2>1 DEF Promised
<1>10. CASE \/ object.succeeded = 1 /\ object' = [object EXCEPT !.conditions = With("Complete", {})]
            \/ object.failed > BackoffLimit
               /\ object' = [object EXCEPT !.conditions = With("Failed", {})]
  BY <1>1, <1>4, <1>10 DEF Promised
<1> QED BY <1>7, <1>8, <1>9, <1>10 DEF JobMoves

(* Whatever the controller does, the object stays coherent; a promise and  *)
(* an end are final.                                                       *)
LEMMA ControllerEffect ==
  ASSUME object \in Objects, Coherent(object), Controller
  PROVE  /\ object' \in Objects /\ Coherent(object')
         /\ Promised(object) => Promised(object')
         /\ OutcomeOf(object) # "none" => OutcomeOf(object') = OutcomeOf(object)
<1>1. CASE MPIJobMoves \/ JobSetMoves
  <2>1. object.kind # "job" /\ OutcomeOf(object) = "none"
    BY <1>1, OutcomeIs DEF MPIJobMoves, JobSetMoves
  <2> QED BY <1>1, <2>1, ConditionKindsMove DEF Promised
<1>2. CASE JobMoves
  BY <1>2, JobMovesEffect, OutcomeIs DEF JobMoves
<1>3. CASE Removed
  <2>1. object' \in Objects /\ object'.kind = object.kind /\ object'.conditions = object.conditions
        /\ object'.active = object.active /\ object'.succeeded = object.succeeded
        /\ object'.failed = object.failed
    BY <1>3 DEF Removed, Objects
  <2>2. OutcomeOf(object') = OutcomeOf(object)
    BY <2>1 DEF OutcomeOf, HoldsIn
  <2>3. Coherent(object')
    BY <2>1 DEF Coherent, Finals
  <2> QED BY <2>1, <2>2, <2>3 DEF Promised
<1> QED BY <1>1, <1>2, <1>3 DEF Controller

----------------------------------------------------------------------------
(* The inductive invariant.                                                *)

\* c has been answered a success, in one of its checks.
Reported(c) == \E i \in 1 .. Len(answers[c]) : answers[c][i] \in SuccessPhases

\* What a check still waits for is in the loop, which has seen an object when it
\* returns no error.
Waiting(c) ==
  /\ retry[c].pc # "idle" => check[c].pc = "get"
  /\ retry[c].pc = "backoff" => retry[c].lastErr # NoError /\ retry[c].attempt < retryMaxAttempts
  /\ retry[c].pc = "returned" /\ retry[c].lastErr = NoError => seen[c] # None

\* An object that was read, when c's check had begun: it may be old, but no older
\* than the check.
ReadBy(c, o) == o # None =>
  /\ Coherent(o)
  /\ Promised(o) => Promised(object)
  /\ before[c] # "none" => OutcomeOf(o) = before[c]
  /\ check[c].pc = "get" /\ Reported(c) => Promised(o)

\* What was answered agrees with the object, and with what was answered before.
Consistent(c) ==
  /\ before[c] # "none" => OutcomeOf(object) = before[c]
  /\ Reported(c) => Promised(object)
  /\ \A i, j \in 1 .. Len(answers[c]) :
       i <= j /\ answers[c][i] \in SuccessPhases =>
         answers[c][j] \in SuccessPhases \cup {"error"}
  /\ check[c].pc = "done" =>
       LET answer == answers[c][Len(answers[c])]
       IN  /\ Len(answers[c]) > 0
           /\ before[c] = "success" => answer \in SuccessPhases \cup {"error"}
           /\ before[c] = "failure" => answer \in {"Failed", "error"}

CheckInv(c) == Waiting(c) /\ ReadBy(c, got[c]) /\ ReadBy(c, seen[c]) /\ Consistent(c)

IInv ==
  /\ TypeOK
  /\ got \in [Calls -> Objects \cup {None}] /\ seen \in [Calls -> Objects \cup {None}]
  /\ Coherent(object)
  /\ \A c \in Calls : CheckInv(c)

LEMMA InitInv == Init => IInv
<1> SUFFICES ASSUME Init PROVE IInv
  OBVIOUS
<1>1. RetryTypeOK /\ \A c \in Calls : retry[c].pc = "idle"
  <2>1. NewFrame("idle") \in Frame /\ NewFrame("idle").pc = "idle"
    BY RetryAssumption DEF NewFrame, Frame, NoError
  <2> QED BY <2>1 DEF Init, RetryInit, RetryTypeOK
<1>2. /\ object \in Objects /\ Coherent(object)
  <2>1. object.conditions = [list |-> Absent, items |-> <<>>] /\ object.kind \in Kinds
        /\ object.exists = TRUE /\ object.active = 0 /\ object.succeeded = 0 /\ object.failed = 0
    BY DEF Init, NoList
  <2>2. object = [kind |-> object.kind, exists |-> TRUE, active |-> 0, succeeded |-> 0,
                  failed |-> 0, conditions |-> [list |-> Absent, items |-> <<>>]]
    BY DEF Init, NoList
  <2>3. 0 \in 0 .. 1 /\ 0 \in 0 .. BackoffLimit + 1
    BY StatusAssumption DEF StatusAssumption
  <2>4. object \in Objects
    <3> DEFINE c == [list |-> Absent, items |-> <<>>]
    <3>1. <<>> \in Seq([map : {TRUE}, status : {"True", "False"},
                       type : {"Created", "Running", "Suspended", "Succeeded",
                               "Completed", "Complete", "Failed"}])
      OBVIOUS
    <3>2. c \in [list : {"ok", Absent},
                items : Seq([map : {TRUE}, status : {"True", "False"},
                             type : {"Created", "Running", "Suspended", "Succeeded",
                                     "Completed", "Complete", "Failed"}])]
      BY <3>1
    <3> HIDE DEF c
    <3> QED BY <2>1, <2>2, <2>3, <3>2 DEF Objects, c
  <2>5. Len(object.conditions.items) = 0
    BY <2>1
  <2> QED BY <2>1, <2>4, <2>5 DEF Coherent, EndsAtTheEnd
<1>3. TypeOK
  BY <1>1, <1>2 DEF Init, TypeOK
<1>4. ASSUME NEW c \in Calls PROVE CheckInv(c)
  <2>1. /\ retry[c].pc = "idle" /\ got[c] = None /\ seen[c] = None /\ before[c] = "none"
        /\ answers[c] = <<>> /\ check[c].pc = "idle"
    BY <1>1 DEF Init
  <2>2. Len(answers[c]) = 0
    BY <2>1
  <2> QED BY <2>1, <2>2 DEF CheckInv, Waiting, ReadBy, Consistent, Reported
<1> QED BY <1>2, <1>3, <1>4 DEF IInv, Init

\* Nothing of the call c changes.
SameCall(c) ==
  /\ retry'[c] = retry[c] /\ check'[c] = check[c] /\ got'[c] = got[c] /\ seen'[c] = seen[c]
  /\ before'[c] = before[c] /\ answers'[c] = answers[c]

(* A check that does not move keeps its invariant, whether nothing else    *)
(* moves or the controller does.                                           *)
LEMMA KeepsStill ==
  ASSUME NEW c \in Calls, CheckInv(c), SameCall(c),
         \/ object' = object
         \/ /\ Promised(object) => Promised(object')
            /\ OutcomeOf(object) # "none" => OutcomeOf(object') = OutcomeOf(object)
  PROVE  CheckInv(c)'
<1>1. /\ Promised(object) => Promised(object')
      /\ OutcomeOf(object) # "none" => OutcomeOf(object') = OutcomeOf(object)
  OBVIOUS
<1>2. Reported(c)' <=> Reported(c)
  BY DEF SameCall, Reported
<1>3. Waiting(c)'
  BY DEF CheckInv, Waiting, SameCall
<1>4. ReadBy(c, got[c])' /\ ReadBy(c, seen[c])'
  BY <1>1, <1>2 DEF CheckInv, ReadBy, SameCall
<1>5. Consistent(c)'
  BY <1>1, <1>2 DEF CheckInv, Consistent, SameCall
<1> QED BY <1>3, <1>4, <1>5 DEF CheckInv

LEMMA ControllerInv == IInv /\ Controller => IInv'
<1> SUFFICES ASSUME IInv, Controller PROVE IInv'
  OBVIOUS
<1>1. object \in Objects /\ Coherent(object) /\ UNCHANGED checkVars
  BY DEF IInv, TypeOK, Controller
<1>2. /\ object' \in Objects /\ Coherent(object')
      /\ Promised(object) => Promised(object')
      /\ OutcomeOf(object) # "none" => OutcomeOf(object') = OutcomeOf(object)
  BY <1>1, ControllerEffect
<1>3. TypeOK'
  BY <1>1, <1>2 DEF IInv, TypeOK, checkVars, RetryTypeOK
<1>4. ASSUME NEW c \in Calls PROVE CheckInv(c)'
  BY <1>1, <1>2, KeepsStill DEF IInv, checkVars, SameCall
<1> QED BY <1>1, <1>2, <1>3, <1>4 DEF IInv, checkVars

----------------------------------------------------------------------------
(* The steps of a check.                                                   *)

Answers == {"error"} \cup Phases

\* The object stays, and so do the calls other than c.
OnlyCall(c) == object' = object /\ \A d \in Calls \ {c} : SameCall(d)

LEMMA StateType ==
  ASSUME IInv, NEW c \in Calls
  PROVE  /\ RetryTypeOK /\ object \in Objects /\ Coherent(object) /\ CheckInv(c)
         /\ ctxErr[c] \in {NoError, "Canceled"} /\ ctxErr[c] \in Errors \cup {NoError}
         /\ check[c].pc \in {"idle", "get", "done"} /\ check[c].asked \in Kinds \cup {None}
         /\ check[c] = [pc |-> check[c].pc, asked |-> check[c].asked]
         /\ got[c] \in Objects \cup {None} /\ seen[c] \in Objects \cup {None}
         /\ before[c] \in {"none", "success", "failure"}
         /\ answers[c] \in Seq(Answers) /\ Len(answers[c]) \in Nat
  BY DEF IInv, TypeOK, Errors, NetErrors, Answers, Phases

(* What is left to show of a step of c: its types, and the invariant of c. *)
LEMMA CallSuffices ==
  ASSUME IInv, NEW c \in Calls, OnlyCall(c), RetryTypeOK',
         ctxErr' \in [Calls -> {NoError, "Canceled"}],
         check' \in [Calls -> [pc : {"idle", "get", "done"}, asked : Kinds \cup {None}]],
         got' \in [Calls -> Objects \cup {None}], seen' \in [Calls -> Objects \cup {None}],
         before' \in [Calls -> {"none", "success", "failure"}],
         answers' \in [Calls -> Seq(Answers)], CheckInv(c)'
  PROVE  IInv'
<1>1. TypeOK'
  BY DEF IInv, TypeOK, OnlyCall, Answers, Phases
<1>2. ASSUME NEW d \in Calls PROVE CheckInv(d)'
  BY KeepsStill DEF IInv, OnlyCall
<1> QED BY <1>1, <1>2 DEF IInv, OnlyCall

(* What is left to show of a step that is answered nothing.  The object    *)
(* may be read, what was read may be kept, or be forgotten.                *)
LEMMA QuietStep ==
  ASSUME NEW c \in Calls, CheckInv(c), Coherent(object), object' = object,
         got'[c] \in {got[c], object, None}, seen'[c] \in {seen[c], got[c]},
         check'[c] = check[c], before'[c] = before[c], answers'[c] = answers[c],
         Waiting(c)'
  PROVE  CheckInv(c)'
<1>1. Reported(c)' <=> Reported(c)
  BY DEF Reported
<1>2. ReadBy(c, object) /\ ReadBy(c, None)
  BY DEF CheckInv, Consistent, ReadBy
<1>3. ASSUME NEW o, ReadBy(c, o)
      PROVE  o # None => /\ Coherent(o)
                         /\ Promised(o) => Promised(object')
                         /\ before'[c] # "none" => OutcomeOf(o) = before'[c]
                         /\ check'[c].pc = "get" /\ Reported(c)' => Promised(o)
  BY <1>1, <1>3 DEF ReadBy
<1>4. ReadBy(c, got[c])' /\ ReadBy(c, seen[c])'
  <2>1. ReadBy(c, got'[c]) /\ ReadBy(c, seen'[c])
    BY <1>2 DEF CheckInv
  <2> QED BY <1>3, <2>1 DEF ReadBy
<1>5. Consistent(c)'
  BY <1>1 DEF CheckInv, Consistent
<1> QED BY <1>4, <1>5 DEF CheckInv

(* A phase or an error is answered: what it has to agree with.             *)
LEMMA AnswerEffect ==
  ASSUME IInv, NEW c \in Calls, NEW answer \in Answers,
         object' = object, answers' = [answers EXCEPT ![c] = Append(@, answer)],
         before'[c] = before[c],
         answer \in SuccessPhases => Promised(object),
         Reported(c) => answer \in SuccessPhases \cup {"error"},
         before[c] = "success" => answer \in SuccessPhases \cup {"error"},
         before[c] = "failure" => answer \in {"Failed", "error"}
  PROVE  /\ answers' \in [Calls -> Seq(Answers)]
         /\ \A d \in Calls \ {c} : answers'[d] = answers[d]
         /\ Consistent(c)'
<1> DEFINE said == answers[c]
           n    == Len(said)
<1>1. /\ said \in Seq(Answers) /\ n \in Nat /\ answers \in [Calls -> Seq(Answers)] /\ CheckInv(c)
      /\ Append(said, answer) \in Seq(Answers)
  BY StateType DEF IInv, TypeOK, Answers, Phases
<1>2. /\ answers' \in [Calls -> Seq(Answers)] /\ answers'[c] = Append(said, answer)
      /\ \A d \in Calls \ {c} : answers'[d] = answers[d]
  BY <1>1
<1>3. /\ Len(answers'[c]) = n + 1 /\ answers'[c][n + 1] = answer
      /\ \A i \in 1 .. n : answers'[c][i] = said[i]
  BY <1>1, <1>2
<1>4. /\ Reported(c) => Promised(object)
      /\ before[c] # "none" => OutcomeOf(object) = before[c]
      /\ \A i, j \in 1 .. n : (i <= j /\ said[i] \in SuccessPhases) =>
                              said[j] \in SuccessPhases \cup {"error"}
  BY <1>1 DEF CheckInv, Consistent
<1>5. Reported(c) <=> \E i \in 1 .. n : said[i] \in SuccessPhases
  BY DEF Reported
<1> HIDE DEF n, said
<1>6. Reported(c)' => Promised(object)
  <2>1. ASSUME NEW i \in 1 .. n + 1, answers'[c][i] \in SuccessPhases PROVE Promised(object)
    <3>1. i \in 1 .. n \/ i = n + 1
      BY <1>1
    <3> QED BY <1>3, <1>4, <1>5, <2>1, <3>1
  <2> QED BY <1>3, <2>1 DEF Reported
<1>7. ASSUME NEW i \in 1 .. n + 1, NEW j \in 1 .. n + 1, i <= j,
             answers'[c][i] \in SuccessPhases
      PROVE  answers'[c][j] \in SuccessPhases \cup {"error"}
  <2>1. (i \in 1 .. n /\ j \in 1 .. n) \/ (i \in 1 .. n /\ j = n + 1) \/ (i = n + 1 /\ j = n + 1)
    BY <1>1, <1>7
  <2> QED BY <1>3, <1>4, <1>5, <1>7, <2>1
<1>8. n + 1 > 0
  BY <1>1
<1> QED BY <1>2, <1>3, <1>4, <1>6, <1>7, <1>8 DEF Consistent

LEMMA RefuseInv ==
  ASSUME IInv, NEW c \in Calls, NEW in \in Inputs, Refuse(c, in)
  PROVE  IInv'
<1>1. /\ UNCHANGED <<object, retry, ctxErr, check, got, seen, before>>
      /\ check[c].pc \in {"idle", "done"}
      /\ answers' = [answers EXCEPT ![c] = Append(@, "error")]
  BY DEF Refuse, Ready, Error
<1>2. /\ answers' \in [Calls -> Seq(Answers)]
      /\ \A d \in Calls \ {c} : answers'[d] = answers[d]
      /\ Consistent(c)'
  BY <1>1, AnswerEffect DEF Answers, SuccessPhases
<1>3. Waiting(c)' /\ ReadBy(c, got[c])' /\ ReadBy(c, seen[c])'
  BY <1>1, StateType DEF CheckInv, Waiting, ReadBy
<1> QED BY <1>1, <1>2, <1>3, CallSuffices
        DEF CheckInv, OnlyCall, SameCall, IInv, TypeOK, RetryTypeOK

LEMMA BeginInv ==
  ASSUME IInv, NEW c \in Calls, NEW in \in Inputs, Begin(c, in)
  PROVE  IInv'
<1>1. in.type \in Kinds
  BY DEF Begin, handleCheckStatus, Inputs
<1>2. /\ RetryTypeOK' /\ retry'[c].pc = "check"
      /\ \A d \in Calls \ {c} : retry'[d] = retry[d]
  BY StateType, NewFrameEffect DEF Begin, RetryBegin
<1>3. OutcomeOf(object) \in {"none", "success", "failure"}
  BY DEF OutcomeOf
<1>4. /\ object' = object /\ answers' = answers
      /\ check' = [check EXCEPT ![c] = [pc |-> "get", asked |-> in.type]]
      /\ ctxErr' = [ctxErr EXCEPT ![c] = NoError]
      /\ got' = [got EXCEPT ![c] = None] /\ seen' = [seen EXCEPT ![c] = None]
      /\ before' = [before EXCEPT ![c] = OutcomeOf(object)]
  BY OutcomeIs DEF Begin
<1>5. /\ check'[c].pc = "get" /\ got'[c] = None /\ seen'[c] = None
      /\ before'[c] = OutcomeOf(object)
      /\ \A d \in Calls \ {c} : /\ check'[d] = check[d] /\ got'[d] = got[d] /\ seen'[d] = seen[d]
                                /\ before'[d] = before[d]
  BY <1>4 DEF IInv, TypeOK
<1>6. CheckInv(c)'
  <2>1. Waiting(c)' /\ ReadBy(c, got[c])' /\ ReadBy(c, seen[c])'
    BY <1>2, <1>5 DEF Waiting, ReadBy
  <2>2. Reported(c)' <=> Reported(c)
    BY <1>4 DEF Reported
  <2>3. Consistent(c)'
    BY <1>4, <1>5, <2>2, StateType DEF CheckInv, Consistent
  <2> QED BY <2>1, <2>3 DEF CheckInv
<1>7. /\ ctxErr' \in [Calls -> {NoError, "Canceled"}]
      /\ check' \in [Calls -> [pc : {"idle", "get", "done"}, asked : Kinds \cup {None}]]
      /\ got' \in [Calls -> Objects \cup {None}] /\ seen' \in [Calls -> Objects \cup {None}]
      /\ before' \in [Calls -> {"none", "success", "failure"}]
      /\ answers' \in [Calls -> Seq(Answers)]
  BY <1>1, <1>3, <1>4 DEF IInv, TypeOK, Answers, Phases
<1> QED BY <1>2, <1>4, <1>5, <1>6, <1>7, CallSuffices DEF OnlyCall, SameCall

(* A step that changes the frame of the loop, and may forget what was read *)
(* or keep it.                                                             *)
LEMMA LoopStepInv ==
  ASSUME IInv, NEW c \in Calls, RetryTypeOK', \A d \in Calls \ {c} : retry'[d] = retry[d],
         UNCHANGED <<object, check, before, answers>>,
         ctxErr' = ctxErr \/ ctxErr' = [ctxErr EXCEPT ![c] = "Canceled"],
         got' = got \/ (\E o \in {object, None} : got' = [got EXCEPT ![c] = o]),
         seen' = seen \/ seen' = [seen EXCEPT ![c] = got[c]],
         Waiting(c)'
  PROVE  IInv'
<1>1. /\ got'[c] \in {got[c], object, None} /\ seen'[c] \in {seen[c], got[c]}
      /\ \A d \in Calls \ {c} : got'[d] = got[d] /\ seen'[d] = seen[d]
  BY DEF IInv
<1>2. CheckInv(c)'
  BY <1>1, StateType, QuietStep
<1>3. object \in Objects /\ got[c] \in Objects \cup {None}
  BY StateType
<1>4. /\ ctxErr' \in [Calls -> {NoError, "Canceled"}]
      /\ check' \in [Calls -> [pc : {"idle", "get", "done"}, asked : Kinds \cup {None}]]
      /\ got' \in [Calls -> Objects \cup {None}] /\ seen' \in [Calls -> Objects \cup {None}]
      /\ before' \in [Calls -> {"none", "success", "failure"}]
      /\ answers' \in [Calls -> Seq(Answers)]
  <2>1. ctxErr' \in [Calls -> {NoError, "Canceled"}]
    BY DEF IInv, TypeOK
  <2>2. got' \in [Calls -> Objects \cup {None}] /\ seen' \in [Calls -> Objects \cup {None}]
    BY <1>3 DEF IInv
  <2> QED BY <2>1, <2>2 DEF IInv, TypeOK, Answers, Phases
<1> QED BY <1>1, <1>2, <1>4, CallSuffices DEF OnlyCall, SameCall

LEMMA SendGetInv ==
  ASSUME IInv, NEW c \in Calls, SendGet(c)
  PROVE  IInv'
<1>1. RetryTypeOK /\ retry[c].lastErr \in Errors \cup {NoError}
  BY StateType, FrameType
<1>2. /\ RetryTypeOK' /\ retry[c].pc = "check" /\ retry'[c].pc = "call"
      /\ \A d \in Calls \ {c} : retry'[d] = retry[d]
  BY <1>1, MoveEffect DEF SendGet, RetryAttempt
<1>3. Waiting(c)'
  BY <1>2, StateType DEF CheckInv, Waiting, SendGet
<1> QED BY <1>2, <1>3, LoopStepInv DEF SendGet

LEMMA ServedInv ==
  ASSUME IInv, NEW c \in Calls, Served(c)
  PROVE  IInv'
<1>1. Waiting(c)'
  BY StateType DEF CheckInv, Waiting, Served
<1>2. RetryTypeOK'
  BY StateType DEF Served, RetryTypeOK
<1> QED BY <1>1, <1>2, LoopStepInv DEF Served

(* An attempt returns err: the loop returns it, or there is an attempt     *)
(* left.                                                                   *)
LEMMA ReturnsWaiting ==
  ASSUME IInv, NEW c \in Calls, NEW err \in Errors \cup {NoError}, RetryReturns(c, err),
         check' = check, err = NoError => seen'[c] # None
  PROVE  /\ RetryTypeOK' /\ Waiting(c)'
         /\ \A d \in Calls \ {c} : retry'[d] = retry[d]
<1>1. /\ RetryTypeOK' /\ retry[c].pc = "call" /\ retry'[c].lastErr = err
      /\ retry'[c].attempt = retry[c].attempt
      /\ \/ retry'[c].pc = "returned"
         \/ retry'[c].pc = "backoff" /\ err # NoError /\ retry[c].attempt # retryMaxAttempts
      /\ \A d \in Calls \ {c} : retry'[d] = retry[d]
  BY StateType, RetryReturnsEffect DEF GivesUp
<1>2. retry[c].attempt # retryMaxAttempts => retry[c].attempt < retryMaxAttempts
  <2>1. \A m \in Nat : \A n \in 0 .. m : n # m => n < m
    OBVIOUS
  <2> QED BY <2>1, StateType, FrameType, RetryAssumption
<1> QED BY <1>1, <1>2, StateType DEF CheckInv, Waiting

LEMMA GetAnsweredInv ==
  ASSUME IInv, NEW c \in Calls, GetAnswered(c)
  PROVE  IInv'
<1>1. "NotFound" \in Errors
  BY DEF Errors, ApiErrors
<1>2. CASE RetryReturns(c, NoError) /\ seen' = [seen EXCEPT ![c] = got[c]]
  <2>1. seen'[c] # None
    BY <1>2 DEF IInv, GetAnswered
  <2> QED BY <1>2, <2>1, ReturnsWaiting, LoopStepInv DEF GetAnswered
<1>3. CASE RetryReturns(c, "NotFound") /\ UNCHANGED seen
  <2>1. "NotFound" # NoError
    BY DEF NoError
  <2> QED BY <1>1, <1>3, <2>1, ReturnsWaiting, LoopStepInv DEF GetAnswered
<1> QED BY <1>2, <1>3 DEF GetAnswered

LEMMA GetFailsInv ==
  ASSUME IInv, NEW c \in Calls, GetTimesOut(c) \/ GetRefused(c)
  PROVE  IInv'
<1>1. /\ {"DeadlineExceeded", ctxErr[c]} \subseteq Errors \cup {NoError}
      /\ Rejections \cup NetFaults \subseteq Errors \cup {NoError}
  BY StateType, StatusAssumption DEF StatusAssumption, Errors, NetErrors
<1>2. PICK err \in Errors : err # NoError /\ RetryReturns(c, err)
  BY <1>1 DEF GetTimesOut, GetRefused, GetFails
<1> QED BY <1>2, ReturnsWaiting, LoopStepInv DEF GetTimesOut, GetRefused, GetFails

LEMMA LoopGoesOnInv ==
  ASSUME IInv, NEW c \in Calls, LoopGoesOn(c)
  PROVE  IInv'
<1>1. /\ retry[c].pc = "backoff" => /\ retry[c].lastErr # NoError
                                    /\ retry[c].attempt < retryMaxAttempts
      /\ retry[c].pc # "idle" => check[c].pc = "get"
      /\ RetryTypeOK /\ ctxErr[c] \in Errors \cup {NoError}
  BY StateType DEF CheckInv, Waiting
<1>2. /\ RetryTypeOK' /\ \A d \in Calls \ {c} : retry'[d] = retry[d]
      /\ retry[c].pc \in {"check", "backoff"}
      /\ \/ retry'[c].pc = "returned" /\ retry'[c].lastErr # NoError
         \/ retry'[c].pc = "check"
  BY <1>1, LoopEffect DEF LoopGoesOn
<1>3. Waiting(c)'
  BY <1>1, <1>2 DEF Waiting, LoopGoesOn
<1> QED BY <1>2, <1>3, LoopStepInv DEF LoopGoesOn

LEMMA CancelInv ==
  ASSUME IInv, NEW c \in Calls, Cancel(c)
  PROVE  IInv'
<1>1. Waiting(c)' /\ RetryTypeOK'
  BY StateType DEF CheckInv, Waiting, Cancel, RetryTypeOK
<1> QED BY <1>1, LoopStepInv DEF Cancel

LEMMA RespondInv ==
  ASSUME IInv, NEW c \in Calls, Respond(c)
  PROVE  IInv'
<1> DEFINE answer == IF retry[c].lastErr # NoError THEN "error" ELSE Phase(seen[c])
<1>1. /\ check[c].pc = "get" /\ retry[c].pc = "returned"
      /\ check' = [check EXCEPT ![c].pc = "done"]
      /\ answers' = [answers EXCEPT ![c] = Append(@, answer)]
      /\ retry' = [retry EXCEPT ![c] = NewFrame("idle")]
      /\ UNCHANGED <<object, ctxErr, got, seen, before>>
  BY DEF Respond, Returned, RetryDone, Error
<1>2. /\ answer \in Answers
      /\ answer \in SuccessPhases => Promised(object)
      /\ Reported(c) => answer \in SuccessPhases \cup {"error"}
      /\ before[c] = "success" => answer \in SuccessPhases \cup {"error"}
      /\ before[c] = "failure" => answer \in {"Failed", "error"}
  <2>1. CASE retry[c].lastErr # NoError
    BY <2>1 DEF Answers, SuccessPhases
  <2>2. CASE retry[c].lastErr = NoError
    <3>1. seen[c] # None /\ seen[c] \in Objects /\ ReadBy(c, seen[c])
      BY <1>1, <2>2, StateType DEF CheckInv, Waiting
    <3>2. /\ answer \in Phases
          /\ answer \in SuccessPhases <=> Promised(seen[c])
          /\ OutcomeOf(seen[c]) = "success" => Promised(seen[c])
          /\ OutcomeOf(seen[c]) = "failure" => answer = "Failed"
      BY <2>2, <3>1, PhaseOf DEF ReadBy
    <3> HIDE DEF answer
    <3> QED BY <1>1, <3>1, <3>2 DEF ReadBy, Answers
  <2> QED BY <2>1, <2>2
<1> HIDE DEF answer
<1>3. /\ answers' \in [Calls -> Seq(Answers)]
      /\ \A d \in Calls \ {c} : answers'[d] = answers[d]
      /\ Consistent(c)'
  BY <1>1, <1>2, AnswerEffect
<1>4. /\ RetryTypeOK' /\ retry'[c].pc = "idle"
      /\ \A d \in Calls \ {c} : retry'[d] = retry[d]
  BY <1>1, StateType, NewFrameEffect
<1>5. /\ check' \in [Calls -> [pc : {"idle", "get", "done"}, asked : Kinds \cup {None}]]
      /\ check'[c].pc = "done" /\ \A d \in Calls \ {c} : check'[d] = check[d]
  BY <1>1 DEF IInv, TypeOK
<1>6. Waiting(c)' /\ ReadBy(c, got[c])' /\ ReadBy(c, seen[c])'
  BY <1>1, <1>4, <1>5, StateType DEF CheckInv, Waiting, ReadBy
<1>7. CheckInv(c)' /\ OnlyCall(c)
  BY <1>1, <1>3, <1>4, <1>5, <1>6 DEF CheckInv, OnlyCall, SameCall
<1> QED BY <1>1, <1>3, <1>4, <1>5, <1>7, CallSuffices DEF IInv, TypeOK

LEMMA NextInv == IInv /\ [Next]_vars => IInv'
<1> SUFFICES ASSUME IInv, [Next]_vars PROVE IInv'
  OBVIOUS
<1>1. CASE UNCHANGED vars
  <2>1. TypeOK' /\ \A c \in Calls : SameCall(c)
    BY <1>1 DEF IInv, TypeOK, RetryTypeOK, vars, checkVars, SameCall
  <2> QED BY <1>1, <2>1, KeepsStill DEF IInv, vars, checkVars
<1>2. CASE Controller
  BY <1>2, ControllerInv
<1>3. CASE \E c \in Calls : \E in \in Inputs : Refuse(c, in) \/ Begin(c, in)
  BY <1>3, RefuseInv, BeginInv
<1>4. CASE \E c \in Calls : Handler(c)
  BY <1>4, SendGetInv, GetFailsInv, LoopGoesOnInv, RespondInv DEF Handler
<1>5. CASE \E c \in Calls : Server(c)
  BY <1>5, ServedInv, GetAnsweredInv, GetFailsInv DEF Server
<1>6. CASE \E c \in Calls : Cancel(c)
  BY <1>6, CancelInv
<1> QED BY <1>1, <1>2, <1>3, <1>4, <1>5, <1>6 DEF Next

LEMMA SpecInv == Spec => []IInv
  BY InitInv, NextInv, PTL DEF Spec

----------------------------------------------------------------------------
(* Every object an attempt reads and every phase a check answers is one    *)
(* that the three kinds of object can show (GetMPIJobStatus,               *)
(* GetJobSetStatus, GetJobStatus), and the retry loop counts in range.     *)
THEOREM SpecTypeOK == Spec => []TypeOK
<1>1. IInv => TypeOK
  BY DEF IInv
<1> QED BY <1>1, SpecInv, PTL

(* check_status never contradicts an end it could see: if the object had   *)
(* ended when the check began, the phase it answers is that end, for every *)
(* order of the pods, conditions, attempts and cancellations.              *)
THEOREM SpecFinishedIsReported == Spec => []FinishedIsReported
<1>1. IInv => FinishedIsReported
  BY DEF IInv, CheckInv, Consistent, FinishedIsReported
<1> QED BY <1>1, SpecInv, PTL

(* Once check_status has reported a success, the object does not fail, and *)
(* no later check of the same caller reports another phase: what it        *)
(* answered was promised, and the controllers keep the promise.            *)
THEOREM SpecSuccessIsFinal == Spec => []SuccessIsFinal
<1>1. ASSUME IInv, NEW c \in Calls, NEW i \in DOMAIN answers[c],
             answers[c][i] \in SuccessPhases
      PROVE  /\ Outcome # "failure"
             /\ \A j \in i .. Len(answers[c]) : answers[c][j] \in SuccessPhases \cup {"error"}
  <2>1. /\ answers[c] \in Seq(Answers) /\ Len(answers[c]) \in Nat /\ i \in 1 .. Len(answers[c])
        /\ object \in Objects /\ Coherent(object) /\ Consistent(c)
    <3>1. answers[c] \in Seq(Answers) /\ object \in Objects /\ Coherent(object) /\ CheckInv(c)
      BY <1>1, StateType
    <3>2. Len(answers[c]) \in Nat /\ DOMAIN answers[c] = 1 .. Len(answers[c])
      BY <3>1
    <3> QED BY <3>1, <3>2 DEF CheckInv
  <2>2. Promised(object)
    BY <1>1, <2>1 DEF Consistent, Reported
  <2>3. Outcome # "failure"
    BY <2>1, <2>2, PhaseOf, OutcomeIs
  <2>4. \A j \in i .. Len(answers[c]) : j \in 1 .. Len(answers[c]) /\ i <= j
    BY <2>1
  <2> QED BY <1>1, <2>1, <2>3, <2>4 DEF Consistent
<1>2. IInv => SuccessIsFinal
  BY <1>1 DEF SuccessIsFinal
<1> QED BY <1>2, SpecInv, PTL
=====================================================================================
