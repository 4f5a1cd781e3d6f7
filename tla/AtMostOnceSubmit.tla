---------------------------- MODULE AtMostOnceSubmit ----------------------------
(***************************************************************************)
(* What the submit tools promise.  A call brings objects into being at one *)
(* id only, where there is none, and never replaces another's; a second    *)
(* time only when the first object was removed meanwhile.  It is answered  *)
(* at most once, and "ok" only when it has made its object; "error" says   *)
(* nothing: the object may exist, or appear later.                         *)
(***************************************************************************)
CONSTANTS Calls, Ids, None

VARIABLES
  cluster,  \* cluster[id]: the call that made the object there, or None
  made,     \* made[c]: the id at which c has made an object, or None
  answer    \* answer[c]: "ok", "error", or None yet

Init == /\ cluster = [id \in Ids |-> None]
        /\ made    = [c \in Calls |-> None]
        /\ answer  = [c \in Calls |-> None]

Create(c, id) == /\ made[c] \in {None, id}
                 /\ cluster[id] = None
                 /\ cluster' = [cluster EXCEPT ![id] = c]
                 /\ made'    = [made EXCEPT ![c] = id]
                 /\ UNCHANGED answer

\* Somebody removes the object.
Remove(id) == /\ cluster[id] # None
              /\ cluster' = [cluster EXCEPT ![id] = None]
              /\ UNCHANGED <<made, answer>>

AnswerOk(c) == /\ answer[c] = None
               /\ made[c] # None
               /\ answer' = [answer EXCEPT ![c] = "ok"]
               /\ UNCHANGED <<cluster, made>>

AnswerError(c) == /\ answer[c] = None
                  /\ answer' = [answer EXCEPT ![c] = "error"]
                  /\ UNCHANGED <<cluster, made>>

Next == \/ \E c \in Calls : \/ \E id \in Ids : Create(c, id)
                            \/ AnswerOk(c)
                            \/ AnswerError(c)
        \/ \E id \in Ids : Remove(id)

Spec == Init /\ [][Next]_<<cluster, made, answer>>
=============================================================================
