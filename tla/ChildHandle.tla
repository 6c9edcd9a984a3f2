---------------------------- MODULE ChildHandle ----------------------------
(***************************************************************************)
(* What app::process promises, without system calls, loops or signals: a   *)
(* handle holds at most one child; a dead child is collected once, by the  *)
(* handle that holds it, and that handle then tells how the child ended; a *)
(* handle that is being destroyed gives its child up in one way only, by   *)
(* killing it.  Process implements this module (ImplementsHandle).         *)
(***************************************************************************)
CONSTANTS
  Handles, Children,
  Nobody,   \* not one of Children
  Endings,  \* the ways a child can end
  Unknown   \* not one of Endings

VARIABLES
  life,   \* "unborn", "alive", "dead" or "collected"
  ending, \* how a dead child ended
  held,   \* the child a handle holds, or Nobody
  told,   \* the ending a handle tells, or Unknown
  dying,  \* the handles that are being destroyed
  doomed  \* the children a kill has been sent to and that are still alive

vars == <<life, ending, held, told, dying, doomed>>

Init ==
  /\ life = [c \in Children |-> "unborn"]
  /\ ending = [c \in Children |-> Unknown]
  /\ held = [h \in Handles |-> Nobody]
  /\ told = [h \in Handles |-> Unknown]
  /\ dying = {} /\ doomed = {}

(* An empty handle that has nothing to tell takes a new child. *)
Spawn(h, c) ==
  /\ h \notin dying
  /\ held[h] = Nobody /\ told[h] = Unknown /\ life[c] = "unborn"
  /\ life' = [life EXCEPT ![c] = "alive"]
  /\ held' = [held EXCEPT ![h] = c]
  /\ UNCHANGED <<ending, told, dying, doomed>>

End(c, e) ==
  /\ life[c] = "alive"
  /\ life' = [life EXCEPT ![c] = "dead"]
  /\ ending' = [ending EXCEPT ![c] = e]
  /\ doomed' = doomed \ {c}
  /\ UNCHANGED <<held, told, dying>>

(* The holder sends its child a SIGKILL and goes on holding it. *)
Kill(h) ==
  /\ held[h] # Nobody /\ life[held[h]] = "alive"
  /\ doomed' = doomed \cup {held[h]}
  /\ UNCHANGED <<life, ending, held, told, dying>>

(* Only the holder collects, only a dead child, and tells its ending. *)
Collect(h) ==
  /\ held[h] # Nobody /\ life[held[h]] = "dead"
  /\ life' = [life EXCEPT ![held[h]] = "collected"]
  /\ told' = [told EXCEPT ![h] = ending[held[h]]]
  /\ held' = [held EXCEPT ![h] = Nobody]
  /\ UNCHANGED <<ending, dying, doomed>>

(* The program gives a child up: nobody can hold it again. *)
LetGo(h) ==
  /\ h \notin dying /\ held[h] # Nobody
  /\ held' = [held EXCEPT ![h] = Nobody]
  /\ UNCHANGED <<life, ending, told, dying, doomed>>

(* The destructor of a handle starts ... *)
Destroy(h) ==
  /\ h \notin dying
  /\ dying' = dying \cup {h}
  /\ UNCHANGED <<life, ending, held, told, doomed>>

(* ... and ends: with its child killed, if it is not dead already, ... *)
Abandon(h) ==
  /\ h \in dying /\ held[h] # Nobody
  /\ held' = [held EXCEPT ![h] = Nobody]
  /\ doomed' = IF life[held[h]] = "alive" THEN doomed \cup {held[h]} ELSE doomed
  /\ dying' = dying \ {h}
  /\ UNCHANGED <<life, ending, told>>

(* ... or without a child, and what the handle had to tell is forgotten. *)
Forget(h) ==
  /\ h \in dying /\ held[h] = Nobody
  /\ told' = [told EXCEPT ![h] = Unknown]
  /\ dying' = dying \ {h}
  /\ UNCHANGED <<life, ending, held, doomed>>

Exchange(g, h) ==
  /\ {g, h} \cap dying = {}
  /\ held' = [held EXCEPT ![g] = held[h], ![h] = held[g]]
  /\ told' = [told EXCEPT ![g] = told[h], ![h] = told[g]]
  /\ UNCHANGED <<life, ending, dying, doomed>>

Next ==
  \/ \E h \in Handles, c \in Children : Spawn(h, c)
  \/ \E c \in Children, e \in Endings : End(c, e)
  \/ \E h \in Handles : \/ Kill(h) \/ Collect(h) \/ LetGo(h)
                         \/ Destroy(h) \/ Abandon(h) \/ Forget(h)
  \/ \E g, h \in Handles : Exchange(g, h)

Spec == Init /\ [][Next]_vars

=============================================================================
