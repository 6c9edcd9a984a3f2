-------------------------------- MODULE Pam --------------------------------
(***************************************************************************)
(* pam::context (pam/pam.hpp, pam/pam.cpp): a PAM handle with its          *)
(* conversation functions, the record it keeps of the credentials it has   *)
(* established, and the code of its last call.  libpam is external: a      *)
(* handle is started, holds a pointer to the context that answers its      *)
(* questions, and is ended.  Calls are made by one thread; each may fail   *)
(* wherever libpam may report an error.                                    *)
(***************************************************************************)
EXTENDS Integers, Sequences, SequencesExt

CONSTANTS
  Objs,     \* context objects
  Handles,  \* handles pam_start gives out, each used once
  Null,     \* the null pointer
  MaxMsgs   \* bound: messages of one conversation

ASSUME PamNullAssumption == Null \notin Handles /\ Null \notin Objs
ASSUME MaxMsgsAssumption == MaxMsgs \in Nat

VARIABLES
  (* libpam *)
  stage,        \* "unused", "open" or "ended"
  conv,         \* the context a handle calls back
  established,  \* credentials are established
  session,      \* a session is open
  (* the contexts *)
  live, pamh,
  cred, code,   \* _M_cred; _M_code: "unset" (indeterminate), "ok" or "error"
  heap,         \* replies despatch allocated, neither given to PAM nor freed
  (* history *)
  threw,        \* a session call on this handle has thrown
  torn,         \* a set_conv() of this handle has thrown or was not reached
  refused       \* a pam_setcred call on this handle has failed

libVars == <<stage, conv, established, session>>
objVars == <<live, pamh, cred, code>>
vars == <<libVars, objVars, heap, threw, torn, refused>>

Init ==
  /\ stage = [h \in Handles |-> "unused"]
  /\ conv = [h \in Handles |-> Null]
  /\ established = [h \in Handles |-> FALSE]
  /\ session = [h \in Handles |-> FALSE]
  /\ live = {}
  /\ pamh = [o \in Objs |-> Null]
  /\ cred = [o \in Objs |-> FALSE]
  /\ code = [o \in Objs |-> "unset"]
  /\ heap = {}
  /\ threw = [h \in Handles |-> FALSE]
  /\ torn = [h \in Handles |-> FALSE]
  /\ refused = [h \in Handles |-> FALSE]

----------------------------------------------------------------------------
Outcome(ok) == IF ok THEN "ok" ELSE "error"

(* Life of a context.  pam_start failing leaves nothing behind.            *)

DefaultConstruct(o) ==
  /\ o \notin live
  /\ live' = live \cup {o}
  /\ UNCHANGED <<libVars, pamh, cred, code, heap, threw, torn, refused>>

Start(o, h) ==
  /\ o \notin live /\ stage[h] = "unused"
  /\ stage' = [stage EXCEPT ![h] = "open"]
  /\ conv' = [conv EXCEPT ![h] = o]
  /\ live' = live \cup {o}
  /\ pamh' = [pamh EXCEPT ![o] = h]
  /\ code' = [code EXCEPT ![o] = "ok"]
  /\ UNCHANGED <<established, session, cred, heap, threw, torn, refused>>

(* Mutant: a close() that keeps its pointer. *)
EndingKeepsPointer(o) ==
  IF pamh[o] = Null THEN UNCHANGED <<stage, pamh>>
  ELSE /\ stage' = [stage EXCEPT ![pamh[o]] = "ended"]
       /\ UNCHANGED pamh

(* close(): pam_end, once. *)
Ending(o) ==
  IF pamh[o] = Null THEN UNCHANGED <<stage, pamh>>
  ELSE /\ stage' = [stage EXCEPT ![pamh[o]] = "ended"]
       /\ pamh' = [pamh EXCEPT ![o] = Null]

Close(o) ==
  /\ o \in live
  /\ Ending(o)
  /\ UNCHANGED <<conv, established, session, live, cred, code, heap, threw, torn, refused>>

(* Mutant: a destructor that leaves the handle to libpam. *)
DestroyForgets(o) ==
  /\ o \in live
  /\ live' = live \ {o}
  /\ pamh' = [pamh EXCEPT ![o] = Null]
  /\ cred' = [cred EXCEPT ![o] = FALSE]
  /\ code' = [code EXCEPT ![o] = "unset"]
  /\ UNCHANGED <<libVars, heap, threw, torn, refused>>

Destroy(o) ==
  /\ o \in live
  /\ Ending(o)
  /\ live' = live \ {o}
  /\ cred' = [cred EXCEPT ![o] = FALSE]
  /\ code' = [code EXCEPT ![o] = "unset"]
  /\ UNCHANGED <<conv, established, session, heap, threw, torn, refused>>

Swapped(f, a, b) == [f EXCEPT ![a] = f[b], ![b] = f[a]]

(* The members swap() exchanges; _M_code is in Recoded. *)
Exchange(a, b) == pamh' = Swapped(pamh, a, b) /\ cred' = Swapped(cred, a, b)

(* Mutant: swap() does not register the contexts again. *)
ReconvenedNever(a, b, n) == conv

(* The registrations after set_conv() has returned for n of a and b, which *)
(* now hold each other's handle.                                           *)
Reconvened(a, b, n) ==
  [h \in Handles |-> CASE n >= 1 /\ h = pamh[b] -> a
                       [] n = 2 /\ h = pamh[a]  -> b
                       [] OTHER                 -> conv[h]]

(* The codes: exchanged, then overwritten by the calls of pam_set_item.    *)
Recoded(a, b, n) ==
  [o \in Objs |-> CASE o = a /\ pamh[b] # Null            -> Outcome(n >= 1)
                    [] o = b /\ pamh[a] # Null /\ n >= 1 -> Outcome(n = 2)
                    [] OTHER                             -> Swapped(code, a, b)[o]]

(* Move assignment and swap: pam_set_item may fail for either context, and *)
(* set_conv() then throws before the next one is registered.               *)
Swap(a, b, n) ==
  /\ a \in live /\ b \in live /\ a # b
  /\ n = 0 => pamh[b] # Null
  /\ n = 1 => pamh[a] # Null
  /\ Exchange(a, b)
  /\ code' = Recoded(a, b, n)
  /\ conv' = Reconvened(a, b, n)
  /\ torn' = [h \in Handles |->
                torn[h] \/ (n < 2 /\ h = pamh[a]) \/ (n = 0 /\ h = pamh[b])]
  /\ UNCHANGED <<stage, established, session, live, heap, threw, refused>>

(* Move construction of a from b is DefaultConstruct and Swap; but when it *)
(* throws, a is no object yet, and the handle goes with its members.       *)
MoveThrows(a, b) ==
  /\ a \notin live /\ b \in live /\ pamh[b] # Null
  /\ pamh' = [pamh EXCEPT ![b] = Null]
  /\ cred' = [cred EXCEPT ![b] = FALSE]
  /\ code' = [code EXCEPT ![b] = "unset"]
  /\ torn' = [torn EXCEPT ![pamh[b]] = TRUE]
  /\ UNCHANGED <<libVars, live, heap, threw, refused>>

----------------------------------------------------------------------------
(* Calls on a handle.                                                      *)

(* get, insert, erase, authenticate, change_pass: _M_code and nothing else *)
(* of this model.                                                          *)
Call(o, ok) ==
  /\ pamh[o] # Null
  /\ code' = [code EXCEPT ![o] = Outcome(ok)]
  /\ UNCHANGED <<libVars, live, pamh, cred, heap, threw, torn, refused>>

(* What becomes of the handle's credentials when rmcred() is called for a  *)
(* context whose _M_cred is c; pam_setcred succeeds if ok.                 *)
Deleted(h, c, ok) == [established EXCEPT ![h] = @ /\ ~(c /\ ok)]

(* Mutant: the failed session leaves the credentials where they are. *)
OpenSessionKeepsCred(o, credOk, sessionOk, deleteOk) ==
  LET h == pamh[o] IN
  /\ h # Null
  /\ established' = IF credOk THEN [established EXCEPT ![h] = TRUE] ELSE established
  /\ session' = [session EXCEPT ![h] = @ \/ (credOk /\ sessionOk)]
  /\ cred' = [cred EXCEPT ![o] = credOk /\ sessionOk]
  /\ code' = [code EXCEPT ![o] = Outcome(credOk /\ sessionOk)]
  /\ threw' = [threw EXCEPT ![h] = @ \/ ~(credOk /\ sessionOk)]
  /\ refused' = [refused EXCEPT ![h] = @ \/ ~credOk]
  /\ UNCHANGED <<stage, conv, live, pamh, heap, torn>>

OpenSession(o, credOk, sessionOk, deleteOk) ==
  LET h == pamh[o] IN
  /\ h # Null
  /\ established' = CASE ~credOk               -> established
                      [] credOk /\ sessionOk   -> [established EXCEPT ![h] = TRUE]
                      [] credOk /\ ~sessionOk  -> [established EXCEPT ![h] = ~deleteOk]
  /\ session' = [session EXCEPT ![h] = @ \/ (credOk /\ sessionOk)]
  /\ cred' = [cred EXCEPT ![o] = credOk /\ sessionOk]
  /\ code' = [code EXCEPT ![o] = Outcome(credOk /\ sessionOk)]
  /\ threw' = [threw EXCEPT ![h] = @ \/ ~(credOk /\ sessionOk)]
  /\ refused' = [refused EXCEPT ![h] = @ \/ ~credOk \/ (~sessionOk /\ ~deleteOk)]
  /\ UNCHANGED <<stage, conv, live, pamh, heap, torn>>

(* The credentials are given back even if the session did not close. *)
CloseSession(o, sessionOk, deleteOk) ==
  LET h == pamh[o]
      failed == ~sessionOk \/ (cred[o] /\ ~deleteOk) IN
  /\ h # Null
  /\ session' = [session EXCEPT ![h] = @ /\ ~sessionOk]
  /\ established' = Deleted(h, cred[o], deleteOk)
  /\ cred' = [cred EXCEPT ![o] = FALSE]
  /\ code' = [code EXCEPT ![o] = Outcome(~failed)]
  /\ threw' = [threw EXCEPT ![h] = @ \/ failed]
  /\ refused' = [refused EXCEPT ![h] = @ \/ (cred[o] /\ ~deleteOk)]
  /\ UNCHANGED <<stage, conv, live, pamh, heap, torn>>

----------------------------------------------------------------------------
(* despatch(): the conversation.  For each message a function of the       *)
(* context answers (a reply is allocated), declines, or says nothing (no   *)
(* function is set, or the message needs no reply).                        *)

Answers == BoundedSeq({"answered", "declined", "silent"}, MaxMsgs)

(* The message at which the loop stops, 0 if it does not. *)
Stop(answers) == SelectInSeq(answers, LAMBDA a : a = "declined")

Allocated(answers) ==
  {i \in 1 .. (IF Stop(answers) = 0 THEN Len(answers) ELSE Stop(answers)) :
     answers[i] = "answered"}

(* Given to PAM with the array, or freed with it. *)
Released(answers) ==
  IF Stop(answers) = 0 THEN Allocated(answers) ELSE Allocated(answers) \cap 1 .. Stop(answers)

(* PAM asks in the middle of a call of o; conv[pamh[o]] answers. *)
Converse(o, answers) ==
  /\ pamh[o] # Null
  /\ heap' = heap \cup (Allocated(answers) \ Released(answers))
  /\ UNCHANGED <<libVars, objVars, threw, torn, refused>>

Next ==
  \E o \in Objs :
    \/ DefaultConstruct(o)
    \/ \E h \in Handles : Start(o, h)
    \/ Close(o) \/ Destroy(o)
    \/ \E b \in Objs, n \in 0 .. 2 : Swap(o, b, n)
    \/ \E b \in Objs : MoveThrows(o, b)
    \/ \E ok \in BOOLEAN : Call(o, ok)
    \/ \E c, s, d \in BOOLEAN : OpenSession(o, c, s, d)
    \/ \E s, d \in BOOLEAN : CloseSession(o, s, d)
    \/ \E answers \in Answers : Converse(o, answers)

Spec == Init /\ [][Next]_vars

----------------------------------------------------------------------------
(* Types; and an object that does not exist holds nothing. *)
TypeOK ==
  /\ stage \in [Handles -> {"unused", "open", "ended"}]
  /\ conv \in [Handles -> Objs \cup {Null}]
  /\ established \in [Handles -> BOOLEAN] /\ session \in [Handles -> BOOLEAN]
  /\ live \subseteq Objs
  /\ pamh \in [Objs -> Handles \cup {Null}]
  /\ cred \in [Objs -> BOOLEAN] /\ code \in [Objs -> {"unset", "ok", "error"}]
  /\ heap \subseteq 1 .. MaxMsgs
  /\ threw \in [Handles -> BOOLEAN]
  /\ torn \in [Handles -> BOOLEAN] /\ refused \in [Handles -> BOOLEAN]
  /\ \A o \in Objs \ live : pamh[o] = Null /\ ~cred[o] /\ code[o] = "unset"

(* A handle has one owner, which exists, and is not ended under it; it is  *)
(* never ended only if a move constructor has thrown.  No reply outlives   *)
(* the conversation it was allocated for.                                  *)
OwnedOnce ==
  /\ heap = {}
  /\ \A a \in Objs : pamh[a] # Null =>
       /\ a \in live /\ stage[pamh[a]] = "open"
       /\ \A b \in Objs : pamh[b] = pamh[a] => b = a
  /\ \A h \in Handles : stage[h] = "open" /\ ~torn[h] => \E o \in Objs : pamh[o] = h

(* PAM calls back the context that owns the handle, wherever the context   *)
(* has been moved: otherwise despatch would use a destroyed object.        *)
CallsOwnerBack ==
  \A o \in Objs : pamh[o] # Null /\ ~torn[pamh[o]] => conv[pamh[o]] = o

(* Unless PAM refused a pam_setcred call, _M_cred says whether credentials *)
(* are established, through moves, failed sessions and repeated calls; and *)
(* as long as no session call has thrown, a session is open exactly while  *)
(* credentials are established for it.  pam_end is given the code of a     *)
(* call, never the indeterminate value that _M_code has in a default       *)
(* constructed context.                                                    *)
Ledgers ==
  \A o \in Objs : pamh[o] # Null =>
    LET h == pamh[o] IN
    /\ code[o] # "unset"
    /\ cred[o] => established[h]
    /\ established[h] => cred[o] \/ refused[h]
    /\ ~threw[h] => (session[h] <=> established[h])
=============================================================================
