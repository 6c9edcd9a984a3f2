----------------------------- MODULE PamProofs -----------------------------
(***************************************************************************)
(* Proofs about Pam: for every number of contexts, handles and messages, a *)
(* handle has one owner, PAM calls that owner back, and what the owner     *)
(* remembers of credentials and sessions is what PAM has done.             *)
(***************************************************************************)
EXTENDS Pam, TLAPS

(* A handle that was not given out yet has no credentials and no session,  *)
(* and a refusal of PAM is never passed over in silence.                   *)
Fresh ==
  \A h \in Handles :
    /\ stage[h] = "unused" => ~established[h] /\ ~session[h]
    /\ refused[h] => threw[h]

Inv == TypeOK /\ OwnedOnce /\ CallsOwnerBack /\ Ledgers /\ Fresh

----------------------------------------------------------------------------
LEMMA NullType == Null \notin Handles /\ Null \notin Objs
  BY PamNullAssumption

LEMMA OutcomeType == \A ok \in BOOLEAN : Outcome(ok) \in {"ok", "error"}
  BY DEF Outcome

LEMMA InitInv == Init => Inv
<1> SUFFICES ASSUME Init PROVE Inv
  OBVIOUS
<1>1. TypeOK
  BY DEF Init, TypeOK
<1>2. OwnedOnce /\ CallsOwnerBack /\ Ledgers
  BY DEF Init, OwnedOnce, CallsOwnerBack, Ledgers
<1>3. Fresh
  BY DEF Init, Fresh
<1> QED
  BY <1>1, <1>2, <1>3 DEF Inv

LEMMA StartInv ==
  ASSUME Inv, NEW o \in Objs, NEW h \in Handles, Start(o, h)
  PROVE  Inv'
<1> USE NullType, OutcomeType DEF Inv, TypeOK, Start, libVars, objVars
<1>1. TypeOK'
  OBVIOUS
<1>2. OwnedOnce'
  BY DEF OwnedOnce
<1>3. CallsOwnerBack'
  BY DEF CallsOwnerBack, OwnedOnce
<1>4. Ledgers'
  BY DEF Ledgers, OwnedOnce, Fresh
<1>5. Fresh'
  BY DEF Fresh, OwnedOnce
<1> QED
  BY <1>1, <1>2, <1>3, <1>4, <1>5

LEMMA CloseInv ==
  ASSUME Inv, NEW o \in Objs, Close(o)
  PROVE  Inv'
<1> USE NullType, OutcomeType DEF Inv, TypeOK, Close, Ending, libVars, objVars
<1>1. TypeOK'
  OBVIOUS
<1>2. OwnedOnce'
  BY DEF OwnedOnce
<1>3. CallsOwnerBack'
  BY DEF CallsOwnerBack, OwnedOnce
<1>4. Ledgers'
  BY DEF Ledgers, OwnedOnce, Fresh
<1>5. Fresh'
  BY DEF Fresh, OwnedOnce
<1> QED
  BY <1>1, <1>2, <1>3, <1>4, <1>5

LEMMA DestroyInv ==
  ASSUME Inv, NEW o \in Objs, Destroy(o)
  PROVE  Inv'
<1> USE NullType, OutcomeType DEF Inv, TypeOK, Destroy, Ending, libVars, objVars
<1>1. TypeOK'
  OBVIOUS
<1>2. OwnedOnce'
  BY DEF OwnedOnce
<1>3. CallsOwnerBack'
  BY DEF CallsOwnerBack, OwnedOnce
<1>4. Ledgers'
  BY DEF Ledgers, OwnedOnce, Fresh
<1>5. Fresh'
  BY DEF Fresh, OwnedOnce
<1> QED
  BY <1>1, <1>2, <1>3, <1>4, <1>5

LEMMA MoveThrowsInv ==
  ASSUME Inv, NEW a \in Objs, NEW b \in Objs, MoveThrows(a, b)
  PROVE  Inv'
<1> USE NullType, OutcomeType DEF Inv, TypeOK, MoveThrows, libVars, objVars
<1>1. TypeOK'
  OBVIOUS
<1>2. OwnedOnce'
  BY DEF OwnedOnce
<1>3. CallsOwnerBack'
  BY DEF CallsOwnerBack, OwnedOnce
<1>4. Ledgers'
  BY DEF Ledgers, OwnedOnce, Fresh
<1>5. Fresh'
  BY DEF Fresh, OwnedOnce
<1> QED
  BY <1>1, <1>2, <1>3, <1>4, <1>5

LEMMA OpenSessionInv ==
  ASSUME Inv, NEW o \in Objs, NEW c \in BOOLEAN, NEW s \in BOOLEAN, NEW d \in BOOLEAN, OpenSession(o, c, s, d)
  PROVE  Inv'
<1> USE NullType, OutcomeType DEF Inv, TypeOK, OpenSession, libVars, objVars
<1>1. TypeOK'
  OBVIOUS
<1>2. OwnedOnce'
  BY DEF OwnedOnce
<1>3. CallsOwnerBack'
  BY DEF CallsOwnerBack, OwnedOnce
<1>4. Ledgers'
  BY DEF Ledgers, OwnedOnce, Fresh
<1>5. Fresh'
  BY DEF Fresh, OwnedOnce
<1> QED
  BY <1>1, <1>2, <1>3, <1>4, <1>5

LEMMA CloseSessionInv ==
  ASSUME Inv, NEW o \in Objs, NEW s \in BOOLEAN, NEW d \in BOOLEAN, CloseSession(o, s, d)
  PROVE  Inv'
<1> USE NullType, OutcomeType DEF Inv, TypeOK, CloseSession, Deleted, libVars, objVars
<1>1. TypeOK'
  OBVIOUS
<1>2. OwnedOnce'
  BY DEF OwnedOnce
<1>3. CallsOwnerBack'
  BY DEF CallsOwnerBack, OwnedOnce
<1>4. Ledgers'
  BY DEF Ledgers, OwnedOnce, Fresh
<1>5. Fresh'
  BY DEF Fresh, OwnedOnce
<1> QED
  BY <1>1, <1>2, <1>3, <1>4, <1>5

(* The two contexts have exchanged their handles; those PAM has been told  *)
(* of the exchange call the new owner, the others are torn.                *)
LEMMA SwapInv ==
  ASSUME Inv, NEW a \in Objs, NEW b \in Objs, NEW n \in 0 .. 2, Swap(a, b, n)
  PROVE  Inv'
<1> USE NullType DEF Inv, TypeOK, Swap, libVars, objVars
<1>0. /\ a # b /\ a \in live /\ b \in live
      /\ pamh'[a] = pamh[b] /\ pamh'[b] = pamh[a] /\ cred'[a] = cred[b] /\ cred'[b] = cred[a]
      /\ \A o \in Objs \ {a, b} : pamh'[o] = pamh[o] /\ cred'[o] = cred[o] /\ code'[o] = code[o]
  BY DEF Exchange, Swapped, Recoded
<1>1. /\ pamh' \in [Objs -> Handles \cup {Null}] /\ cred' \in [Objs -> BOOLEAN]
      /\ code' \in [Objs -> {"unset", "ok", "error"}]
      /\ pamh[b] # Null => code'[a] # "unset"
      /\ pamh[a] # Null => code'[b] # "unset"
  <2>1. pamh' \in [Objs -> Handles \cup {Null}] /\ cred' \in [Objs -> BOOLEAN]
    BY DEF Exchange, Swapped
  <2>2. Swapped(code, a, b) \in [Objs -> {"unset", "ok", "error"}]
    BY DEF Swapped
  <2>3. Outcome(n >= 1) \in {"ok", "error"} /\ Outcome(n = 2) \in {"ok", "error"}
    BY DEF Outcome
  <2>4. code' \in [Objs -> {"unset", "ok", "error"}]
    BY <2>2, <2>3 DEF Recoded
  <2>5. /\ pamh[b] # Null => code'[a] # "unset"
        /\ pamh[a] # Null => code'[b] # "unset"
    BY <1>0, <2>3 DEF Recoded, Swapped, Ledgers
  <2> QED
    BY <2>1, <2>4, <2>5
<1>2. /\ conv' \in [Handles -> Objs \cup {Null}] /\ torn' \in [Handles -> BOOLEAN]
      /\ \A h \in Handles : torn[h] => torn'[h]
      /\ \A h \in Handles : h = pamh[b] => conv'[h] = a \/ torn'[h]
      /\ \A h \in Handles : h = pamh[a] => conv'[h] = b \/ torn'[h]
      /\ \A h \in Handles : h # pamh[a] /\ h # pamh[b] => conv'[h] = conv[h]
  <2>1. conv' \in [Handles -> Objs \cup {Null}] /\ torn' \in [Handles -> BOOLEAN]
    BY DEF Reconvened
  <2>2. \A h \in Handles : torn[h] => torn'[h]
    OBVIOUS
  <2>3. \A h \in Handles : h = pamh[b] => conv'[h] = a \/ torn'[h]
    <3> SUFFICES ASSUME NEW h \in Handles, h = pamh[b] PROVE conv'[h] = a \/ torn'[h]
      OBVIOUS
    <3>1. CASE n = 0
      BY <3>1
    <3>2. CASE n >= 1
      BY <3>2, <1>0 DEF Reconvened, OwnedOnce
    <3> QED
      BY <3>1, <3>2
  <2>4. \A h \in Handles : h = pamh[a] => conv'[h] = b \/ torn'[h]
    <3> SUFFICES ASSUME NEW h \in Handles, h = pamh[a] PROVE conv'[h] = b \/ torn'[h]
      OBVIOUS
    <3>1. h # pamh[b]
      BY <1>0 DEF OwnedOnce
    <3>2. CASE n = 2
      BY <3>1, <3>2 DEF Reconvened
    <3>3. CASE n < 2
      BY <3>3
    <3> QED
      BY <3>2, <3>3
  <2>5. \A h \in Handles : h # pamh[a] /\ h # pamh[b] => conv'[h] = conv[h]
    BY DEF Reconvened
  <2> QED
    BY <2>1, <2>2, <2>3, <2>4, <2>5
<1>3. TypeOK'
  BY <1>0, <1>1, <1>2
<1>4. OwnedOnce'
  BY <1>0, <1>2 DEF OwnedOnce
<1>5. CallsOwnerBack'
  BY <1>0, <1>1, <1>2 DEF CallsOwnerBack, OwnedOnce
<1>6. Ledgers'
  BY <1>0, <1>1 DEF Ledgers
<1>7. Fresh'
  BY DEF Fresh
<1> QED
  BY <1>3, <1>4, <1>5, <1>6, <1>7

(* Whatever is refused in the middle of a conversation, every reply that   *)
(* was allocated for it is given to PAM or released.                       *)
LEMMA RepliesReleased == \A answers : Allocated(answers) \subseteq Released(answers)
  BY DEF Allocated, Released

LEMMA StepInv == Inv /\ [Next]_vars => Inv'
<1> SUFFICES ASSUME Inv, [Next]_vars PROVE Inv'
  OBVIOUS
<1>1. ASSUME NEW o \in Objs, DefaultConstruct(o) PROVE Inv'
  BY <1>1 DEF DefaultConstruct, Inv, TypeOK, OwnedOnce, CallsOwnerBack, Ledgers, Fresh, libVars
<1>2. ASSUME NEW o \in Objs, NEW ok \in BOOLEAN, Call(o, ok) PROVE Inv'
  BY <1>2, OutcomeType DEF Call, Inv, TypeOK, OwnedOnce, CallsOwnerBack, Ledgers, Fresh, libVars
<1>3. ASSUME NEW o \in Objs, NEW answers \in Answers, Converse(o, answers) PROVE Inv'
  <2>1. heap' = heap
    BY <1>3, RepliesReleased DEF Converse, Inv, OwnedOnce
  <2> QED
    BY <1>3, <2>1 DEF Converse, Inv, TypeOK, OwnedOnce, CallsOwnerBack, Ledgers, Fresh, libVars, objVars
<1>4. CASE UNCHANGED vars
  BY <1>4 DEF vars, Inv, TypeOK, OwnedOnce, CallsOwnerBack, Ledgers, Fresh, libVars, objVars
<1> QED
  BY <1>1, <1>2, <1>3, <1>4, StartInv, CloseInv, DestroyInv, SwapInv, MoveThrowsInv, OpenSessionInv,
     CloseSessionInv DEF Next

LEMMA Invariance == Spec => []Inv
  BY InitInv, StepInv, PTL DEF Spec

----------------------------------------------------------------------------
(* The types are kept; an object that does not exist holds nothing. *)
THEOREM TypeCorrect == Spec => []TypeOK
<1>1. Inv => TypeOK
  BY DEF Inv
<1> QED
  BY Invariance, <1>1, PTL

(* A handle has one owner, which is alive, and PAM calls that owner back.  *)
THEOREM OneOwnerCalledBack == Spec => [](OwnedOnce /\ CallsOwnerBack)
<1>1. Inv => OwnedOnce /\ CallsOwnerBack
  BY DEF Inv
<1> QED
  BY Invariance, <1>1, PTL

(* Every handle has one living owner, or was lost by a move that threw,    *)
(* and every reply of a conversation is released.                          *)
THEOREM HandleOwnedOnce == Spec => []OwnedOnce
<1>1. Inv => OwnedOnce
  BY DEF Inv
<1> QED
  BY Invariance, <1>1, PTL

(* Credentials and sessions are what the owner remembers. *)
THEOREM LedgersTrue == Spec => []Ledgers
<1>1. Inv => Ledgers
  BY DEF Inv
<1> QED
  BY Invariance, <1>1, PTL
=============================================================================
