--------------------------- MODULE ProcessProofs ---------------------------
(***************************************************************************)
(* Proofs about Process: its safety invariants hold for every number of    *)
(* objects and children, every return value of a child and every           *)
(* environment.                                                            *)
(***************************************************************************)
EXTENDS Process, TLAPS

----------------------------------------------------------------------------
(* The inductive invariant: what the listed invariants need to know of the *)
(* storage of objects and of the place the thread has reached.             *)

(* An object without storage, and one that never forked, is blank. *)
Blank(o) == id[o] = NoChild /\ ~active[o] /\ ~group[o] /\ code[o] = NoCode

Storage ==
  \A o \in Objs :
    /\ obj[o] = "making" <=> at = "forked" /\ cur = o
    /\ obj[o] = "none" \/ id[o] = NoChild => Blank(o)
    /\ id[o] \in Pids => state[id[o]] # "free"
    /\ obj[o] = "dying" => at # "idle" /\ cur = o

Place ==
  /\ at = "forked" => /\ id[cur] \in Pids /\ Unreaped(id[cur])
                      /\ ~active[cur] /\ ~group[cur]
  /\ at \notin {"idle", "forked"} => obj[cur] \in {"live", "dying"}
  /\ at \in {"arm", "armed", "asleep", "terminate", "kill", "gone"} => active[cur]
  /\ at \in {"terminate", "kill", "gone"} => obj[cur] = "dying"
  /\ at = "poll" => why \in {"running", "can_join", "woken", "dtor"}
  /\ at = "poll" /\ why = "dtor" => obj[cur] = "dying"
  /\ at = "poll" /\ why = "woken" /\ ~active[cur] => ~is_none(code[cur])
  /\ at = "idle" => dur = "positive"
  /\ obj[cur] = "dying" => at # "join" /\ why # "running" /\ dur = "positive"

(* Inside the loops: until it is reaped, the child of cur is waitable. *)
Loop ==
  \A o \in Objs : active[o] /\ InLoop(o) => id[o] \in Pids /\ (Unreaped(id[o]) => Waitable(o))

(* The status word of a dead child says how it ended. *)
Ended == \A p \in Pids : state[p] \in {"zombie", "reaped"} => ~is_none(set_code(fate[p]))

----------------------------------------------------------------------------
(* set_code of a status word is an exit_code. *)
LEMMA SetCodeType == \A f \in Fates : set_code(f) \in ExitCodes
  BY DEF Fates, set_code, ExitCodes

(* The status of a child that calls exit() is a status word: its value     *)
(* fits in eight bits whatever the child's function returned.              *)
LEMMA FateType ==
  /\ \A n \in Int : Exited(n) \in Fates
  /\ \A s \in Signals : Signaled(s) \in Fates
  BY DEF Exited, Signaled, Fates, Signals, SIGKILL, SIGTERM

LEMMA NoneType == NoFate \in Fates /\ NoCode \in ExitCodes
  BY DEF NoFate, Fates, NoCode, ExitCodes

LEMMA InitTypeOK == Init => TypeOK
<1> SUFFICES ASSUME Init PROVE TypeOK
  OBVIOUS
<1> USE NoneType DEF Init
<1>1. fate \in [Pids -> Fates] /\ code \in [Objs -> ExitCodes]
  OBVIOUS
<1>2. pend \in [Pids -> SUBSET Signals]
  OBVIOUS
<1>3. id \in [Objs -> Pids \cup {NoChild}]
  OBVIOUS
<1> QED BY <1>1, <1>2, <1>3 DEF TypeOK, Places, Callers

LEMMA StartTypeOK == TypeOK /\ Start => TypeOK'
<1> SUFFICES ASSUME TypeOK, NEW o \in Objs,
                    \/ DefaultConstruct(o)
                    \/ \E p \in Pids, kind \in {"plain", "group"} : Fork(o, p, kind)
                    \/ \E b \in Objs : Swap(o, b)
                    \/ Detach(o)
                    \/ \E s \in Signals : Signal(o, s)
                    \/ Running(o)
                    \/ Join(o)
                    \/ \E d \in Durations : CanJoin(o, d)
                    \/ Destroy(o)
             PROVE  TypeOK'
  BY DEF Start
<1> USE DEF TypeOK, kernelVars, objVars, joinVars, Places, Callers
<1>1. CASE DefaultConstruct(o) BY <1>1 DEF DefaultConstruct
<1>2. ASSUME NEW p \in Pids, NEW kind \in {"plain", "group"}, Fork(o, p, kind)
      PROVE  TypeOK'
  BY <1>2 DEF Fork
<1>3. ASSUME NEW b \in Objs, Swap(o, b) PROVE TypeOK'
  BY <1>3 DEF Swap, Exchange, Swapped
<1>4. CASE Detach(o) BY <1>4 DEF Detach
<1>5. ASSUME NEW s \in Signals, Signal(o, s) PROVE TypeOK'
  BY <1>5 DEF Signal, Deliver
<1>6. CASE Running(o) BY <1>6 DEF Running, Call
<1>7. CASE Join(o) BY <1>7 DEF Join, Call
<1>8. ASSUME NEW d \in Durations, CanJoin(o, d) PROVE TypeOK'
  BY <1>8, DurationsAssumption DEF CanJoin, Call
<1>9. CASE Destroy(o) BY <1>9 DEF Destroy, Call
<1> QED BY <1>1, <1>2, <1>3, <1>4, <1>5, <1>6, <1>7, <1>8, <1>9

LEMMA ReleaseTypeOK ==
  ASSUME TypeOK, Release(cur)
  PROVE  /\ obj' \in [Objs -> {"none", "making", "live", "dying"}]
         /\ id' \in [Objs -> Pids \cup {NoChild}]
         /\ active' \in [Objs -> BOOLEAN]
         /\ group' \in [Objs -> BOOLEAN]
         /\ code' \in [Objs -> ExitCodes]
  BY DEF TypeOK, Release, NoCode, ExitCodes

LEMMA DeliverType ==
  ASSUME TypeOK, NEW o \in Objs, NEW s \in Signals, Deliver(o, s)
  PROVE  pend' \in [Pids -> SUBSET Signals]
  BY DEF TypeOK, Deliver

LEMMA ContinueTypeOK == TypeOK /\ (Continue \/ SleepElapses) => TypeOK'
<1> SUFFICES ASSUME TypeOK, Continue \/ SleepElapses PROVE TypeOK'
  OBVIOUS
<1> USE DEF TypeOK, kernelVars, objVars, joinVars, Places, Callers, Finished, Continues
<1>1. CASE ConstructorThrows BY <1>1, ReleaseTypeOK DEF ConstructorThrows
<1>2. CASE ConstructorReturns BY <1>2 DEF ConstructorReturns
<1>3. CASE WaitReaps
  <2>1. fate[id[cur]] \in Fates BY <1>3 DEF WaitReaps, Waitable
  <2>2. set_code(fate[id[cur]]) \in ExitCodes BY <2>1, SetCodeType
  <2> QED BY <1>3, <2>2 DEF WaitReaps
<1>4. CASE WaitFindsNone BY <1>4 DEF WaitFindsNone
<1>5. CASE JoinReturns BY <1>5 DEF JoinReturns
<1>6. CASE RunningTrue BY <1>6 DEF RunningTrue
<1>7. CASE RunningFalse BY <1>7, ReleaseTypeOK DEF RunningFalse, CanJoinReturns
<1>8. CASE InstallHandler BY <1>8 DEF InstallHandler
<1>9. CASE EnterSleep BY <1>9 DEF EnterSleep
<1>10. CASE SleepThrows BY <1>10 DEF SleepThrows
<1>11. CASE RestoreHandler BY <1>11, ReleaseTypeOK DEF RestoreHandler, CanJoinReturns
<1>12. CASE DtorTerminates
  BY <1>12, DeliverType DEF DtorTerminates, Signals
<1>13. CASE DtorKills BY <1>13, ReleaseTypeOK, DeliverType DEF DtorKills, Signals
<1>14. CASE SleepElapses BY <1>14 DEF SleepElapses
<1> QED BY <1>1, <1>2, <1>3, <1>4, <1>5, <1>6, <1>7, <1>8, <1>9, <1>10, <1>11,
           <1>12, <1>13, <1>14 DEF Continue

LEMMA InterruptTypeOK ==
  ASSUME TypeOK, Interrupt \/ UNCHANGED <<at, why, joinVars>>
  PROVE  /\ at' \in Places /\ why' \in Callers
         /\ dur' \in {"positive", "negative"}
         /\ saved' \in {"default", "noop"}
         /\ joined' \in BOOLEAN
  BY DEF TypeOK, Interrupt, Finished, joinVars, Places, Callers

LEMMA DiesTypeOK ==
  ASSUME TypeOK, NEW p \in Pids, NEW how \in Fates, Dies(p, how)
  PROVE  TypeOK'
<1>1. Interrupt \/ UNCHANGED <<at, why, joinVars>> BY DEF Dies, SigChld
<1> QED BY <1>1, InterruptTypeOK DEF TypeOK, Dies, objVars

LEMMA ChildrenTypeOK == TypeOK /\ (Children \/ AppSignal) => TypeOK'
<1> SUFFICES ASSUME TypeOK, Children \/ AppSignal PROVE TypeOK'
  OBVIOUS
<1>1. CASE AppSignal
  BY <1>1, InterruptTypeOK DEF AppSignal, TypeOK, kernelVars, objVars
<1>2. ASSUME NEW p \in Pids,
             \/ \E r \in Returns : ChildReturns(p, r)
             \/ ChildThrows(p)
             \/ \E s \in Signals : ChildKilled(p, s)
             \/ ChildIgnores(p)
             \/ ChildExecs(p)
             \/ ChildElevates(p)
      PROVE  TypeOK'
  <2>1. ASSUME NEW r \in Returns, ChildReturns(p, r) PROVE TypeOK'
    BY <2>1, ReturnsAssumption, FateType, DiesTypeOK DEF ChildReturns
  <2>2. CASE ChildThrows(p) BY <2>2, FateType, DiesTypeOK DEF ChildThrows
  <2>3. ASSUME NEW s \in Signals, ChildKilled(p, s) PROVE TypeOK'
    BY <2>3, FateType, DiesTypeOK DEF ChildKilled
  <2> USE DEF TypeOK, objVars, joinVars
  <2>4. CASE ChildIgnores(p) BY <2>4 DEF ChildIgnores
  <2>5. CASE ChildExecs(p) BY <2>5 DEF ChildExecs
  <2>6. CASE ChildElevates(p) BY <2>6 DEF ChildElevates
  <2> QED BY <1>2, <2>1, <2>2, <2>3, <2>4, <2>5, <2>6
<1> QED BY <1>1, <1>2 DEF Children

LEMMA StutterTypeOK == TypeOK /\ (ProgramEnded \/ UNCHANGED vars) => TypeOK'
  BY DEF ProgramEnded, TypeOK, vars, kernelVars, objVars, joinVars

(* Every variable keeps its type. *)
THEOREM TypeCorrect == Spec => []TypeOK
<1>1. TypeOK /\ [Next]_vars => TypeOK'
  BY StartTypeOK, ContinueTypeOK, ChildrenTypeOK, StutterTypeOK DEF Next
<1> QED BY InitTypeOK, <1>1, PTL DEF Spec

----------------------------------------------------------------------------
(* The inductive step, without TypeOK.  Each action is taken on its own;   *)
(* what it does to the invariant is decided by the members it assigns.     *)

Inv ==
  /\ Storage /\ Place /\ Loop /\ Ended
  /\ OwnedUnreaped /\ SoleOwner /\ GroupLed /\ ExitCodeTruth /\ JoinVerdict

LEMMA InitInv == Init => Inv
  BY PidsAssumption DEF Init, Inv, Storage, Place, Loop, Ended, Blank, InLoop, OwnedUnreaped, SoleOwner,
     GroupLed, ExitCodeTruth, JoinVerdict, is_none, NoCode

LEMMA StartInv == TypeOK /\ TypeOK' /\ Inv /\ Start => Inv'
<1> SUFFICES ASSUME TypeOK, TypeOK', Inv, NEW o \in Objs,
                    \/ DefaultConstruct(o)
                    \/ \E p \in Pids, kind \in {"plain", "group"} : Fork(o, p, kind)
                    \/ \E b \in Objs : Swap(o, b)
                    \/ Detach(o)
                    \/ \E s \in Signals : Signal(o, s)
                    \/ Running(o)
                    \/ Join(o)
                    \/ \E d \in Durations : CanJoin(o, d)
                    \/ Destroy(o)
             PROVE  Inv'
  BY DEF Start
<1> USE PidsAssumption DEF TypeOK, kernelVars, objVars, joinVars, Inv, Storage, Place, Loop, Ended, Blank, InLoop,
        OwnedUnreaped, SoleOwner, GroupLed, ExitCodeTruth, JoinVerdict, Unreaped, Waitable, is_none
<1>1. CASE DefaultConstruct(o) BY <1>1 DEF DefaultConstruct
<1>2. ASSUME NEW p \in Pids, NEW kind \in {"plain", "group"}, Fork(o, p, kind)
      PROVE  Inv'
  BY <1>2 DEF Fork, NoCode
<1>3. ASSUME NEW b \in Objs, Swap(o, b) PROVE Inv'
  (* Swap renames the objects: what holds of the renamed object held of    *)
  (* the one it was renamed from.                                          *)
  <2> DEFINE from(x) == IF x = o THEN b ELSE IF x = b THEN o ELSE x
  <2>1. \A x \in Objs : from(x) \in Objs /\ \A y \in Objs : from(x) = from(y) => x = y
    OBVIOUS
  <2>2. \A x \in Objs : /\ id'[x] = id[from(x)] /\ active'[x] = active[from(x)]
                        /\ group'[x] = group[from(x)] /\ code'[x] = code[from(x)]
    BY <1>3 DEF Swap, Exchange, Swapped
  <2>3. \A x \in Objs : obj'[x] = obj[x] /\ (obj[from(x)] = obj[x])
    BY <1>3 DEF Swap, Exchange, Swapped
  <2>4. /\ at = "idle" /\ UNCHANGED <<state, fate, leader, at, cur, why, dur, joined>>
    BY <1>3 DEF Swap, Exchange, Swapped
  <2> HIDE DEF from
  <2>5. Storage' /\ Ended' BY <2>1, <2>2, <2>3, <2>4
  <2>6. Place' /\ Loop' /\ JoinVerdict' BY <2>1, <2>2, <2>3, <2>4
  <2>7. OwnedUnreaped' BY <2>1, <2>2, <2>3, <2>4
  <2>8. SoleOwner' BY <2>1, <2>2, <2>3, <2>4
  <2>9. GroupLed' BY <2>1, <2>2, <2>3, <2>4
  <2>10. ExitCodeTruth' BY <2>1, <2>2, <2>3, <2>4
  <2> QED BY <2>5, <2>6, <2>7, <2>8, <2>9, <2>10
<1>4. CASE Detach(o) BY <1>4 DEF Detach
<1>5. ASSUME NEW s \in Signals, Signal(o, s) PROVE Inv'
  BY <1>5 DEF Signal
<1>6. CASE Running(o) BY <1>6 DEF Running, Call
<1>7. CASE Join(o) BY <1>7 DEF Join, Call
<1>8. ASSUME NEW d \in Durations, CanJoin(o, d) PROVE Inv'
  BY <1>8 DEF CanJoin, Call
<1>9. CASE Destroy(o) BY <1>9 DEF Destroy, Call
<1> QED BY <1>1, <1>2, <1>3, <1>4, <1>5, <1>6, <1>7, <1>8, <1>9

LEMMA ContinueInv == TypeOK /\ TypeOK' /\ Inv /\ (Continue \/ SleepElapses) => Inv'
<1> SUFFICES ASSUME TypeOK, TypeOK', Inv, Continue \/ SleepElapses PROVE Inv'
  OBVIOUS
<1> USE PidsAssumption DEF TypeOK, kernelVars, objVars, joinVars, Inv, Storage, Place, Loop, Ended, Blank, InLoop,
        OwnedUnreaped, SoleOwner, GroupLed, ExitCodeTruth, JoinVerdict, Unreaped, Waitable, is_none,
        Finished, Continues
<1>1. CASE ConstructorThrows BY <1>1 DEF ConstructorThrows, Release, NoCode
<1>2. CASE ConstructorReturns BY <1>2 DEF ConstructorReturns
<1>3. CASE WaitReaps
  <2>1. /\ at \in {"poll", "join"} /\ active[cur] /\ id[cur] \in Pids
        /\ state[id[cur]] = "zombie" /\ state' = [state EXCEPT ![id[cur]] = "reaped"]
        /\ leader' = [leader EXCEPT ![id[cur]] = FALSE]
        /\ code' = [code EXCEPT ![cur] = set_code(fate[id[cur]])]
        /\ UNCHANGED <<fate, obj, id, active, group, at, cur, why, dur, joined>>
    BY <1>3 DEF WaitReaps
  (* No other object knows the child. *)
  <2>2. \A o \in Objs : o # cur => id[o] # id[cur]
    BY <2>1
  <2>3. \A o \in Objs : o # cur /\ id[o] \in Pids =>
          state'[id[o]] = state[id[o]] /\ leader'[id[o]] = leader[id[o]] /\ code'[o] = code[o]
    <3> TAKE o \in Objs
    <3> HAVE o # cur /\ id[o] \in Pids
    <3>1. id[o] # id[cur] BY <2>2
    <3>2. state'[id[o]] = state[id[o]] BY <2>1, <3>1
    <3>3. leader'[id[o]] = leader[id[o]] BY <2>1, <3>1
    <3>4. code'[o] = code[o] BY <2>1
    <3> QED BY <3>2, <3>3, <3>4
  <2>4. state'[id[cur]] = "reaped" /\ code'[cur] = set_code(fate[id[cur]])
    BY <2>1
  <2>5. ~is_none(set_code(fate[id[cur]]))
    BY <2>1 DEF Ended
  <2>6. Storage' /\ Ended' BY <2>1, <2>2, <2>3, <2>4
  <2>7. Place' /\ JoinVerdict' BY <2>1
  <2>8. Loop' BY <2>1, <2>4
  <2>9. OwnedUnreaped' BY <2>1, <2>2, <2>3
  <2>10. SoleOwner' BY <2>1
  <2>11. GroupLed' BY <2>1, <2>2, <2>3
  <2>12. ExitCodeTruth'
    <3> TAKE o \in Objs
    <3>1. CASE o = cur BY <3>1, <2>1, <2>4, <2>5
    <3>2. CASE o # cur BY <3>2, <2>1, <2>2, <2>3
    <3> QED BY <3>1, <3>2
  <2> QED BY <2>6, <2>7, <2>8, <2>9, <2>10, <2>11, <2>12
<1>4. CASE WaitFindsNone BY <1>4 DEF WaitFindsNone
<1>5. CASE JoinReturns BY <1>5 DEF JoinReturns
<1>6. CASE RunningTrue BY <1>6 DEF RunningTrue
<1>7. CASE RunningFalse
  <2> USE <1>7 DEF RunningFalse
  <2>1. CASE why = "can_join" BY <2>1 DEF CanJoinReturns, Release, NoCode
  <2>2. CASE why = "woken" BY <2>2
  <2>3. CASE why = "dtor" BY <2>3 DEF Release, NoCode
  <2>4. CASE why = "running" BY <2>4
  <2> QED BY <2>1, <2>2, <2>3, <2>4
<1>8. CASE InstallHandler BY <1>8 DEF InstallHandler
<1>9. CASE EnterSleep BY <1>9 DEF EnterSleep
<1>10. CASE SleepThrows BY <1>10 DEF SleepThrows
<1>11. CASE RestoreHandler BY <1>11 DEF RestoreHandler, CanJoinReturns, Release, NoCode
<1>12. CASE DtorTerminates BY <1>12 DEF DtorTerminates
<1>13. CASE DtorKills BY <1>13 DEF DtorKills, Release, NoCode
<1>14. CASE SleepElapses BY <1>14 DEF SleepElapses
<1> QED BY <1>1, <1>2, <1>3, <1>4, <1>5, <1>6, <1>7, <1>8, <1>9, <1>10, <1>11,
           <1>12, <1>13, <1>14 DEF Continue

LEMMA EndingSpeaks ==
  /\ \A n \in Int : ~is_none(set_code(Exited(n)))
  /\ \A s \in Signals : ~is_none(set_code(Signaled(s)))
  BY DEF is_none, set_code, Exited, Signaled, Signals, SIGKILL, SIGTERM

(* A signal handler leaves the members of the objects alone; the one it    *)
(* can disturb is the place of the thread.                                 *)
LEMMA InterruptPlace ==
  ASSUME TypeOK, Inv, Interrupt \/ UNCHANGED <<at, why, joinVars>>
  PROVE  \/ UNCHANGED <<at, why, joinVars>>
         \/ /\ at = "asleep" /\ at' = "poll" /\ why' = "woken" /\ UNCHANGED joinVars
         \/ /\ at = "join" /\ Unreaped(id[cur]) /\ Waitable(cur)
            /\ Finished
  BY DEF Interrupt, JoinBlocked, Waitable

LEMMA DiesInv ==
  ASSUME TypeOK, TypeOK', Inv, NEW p \in Pids, NEW how, ~is_none(set_code(how)), Dies(p, how)
  PROVE  Inv'
<1>1. Interrupt \/ UNCHANGED <<at, why, joinVars>> BY DEF Dies, SigChld
<1>2. \/ UNCHANGED <<at, why, joinVars>>
      \/ /\ at = "asleep" /\ at' = "poll" /\ why' = "woken" /\ UNCHANGED joinVars
      \/ /\ at = "join" /\ Unreaped(id[cur]) /\ Waitable(cur)
         /\ Finished
  BY <1>1, InterruptPlace
<1>3. /\ state[p] = "running" /\ state' = [state EXCEPT ![p] = "zombie"]
      /\ fate' = [fate EXCEPT ![p] = how]
      /\ UNCHANGED <<leader, obj, id, active, group, code, cur>>
  BY DEF Dies, objVars
<1> USE PidsAssumption DEF TypeOK, joinVars, Inv, InLoop, Unreaped, Waitable, Finished
<1>4. Storage'
  <2>1. \A o \in Objs : id[o] \in Pids => state'[id[o]] # "free"
    BY <1>3 DEF Storage
  <2> QED BY <1>2, <1>3, <2>1 DEF Storage, Blank, Place
<1>5. Place' BY <1>2, <1>3 DEF Place, is_none
<1>6. Loop' BY <1>2, <1>3 DEF Loop, OwnedUnreaped, GroupLed
<1>7. Ended' BY <1>3 DEF Ended
<1>8. OwnedUnreaped' /\ GroupLed' BY <1>2, <1>3 DEF OwnedUnreaped, GroupLed, Loop
<1>9. SoleOwner' BY <1>3 DEF SoleOwner
<1>10. ExitCodeTruth' BY <1>3 DEF ExitCodeTruth, is_none
<1>11. JoinVerdict' BY <1>2, <1>3 DEF JoinVerdict, is_none
<1> QED BY <1>4, <1>5, <1>6, <1>7, <1>8, <1>9, <1>10, <1>11

LEMMA ChildrenInv == TypeOK /\ TypeOK' /\ Inv /\ (Children \/ AppSignal) => Inv'
<1> SUFFICES ASSUME TypeOK, TypeOK', Inv, Children \/ AppSignal PROVE Inv'
  OBVIOUS
<1> DEFINE Quiet == UNCHANGED <<state, fate, leader, objVars, at, cur, why, joinVars>>
<1>1. Quiet => Inv'
  BY DEF Inv, Storage, Place, Loop, Ended, Blank, InLoop, OwnedUnreaped, SoleOwner, GroupLed,
         ExitCodeTruth, JoinVerdict, Unreaped, Waitable, objVars, joinVars
<1>2. CASE AppSignal
  <2>1. /\ UNCHANGED <<state, fate, leader, obj, id, active, group, code, cur>>
        /\ \/ UNCHANGED <<at, why, joinVars>>
           \/ /\ at = "asleep" /\ at' = "poll" /\ why' = "woken" /\ UNCHANGED joinVars
           \/ /\ at = "join" /\ Unreaped(id[cur]) /\ Waitable(cur)
              /\ Finished
    BY <1>2, InterruptPlace DEF AppSignal, kernelVars, objVars
  <2> USE PidsAssumption, <2>1
      DEF TypeOK, joinVars, Inv, InLoop, Unreaped, Waitable, Finished, is_none
  <2>2. Storage' /\ Place' BY DEF Storage, Place, Blank
  <2>3. Loop' /\ OwnedUnreaped' /\ GroupLed' BY DEF Loop, OwnedUnreaped, GroupLed
  <2>4. Ended' /\ SoleOwner' /\ ExitCodeTruth' BY DEF Ended, SoleOwner, ExitCodeTruth
  <2>5. JoinVerdict' BY DEF JoinVerdict
  <2> QED BY <2>2, <2>3, <2>4, <2>5
<1>3. ASSUME NEW p \in Pids, NEW r \in Returns, ChildReturns(p, r) PROVE Inv'
  BY <1>3, ReturnsAssumption, EndingSpeaks, DiesInv DEF ChildReturns
<1>4. ASSUME NEW p \in Pids, ChildThrows(p) PROVE Inv'
  BY <1>4, EndingSpeaks, DiesInv DEF ChildThrows
<1>5. ASSUME NEW p \in Pids, NEW s \in Signals, ChildKilled(p, s) PROVE Inv'
  BY <1>5, EndingSpeaks, DiesInv DEF ChildKilled
<1>6. ASSUME NEW p \in Pids, ChildIgnores(p) \/ ChildExecs(p) \/ ChildElevates(p) PROVE Inv'
  <2>1. Quiet BY <1>6 DEF ChildIgnores, ChildExecs, ChildElevates
  <2> QED BY <2>1, <1>1
<1> QED BY <1>2, <1>3, <1>4, <1>5, <1>6 DEF Children

LEMMA StutterInv == Inv /\ (ProgramEnded \/ UNCHANGED vars) => Inv'
  BY DEF ProgramEnded, Inv, Storage, Place, Loop, Ended, Blank, InLoop, OwnedUnreaped, SoleOwner, GroupLed,
         ExitCodeTruth, JoinVerdict, Unreaped, Waitable, vars, kernelVars, objVars, joinVars

LEMMA Invariance == Spec => [](TypeOK /\ Inv)
<1>1. Init => TypeOK /\ Inv
  BY InitTypeOK, InitInv
<1>2. TypeOK /\ Inv /\ [Next]_vars => (TypeOK /\ Inv)'
  <2> SUFFICES ASSUME TypeOK, Inv, [Next]_vars PROVE TypeOK' /\ Inv'
    OBVIOUS
  <2>1. TypeOK'
    BY StartTypeOK, ContinueTypeOK, ChildrenTypeOK, StutterTypeOK DEF Next
  <2> QED BY <2>1, StartInv, ContinueInv, ChildrenInv, StutterInv DEF Next
<1> QED BY <1>1, <1>2, PTL DEF Spec

(* kill() and waitpid() never get the id of a child that was reaped, and   *)
(* two objects never share one.                                            *)
THEOREM NoStranger == Spec => [](OwnedUnreaped /\ SoleOwner)
<1>1. TypeOK /\ Inv => OwnedUnreaped /\ SoleOwner BY DEF Inv
<1> QED BY Invariance, <1>1, PTL

(* Two destructors never fight for one child.                              *)
THEOREM OneOwner == Spec => []SoleOwner
<1>1. TypeOK /\ Inv => SoleOwner BY DEF Inv
<1> QED BY Invariance, <1>1, PTL

(* An object addresses its child as a group only after setpgid succeeded.  *)
THEOREM GroupsAreLed == Spec => []GroupLed
<1>1. TypeOK /\ Inv => GroupLed BY DEF Inv
<1> QED BY Invariance, <1>1, PTL

(* exit_code() is none until the child is collected, and the child's own   *)
(* ending afterwards, whatever integer the child's function returned.      *)
THEOREM ExitCodesTrue == Spec => []ExitCodeTruth
<1>1. TypeOK /\ Inv => ExitCodeTruth BY DEF Inv
<1> QED BY Invariance, <1>1, PTL

(* can_join() says "joined" of a collected child and "not joined" of one   *)
(* that the object still owns.                                             *)
THEOREM JoinVerdictTrue == Spec => []JoinVerdict
<1>1. TypeOK /\ Inv => JoinVerdict BY DEF Inv
<1> QED BY Invariance, <1>1, PTL

----------------------------------------------------------------------------
(* Process implements ChildHandle: what each step does to what an object   *)
(* holds (Held), to the life of the children, to what objects tell, to the *)
(* objects being destroyed and to the children a SIGKILL awaits.           *)

Stays == UNCHANGED <<Life, Ending, Held, code, Dying, Doomed>>

(* Nothing but the kernel's table and the members of the objects matters.  *)
LEMMA Stuttering ==
  ASSUME UNCHANGED <<state, fate, pend, obj, id, active, code>>
  PROVE  Stays
  BY DEF Stays, Life, Ending, Held, Holds, Unreaped, Dying, Doomed

(* The mapping copies the members point by point. *)
LEMMA HeldValue ==
  /\ \A o \in Objs : Held[o] = IF Holds(o) THEN id[o] ELSE NoChild
  /\ \A p \in Pids : Ending[p] = set_code(fate[p])
  BY DEF Held, Ending

LEMMA LifeValue ==
  ASSUME TypeOK, NEW p \in Pids
  PROVE  /\ state[p] = "free" <=> Life[p] = "unborn"
         /\ state[p] = "running" <=> Life[p] = "alive"
         /\ state[p] = "zombie" <=> Life[p] = "dead"
         /\ state[p] = "reaped" <=> Life[p] = "collected"
<1>1. state[p] \in {"free", "running", "zombie", "reaped"}
  BY DEF TypeOK
<1> QED
  BY <1>1 DEF Life

(* One child changes its state: Life follows. *)
LEMMA LifeStep ==
  ASSUME TypeOK, NEW p \in Pids,
         NEW from \in {"running", "zombie", "reaped"}, state' = [state EXCEPT ![p] = from]
  PROVE  Life' = [Life EXCEPT ![p] = CASE from = "running" -> "alive"
                                       [] from = "zombie"  -> "dead"
                                       [] from = "reaped"  -> "collected"]
  BY DEF TypeOK, Life

(* An object that holds its child has nothing to tell yet. *)
LEMMA HoldsTellsNothing ==
  ASSUME TypeOK, Inv, NEW o \in Objs, Holds(o)
  PROVE  code[o] = NoCode
<1>1. is_none(code[o])
  BY DEF Inv, ExitCodeTruth, Holds, Unreaped
<1>2. code[o] \in ExitCodes
  BY DEF TypeOK
<1> QED
  BY <1>1, <1>2 DEF is_none, NoCode, ExitCodes

(* The storage of an object goes, and with it the child it holds and the   *)
(* exit code it tells.                                                     *)
LEMMA ReleaseClears ==
  ASSUME TypeOK, Release(cur), UNCHANGED <<state, fate>>
  PROVE  /\ UNCHANGED <<Life, Ending>>
         /\ Held' = [Held EXCEPT ![cur] = NoChild]
         /\ code' = [code EXCEPT ![cur] = NoCode]
         /\ Dying' = Dying \ {cur}
<1>1. cur \in Objs
  BY DEF TypeOK
<1>2. UNCHANGED <<Life, Ending>>
  BY DEF Life, Ending
<1>3. Held' = [Held EXCEPT ![cur] = NoChild]
  BY <1>1, PidsAssumption DEF TypeOK, Release, Held, Holds, Unreaped
<1>4. Dying' = Dying \ {cur}
  BY <1>1 DEF TypeOK, Release, Dying
<1> QED
  BY <1>2, <1>3, <1>4 DEF Release

LEMMA HoldsIsHeld ==
  ASSUME NEW o \in Objs
  PROVE  /\ Holds(o) => Held[o] = id[o] /\ Held[o] # NoChild
         /\ ~Holds(o) => Held[o] = NoChild
  BY HeldValue, PidsAssumption DEF Holds

(* The exception of a constructor lets the child go that it has forked.    *)
LEMMA ThrowingLetsGo ==
  ASSUME TypeOK, Inv, ConstructorThrows
  PROVE  Handle!LetGo(cur)
<1>1. /\ cur \in Objs /\ obj[cur] = "making" /\ Holds(cur)
      /\ Release(cur) /\ UNCHANGED <<state, fate, pend>>
  BY DEF TypeOK, ConstructorThrows, kernelVars, Inv, Storage, Place, Holds, Unreaped
<1>2. Held[cur] # NoChild /\ cur \notin Dying
  BY <1>1, HoldsIsHeld DEF Dying
<1>3. code' = code
  BY <1>1, HoldsTellsNothing, ReleaseClears DEF TypeOK
<1>4. Dying' = Dying /\ Doomed' = Doomed
  BY <1>1, <1>2, ReleaseClears DEF Doomed
<1> QED
  BY <1>1, <1>2, <1>3, <1>4, ReleaseClears DEF Handle!LetGo

(* A destructor that has found its child dead, or has none, forgets what   *)
(* the object had to tell.                                                 *)
LEMMA ReleasingForgets ==
  ASSUME TypeOK, Inv, obj[cur] = "dying", ~active[cur], Release(cur),
         UNCHANGED <<state, fate, pend>>
  PROVE  Handle!Forget(cur)
<1>1. cur \in Objs /\ ~Holds(cur)
  BY DEF TypeOK, Holds
<1>2. Held[cur] = NoChild /\ cur \in Dying
  BY <1>1, HoldsIsHeld DEF Dying
<1>3. Held' = Held
  BY <1>1, <1>2, ReleaseClears DEF Held
<1>4. Doomed' = Doomed
  BY DEF Doomed
<1> QED
  BY <1>2, <1>3, <1>4, ReleaseClears DEF Handle!Forget

(* A destructor that comes back with its child not collected has killed it *)
(* if it was alive.                                                        *)
LEMMA KillingAbandons ==
  ASSUME TypeOK, Inv, DtorKills, ~elevated[id[cur]]
  PROVE  Handle!Abandon(cur)
<1> DEFINE p == id[cur]
<1>1. /\ cur \in Objs /\ obj[cur] = "dying" /\ Holds(cur) /\ p \in Pids
      /\ Release(cur) /\ Deliver(cur, SIGKILL) /\ UNCHANGED <<state, fate>>
  BY DEF TypeOK, DtorKills, Inv, Place, OwnedUnreaped, InLoop, Holds, Unreaped
<1>2. Held[cur] = p /\ Held[cur] # NoChild /\ cur \in Dying
  BY <1>1, HoldsIsHeld DEF Dying
<1>3. code' = code
  BY <1>1, HoldsTellsNothing, ReleaseClears DEF TypeOK
<1>4. state[p] = "running" <=> Life[p] = "alive"
  BY <1>1, LifeValue
<1>5. Doomed' = IF Life[p] = "alive" THEN Doomed \cup {p} ELSE Doomed
  <2>1. CASE state[p] = "running"
    <3>1. pend' = [pend EXCEPT ![p] = @ \cup {SIGKILL}]
      BY <1>1, <2>1 DEF Deliver
    <3> QED
      BY <1>1, <1>4, <2>1, <3>1 DEF Doomed, TypeOK
  <2>2. CASE state[p] # "running"
    <3>1. pend' = pend
      BY <1>1, <2>2 DEF Deliver, TypeOK
    <3> QED
      BY <1>4, <2>2, <3>1 DEF Doomed
  <2> QED
    BY <2>1, <2>2
<1> QED
  BY <1>1, <1>2, <1>3, <1>5, ReleaseClears DEF Handle!Abandon

(* A signal of the program: SIGKILL dooms a child that is alive.           *)
LEMMA SignalKills ==
  ASSUME TypeOK, NEW o \in Objs, NEW s \in Signals, Signal(o, s)
  PROVE  Handle!Kill(o) \/ Stays
<1> DEFINE p == id[o]
<1>1. /\ Holds(o) /\ p \in Pids /\ Deliver(o, s)
      /\ UNCHANGED <<state, fate, obj, id, active, group, code>>
  BY DEF Signal, Waitable, Holds, objVars
<1>2. Held[o] = p /\ Held[o] # NoChild
  BY <1>1, HoldsIsHeld
<1>3. UNCHANGED <<Life, Ending, Held, code, Dying>>
  BY <1>1 DEF Life, Ending, Held, Holds, Unreaped, Dying
<1>4. CASE state[p] = "running"
  <2>1. pend' = [pend EXCEPT ![p] = @ \cup {s}] /\ Life[p] = "alive"
    BY <1>1, <1>4, LifeValue DEF Deliver
  <2>2. CASE s = SIGKILL
    <3>1. Doomed' = Doomed \cup {p}
      BY <1>1, <2>1, <2>2 DEF Doomed, TypeOK
    <3> QED
      BY <1>2, <1>3, <2>1, <3>1 DEF Handle!Kill
  <2>3. CASE s # SIGKILL
    <3>1. Doomed' = Doomed
      BY <1>1, <2>1, <2>3 DEF Doomed, TypeOK
    <3> QED
      BY <1>3, <3>1 DEF Stays
  <2> QED
    BY <2>2, <2>3
<1>5. CASE state[p] # "running"
  <2>1. pend' = pend
    BY <1>1, <1>5 DEF Deliver, TypeOK
  <2> QED
    BY <1>3, <2>1 DEF Stays, Doomed
<1> QED
  BY <1>4, <1>5

(* SIGTERM dooms nobody. *)
LEMMA AskingStays ==
  ASSUME TypeOK, NEW o \in Objs, id[o] \in Pids, Deliver(o, SIGTERM),
         UNCHANGED <<state, fate, obj, id, active, code>>
  PROVE  Stays
<1>1. \A p \in Pids : SIGKILL \in pend'[p] <=> SIGKILL \in pend[p]
  BY DEF Deliver, TypeOK, SIGKILL, SIGTERM
<1> QED
  BY <1>1 DEF Stays, Life, Ending, Held, Holds, Unreaped, Dying, Doomed

LEMMA ForkSpawns ==
  ASSUME TypeOK, Inv, NEW o \in Objs, NEW p \in Pids, NEW kind \in {"plain", "group"},
         Fork(o, p, kind)
  PROVE  Handle!Spawn(o, p)
<1>1. Blank(o)
  BY DEF Fork, Inv, Storage
<1>2. Held[o] = NoChild /\ code[o] = NoCode
  BY <1>1, HeldValue DEF Blank
<1>3. Life[p] = "unborn"
  BY LifeValue DEF Fork
<1>4. Life' = [Life EXCEPT ![p] = "alive"]
  BY LifeStep DEF Fork
<1>5. UNCHANGED <<Ending, code>>
  BY DEF Fork, Ending
<1>6. \A x \in Objs \ {o} : Holds(x)' = Holds(x) /\ id'[x] = id[x]
  <2> TAKE x \in Objs \ {o}
  <2>1. id[x] # p
    BY DEF Fork, Inv, Storage
  <2> QED
    BY <2>1 DEF Fork, TypeOK, Holds, Unreaped
<1>7. Holds(o)' /\ id'[o] = p
  BY DEF Fork, TypeOK, Holds, Unreaped
<1>8. Held' = [Held EXCEPT ![o] = p]
  BY <1>6, <1>7 DEF Held
<1>9. o \notin Dying /\ UNCHANGED <<Dying, Doomed>>
  BY DEF Fork, TypeOK, Dying, Doomed
<1> QED
  BY <1>2, <1>3, <1>4, <1>5, <1>8, <1>9 DEF Handle!Spawn

LEMMA SwapExchanges ==
  ASSUME TypeOK, NEW a \in Objs, NEW b \in Objs, Swap(a, b)
  PROVE  Handle!Exchange(a, b)
<1>1. UNCHANGED <<Life, Ending>>
  BY DEF Swap, kernelVars, Life, Ending
<1>2. \A x \in Objs \ {a, b} : Holds(x)' = Holds(x) /\ id'[x] = id[x]
  BY DEF Swap, Exchange, Swapped, kernelVars, TypeOK, Holds, Unreaped
<1>3. /\ id'[a] = id[b] /\ active'[a] = active[b]
      /\ id'[b] = id[a] /\ active'[b] = active[a]
      /\ obj'[a] = "live" /\ obj'[b] = "live" /\ obj[a] = "live" /\ obj[b] = "live"
      /\ state' = state
  BY DEF Swap, Exchange, Swapped, kernelVars, TypeOK
<1>4. Holds(a)' = Holds(b) /\ Holds(b)' = Holds(a)
  BY <1>3 DEF Holds, Unreaped
<1>5. Held' = [Held EXCEPT ![a] = Held[b], ![b] = Held[a]]
  BY <1>2, <1>3, <1>4 DEF Held
<1>6. code' = [code EXCEPT ![a] = code[b], ![b] = code[a]]
  BY DEF Swap, Exchange, Swapped
<1>7. {a, b} \cap Dying = {} /\ UNCHANGED <<Dying, Doomed>>
  BY DEF Swap, kernelVars, Dying, Doomed
<1> QED
  BY <1>1, <1>5, <1>6, <1>7 DEF Handle!Exchange

LEMMA DetachLetsGo ==
  ASSUME TypeOK, NEW o \in Objs, Detach(o)
  PROVE  Handle!LetGo(o) \/ Stays
<1>1. UNCHANGED <<Life, Ending, code, Dying, Doomed>> /\ o \notin Dying
  BY DEF Detach, kernelVars, Life, Ending, Dying, Doomed
<1>2. ~Holds(o)' /\ \A x \in Objs \ {o} : Holds(x)' = Holds(x)
  BY DEF Detach, kernelVars, TypeOK, Holds, Unreaped
<1>3. Held' = [Held EXCEPT ![o] = NoChild]
  BY <1>2 DEF Held, Detach
<1>4. CASE Holds(o)
  <2>1. Held[o] # NoChild
    BY <1>4, PidsAssumption, HeldValue DEF Holds
  <2> QED
    BY <1>1, <1>3, <2>1 DEF Handle!LetGo
<1>5. CASE ~Holds(o)
  <2>1. Held[o] = NoChild
    BY <1>5, HeldValue
  <2> QED
    BY <1>1, <1>3, <2>1 DEF Held, Stays
<1> QED
  BY <1>4, <1>5

LEMMA ReapingCollects ==
  ASSUME TypeOK, Inv, WaitReaps
  PROVE  Handle!Collect(cur)
<1> DEFINE p == id[cur]
<1>1. cur \in Objs /\ p \in Pids /\ state[p] = "zombie" /\ active[cur]
  BY DEF WaitReaps, Waitable, TypeOK
<1>2. Holds(cur)
  BY <1>1 DEF Holds, Unreaped
<1>3. Held[cur] = p /\ Held[cur] # NoChild
  BY <1>1, <1>2, HeldValue, PidsAssumption
<1>4. Life[p] = "dead"
  BY <1>1, LifeValue
<1>5. Life' = [Life EXCEPT ![p] = "collected"]
  BY <1>1, LifeStep DEF WaitReaps
<1>6. code' = [code EXCEPT ![cur] = Ending[p]]
  BY <1>1, HeldValue DEF WaitReaps
<1>7. Ending' = Ending
  BY DEF WaitReaps, Ending
<1>8. ~Holds(cur)'
  BY <1>1 DEF WaitReaps, TypeOK, Holds, Unreaped
<1>9. \A x \in Objs \ {cur} : Holds(x)' = Holds(x)
  <2> TAKE x \in Objs \ {cur}
  <2>1. id[x] \in Pids => id[x] # p
    BY <1>1, PidsAssumption DEF Inv, SoleOwner
  <2> QED
    BY <1>1, <2>1 DEF WaitReaps, TypeOK, Holds, Unreaped
<1>10. Held' = [Held EXCEPT ![cur] = NoChild]
  BY <1>8, <1>9 DEF Held, WaitReaps
<1>11. UNCHANGED <<Dying, Doomed>>
  BY DEF WaitReaps, Dying, Doomed
<1> QED
  BY <1>3, <1>4, <1>5, <1>6, <1>7, <1>10, <1>11 DEF Handle!Collect

LEMMA DyingEnds ==
  ASSUME TypeOK, NEW p \in Pids, NEW how, Dies(p, how)
  PROVE  Handle!End(p, set_code(how))
<1>1. Life[p] = "alive"
  BY LifeValue DEF Dies
<1>2. Life' = [Life EXCEPT ![p] = "dead"]
  BY LifeStep DEF Dies
<1>3. Ending' = [Ending EXCEPT ![p] = set_code(how)]
  BY DEF Dies, TypeOK, Ending
<1>4. \A x \in Objs : Holds(x)' = Holds(x)
  BY DEF Dies, objVars, TypeOK, Holds, Unreaped
<1>5. UNCHANGED <<Held, code, Dying>>
  BY <1>4 DEF Held, Dies, objVars, Dying
<1>6. Doomed' = Doomed \ {p}
  BY DEF Dies, TypeOK, Doomed
<1> QED
  BY <1>1, <1>2, <1>3, <1>5, <1>6 DEF Handle!End

LEMMA StartRefines == TypeOK /\ Inv /\ Start => Handle!Next \/ Stays
<1> SUFFICES ASSUME TypeOK, Inv, NEW o \in Objs,
                    \/ DefaultConstruct(o)
                    \/ \E p \in Pids, kind \in {"plain", "group"} : Fork(o, p, kind)
                    \/ \E b \in Objs : Swap(o, b)
                    \/ Detach(o)
                    \/ \E s \in Signals : Signal(o, s)
                    \/ Running(o)
                    \/ Join(o)
                    \/ \E d \in Durations : CanJoin(o, d)
                    \/ Destroy(o)
             PROVE  Handle!Next \/ Stays
  BY DEF Start
<1>1. CASE DefaultConstruct(o)
  <2>1. \A x \in Objs : Holds(x)' = Holds(x)
    BY <1>1 DEF DefaultConstruct, kernelVars, TypeOK, Holds, Unreaped
  <2> QED
    BY <1>1, <2>1 DEF DefaultConstruct, kernelVars, TypeOK, Stays, Life, Ending, Held, Dying, Doomed
<1>2. ASSUME NEW p \in Pids, NEW kind \in {"plain", "group"}, Fork(o, p, kind)
      PROVE  Handle!Next
  BY <1>2, ForkSpawns DEF Handle!Next
<1>3. ASSUME NEW b \in Objs, Swap(o, b) PROVE Handle!Next
  BY <1>3, SwapExchanges DEF Handle!Next
<1>4. CASE Detach(o)
  BY <1>4, DetachLetsGo DEF Handle!Next
<1>5. ASSUME NEW s \in Signals, Signal(o, s) PROVE Handle!Next \/ Stays
  BY <1>5, SignalKills DEF Handle!Next
<1>6. CASE Running(o) BY <1>6, Stuttering DEF Running, kernelVars, objVars
<1>7. CASE Join(o) BY <1>7, Stuttering DEF Join, kernelVars, objVars
<1>8. ASSUME NEW d \in Durations, CanJoin(o, d) PROVE Stays
  BY <1>8, Stuttering DEF CanJoin, kernelVars, objVars
<1>9. CASE Destroy(o)
  <2>1. \A x \in Objs : Holds(x)' = Holds(x)
    BY <1>9 DEF Destroy, kernelVars, TypeOK, Holds, Unreaped
  <2> QED
    <3>1. UNCHANGED <<Life, Ending, Held, code, Doomed>>
      BY <1>9, <2>1 DEF Destroy, kernelVars, Life, Ending, Held, Doomed
    <3>2. o \notin Dying /\ Dying' = Dying \cup {o}
      BY <1>9 DEF Destroy, TypeOK, Dying
    <3> QED
      BY <3>1, <3>2 DEF Handle!Destroy, Handle!Next
<1> QED BY <1>1, <1>2, <1>3, <1>4, <1>5, <1>6, <1>7, <1>8, <1>9

LEMMA ContinueRefines == TypeOK /\ Inv /\ (Continue \/ SleepElapses) => Handle!Next \/ Stays
<1> SUFFICES ASSUME TypeOK, Inv, Continue \/ SleepElapses PROVE Handle!Next \/ Stays
  OBVIOUS
<1> cur \in Objs
  BY DEF TypeOK
<1> USE DEF kernelVars, objVars
<1>1. ASSUME obj[cur] = "dying", ~active[cur], Release(cur), UNCHANGED <<state, fate, pend>>
      PROVE  Handle!Next
  BY <1>1, ReleasingForgets DEF Handle!Next
<1>2. CASE ConstructorThrows BY <1>2, ThrowingLetsGo DEF Handle!Next
<1>3. CASE ConstructorReturns
  (* The child passes from the object being made to the living object.     *)
  <2>1. obj[cur] = "making"
    BY <1>3 DEF ConstructorReturns, Inv, Storage
  <2>2. \A x \in Objs : Holds(x)' = Holds(x)
    BY <1>3, <2>1 DEF ConstructorReturns, TypeOK, Holds, Unreaped
  <2> QED
    BY <1>3, <2>1, <2>2 DEF ConstructorReturns, TypeOK, Stays, Life, Ending, Held, Dying, Doomed
<1>4. CASE WaitReaps BY <1>4, ReapingCollects DEF Handle!Next
<1>5. CASE WaitFindsNone
  (* ECHILD: the child was collected in an earlier round of the loop.      *)
  <2>1. ~Holds(cur)
    BY <1>5 DEF WaitFindsNone, Inv, Loop, InLoop, Storage, Place, Holds
  <2>2. \A x \in Objs : Holds(x)' = Holds(x)
    BY <1>5, <2>1 DEF WaitFindsNone, TypeOK, Holds, Unreaped
  <2> QED
    BY <1>5, <2>2 DEF WaitFindsNone, Stays, Life, Ending, Held, Dying, Doomed
<1>6. CASE JoinReturns BY <1>6, Stuttering DEF JoinReturns
<1>7. CASE RunningTrue BY <1>7, Stuttering DEF RunningTrue
<1>8. CASE RunningFalse
  <2>1. at = "poll" /\ ~active[cur] /\ (why = "dtor" => obj[cur] = "dying")
    BY <1>8 DEF RunningFalse, Inv, Place
  <2> QED
    BY <1>1, <1>8, <2>1, Stuttering DEF RunningFalse, CanJoinReturns
<1>9. CASE InstallHandler BY <1>9, Stuttering DEF InstallHandler
<1>10. CASE EnterSleep BY <1>10, Stuttering DEF EnterSleep
<1>11. CASE SleepThrows BY <1>11, Stuttering DEF SleepThrows
<1>12. CASE RestoreHandler
  <2>1. joined => ~active[cur]
    BY <1>12 DEF RestoreHandler, Inv, JoinVerdict
  <2> QED
    BY <1>1, <1>12, <2>1, Stuttering DEF RestoreHandler, CanJoinReturns
<1>13. CASE DtorTerminates
  <2>1. id[cur] \in Pids
    BY <1>13 DEF DtorTerminates, Inv, Place, OwnedUnreaped, InLoop
  <2> QED
    BY <1>13, <2>1, Stuttering, AskingStays DEF DtorTerminates
<1>14. CASE DtorKills
  <2>1. CASE elevated[id[cur]] BY <1>14, <2>1, Stuttering DEF DtorKills
  <2>2. CASE ~elevated[id[cur]] BY <1>14, <2>2, KillingAbandons DEF Handle!Next
  <2> QED
    BY <2>1, <2>2
<1>15. CASE SleepElapses BY <1>15, Stuttering DEF SleepElapses
<1> QED BY <1>2, <1>3, <1>4, <1>5, <1>6, <1>7, <1>8, <1>9, <1>10, <1>11, <1>12,
           <1>13, <1>14, <1>15 DEF Continue

LEMMA ChildrenRefine == TypeOK /\ (Children \/ AppSignal) => Handle!Next \/ Stays
<1> SUFFICES ASSUME TypeOK, Children \/ AppSignal PROVE Handle!Next \/ Stays
  OBVIOUS
<1>1. CASE AppSignal BY <1>1, Stuttering DEF AppSignal, kernelVars, objVars
<1>2. ASSUME NEW p \in Pids, NEW r \in Returns, ChildReturns(p, r) PROVE Handle!Next
  <2>1. set_code(Exited(r)) \in Endings
    BY DEF Endings
  <2> QED
    BY <1>2, <2>1, DyingEnds DEF ChildReturns, Handle!Next
<1>3. ASSUME NEW p \in Pids, ChildThrows(p) PROVE Handle!Next
  <2>1. set_code(Exited(1)) \in Endings
    BY DEF Endings
  <2> QED
    BY <1>3, <2>1, DyingEnds DEF ChildThrows, Handle!Next
<1>4. ASSUME NEW p \in Pids, NEW s \in Signals, ChildKilled(p, s) PROVE Handle!Next
  <2>1. set_code(Signaled(s)) \in Endings
    BY DEF Endings
  <2> QED
    BY <1>4, <2>1, DyingEnds DEF ChildKilled, Handle!Next
<1>5. ASSUME NEW p \in Pids, ChildExecs(p) \/ ChildElevates(p) PROVE Stays
  BY <1>5, Stuttering DEF ChildExecs, ChildElevates, objVars
<1>6. ASSUME NEW p \in Pids, ChildIgnores(p) PROVE Stays
  <2>1. \A q \in Pids : SIGKILL \in pend'[q] <=> SIGKILL \in pend[q]
    BY <1>6 DEF ChildIgnores, TypeOK, SIGKILL, SIGTERM
  <2> QED
    BY <1>6, <2>1
       DEF ChildIgnores, objVars, Stays, Life, Ending, Held, Holds, Unreaped, Dying, Doomed
<1> QED BY <1>1, <1>2, <1>3, <1>4, <1>5, <1>6 DEF Children

LEMMA InitRefines == Init => Handle!Init
<1> SUFFICES ASSUME Init PROVE Handle!Init
  OBVIOUS
<1>1. Life = [p \in Pids |-> "unborn"]
  BY DEF Init, Life
<1>2. Ending = [p \in Pids |-> NoCode]
  BY DEF Init, Ending, set_code, NoFate, NoCode
<1>3. Held = [o \in Objs |-> NoChild]
  BY PidsAssumption DEF Init, Held, Holds
<1>4. Dying = {} /\ Doomed = {}
  BY DEF Init, Dying, Doomed
<1> QED
  BY <1>1, <1>2, <1>3, <1>4 DEF Init, Handle!Init

(* app::process keeps the promise of ChildHandle: a dead child is          *)
(* collected once, by the object that holds it, which tells how it ended;  *)
(* moves carry the child and its exit code; a child that was given up is   *)
(* never held again; and a destructor that comes back leaves no child      *)
(* alive that a SIGKILL does not await.                                    *)
THEOREM Refinement == Spec => ImplementsHandle
<1>1. TypeOK /\ Inv /\ [Next]_vars => [Handle!Next]_(Handle!vars)
  <2>1. TypeOK /\ Inv /\ Next => Handle!Next \/ ProgramEnded \/ Stays
    BY StartRefines, ContinueRefines, ChildrenRefine DEF Next
  <2>2. ProgramEnded \/ UNCHANGED vars => Stays
    BY Stuttering DEF ProgramEnded, vars, kernelVars, objVars
  <2> QED
    BY <2>1, <2>2 DEF Stays, Handle!vars
<1> QED BY InitRefines, <1>1, Invariance, PTL DEF Spec, ImplementsHandle, Handle!Spec

----------------------------------------------------------------------------
(* Who loses a child before it is reaped.                                  *)

LEMMA KeepsOwner ==
  ASSUME UNCHANGED <<obj, id, active>>, NEW p \in Pids, Owned(p)
  PROVE  Owned(p)'
  BY DEF Owned

(* If only the members of cur change, cur is the owner that is lost.       *)
LEMMA LoserIsCur ==
  ASSUME TypeOK, NEW p \in Pids, Owned(p), ~Owned(p)',
         \A o \in Objs \ {cur} : obj'[o] = obj[o] /\ id'[o] = id[o] /\ active'[o] = active[o]
  PROVE  id[cur] = p /\ (active[cur] \/ obj[cur] = "making")
  BY DEF Owned

LEMMA ReleasesCur ==
  ASSUME TypeOK, Release(cur)
  PROVE  \A o \in Objs \ {cur} : obj'[o] = obj[o] /\ id'[o] = id[o] /\ active'[o] = active[o]
  BY DEF TypeOK, Release

LEMMA ContinueLoses == TypeOK /\ Inv /\ (Continue \/ SleepElapses) => LosesLegally
<1> SUFFICES ASSUME TypeOK, Inv, Continue \/ SleepElapses, NEW p \in Pids,
                    Owned(p), ~Owned(p)', Unreaped(p)'
             PROVE  \/ at = "forked" /\ id[cur] = p
                    \/ at = "kill" /\ id[cur] = p /\ (state[p] = "zombie" \/ SIGKILL \in pend'[p])
  BY DEF LosesLegally
<1> cur \in Objs
  BY DEF TypeOK
<1> USE DEF kernelVars, objVars
<1>1. CASE ConstructorThrows
  BY <1>1, ReleasesCur, LoserIsCur DEF ConstructorThrows
<1>2. CASE ConstructorReturns
  (* The object being made becomes the owner. *)
  <2>1. \A o \in Objs : /\ id'[o] = id[o] /\ (active[o] => active'[o])
                        /\ obj[o] = "making" => active'[o]
    BY <1>2 DEF ConstructorReturns, TypeOK, Inv, Storage
  <2> QED
    BY <2>1 DEF Owned
<1>3. CASE \/ WaitReaps \/ JoinReturns \/ RunningTrue \/ InstallHandler \/ EnterSleep
           \/ SleepThrows \/ SleepElapses
  BY <1>3, KeepsOwner
     DEF WaitReaps, JoinReturns, RunningTrue, InstallHandler, EnterSleep, SleepThrows, SleepElapses
<1>4. CASE WaitFindsNone
  (* waitpid knows no child any more: it has been reaped.                  *)
  <2>1. id[cur] = p
    BY <1>4, LoserIsCur DEF WaitFindsNone
  <2>2. ~Unreaped(p)
    BY <1>4, <2>1 DEF WaitFindsNone, Inv, Loop, InLoop
  <2> QED
    BY <1>4, <2>2 DEF WaitFindsNone, Unreaped
<1>5. CASE RunningFalse \/ RestoreHandler
  (* The destructor leaves after a join: the object owns nothing.          *)
  <2>1. CASE UNCHANGED <<obj, id, active>>
    BY <2>1, KeepsOwner
  <2>2. obj[cur] # "making"
    BY <1>5 DEF RunningFalse, RestoreHandler, Inv, Storage
  <2>3. CASE Release(cur) /\ ~active[cur]
    BY <2>2, <2>3, ReleasesCur, LoserIsCur
  <2>4. RunningFalse => UNCHANGED <<obj, id, active>> \/ (Release(cur) /\ ~active[cur])
    BY DEF RunningFalse, CanJoinReturns
  <2>5. RestoreHandler => UNCHANGED <<obj, id, active>> \/ (Release(cur) /\ ~active[cur])
    BY DEF RestoreHandler, CanJoinReturns, Inv, JoinVerdict
  <2> QED
    BY <1>5, <2>1, <2>3, <2>4, <2>5
<1>6. CASE DtorTerminates
  BY <1>6, KeepsOwner DEF DtorTerminates
<1>7. CASE DtorKills
  <2>1. ~elevated[id[cur]] /\ Release(cur) /\ Deliver(cur, SIGKILL) /\ at = "kill"
    BY <1>7, KeepsOwner DEF DtorKills
  <2>2. id[cur] = p /\ Unreaped(p)
    BY <1>7, <2>1, ReleasesCur, LoserIsCur DEF DtorKills, Unreaped, Inv, Storage
  <2> QED
    BY <1>7, <2>1, <2>2 DEF Deliver, Unreaped, TypeOK
<1> QED
  BY <1>1, <1>2, <1>3, <1>4, <1>5, <1>6, <1>7 DEF Continue

LEMMA StartLoses == TypeOK /\ Inv /\ Start => LosesLegally
<1> SUFFICES ASSUME TypeOK, Inv, Start, NEW p \in Pids, Owned(p), ~Owned(p)'
             PROVE  Detached(p)
  BY DEF LosesLegally
<1> PICK o \in Objs :
      \/ DefaultConstruct(o)
      \/ \E q \in Pids, kind \in {"plain", "group"} : Fork(o, q, kind)
      \/ \E b \in Objs : Swap(o, b)
      \/ Detach(o)
      \/ \E s \in Signals : Signal(o, s)
      \/ Running(o)
      \/ Join(o)
      \/ \E d \in Durations : CanJoin(o, d)
      \/ Destroy(o)
  BY DEF Start
<1> PICK owner \in Objs : id[owner] = p /\ (active[owner] \/ obj[owner] = "making")
  BY DEF Owned
<1>1. CASE DefaultConstruct(o) \/ Destroy(o)
  <2>1. UNCHANGED <<id, active>> /\ (obj[owner] = "making" => obj'[owner] = "making")
    BY <1>1 DEF DefaultConstruct, Destroy, TypeOK
  <2> QED
    BY <2>1 DEF Owned
<1>2. ASSUME NEW q \in Pids, NEW kind \in {"plain", "group"}, Fork(o, q, kind)
      PROVE  FALSE
  <2>1. owner # o
    BY <1>2 DEF Fork, Inv, Storage, Blank
  <2> QED
    BY <1>2, <2>1 DEF Fork, TypeOK, Owned
<1>3. ASSUME NEW b \in Objs, Swap(o, b) PROVE FALSE
  (* The child has an owner still: the object it was moved to.             *)
  <2> DEFINE to == IF owner = o THEN b ELSE IF owner = b THEN o ELSE owner
  <2>1. /\ to \in Objs /\ id'[to] = id[owner] /\ active'[to] = active[owner]
        /\ obj'[to] = "making" <=> obj[owner] = "making"
    BY <1>3 DEF Swap, Exchange, Swapped, TypeOK
  <2> QED
    BY <2>1 DEF Owned
<1>4. CASE Detach(o)
  <2>1. owner = o /\ active[o]
    BY <1>4 DEF Detach, TypeOK, Owned
  <2> QED
    BY <1>4, <2>1 DEF Detach, Detached
<1>5. CASE \/ \E s \in Signals : Signal(o, s)
           \/ Running(o) \/ Join(o) \/ \E d \in Durations : CanJoin(o, d)
  BY <1>5, KeepsOwner DEF Signal, Running, Join, CanJoin, objVars
<1> QED
  BY <1>1, <1>2, <1>3, <1>4, <1>5

(* A child that nobody has reaped is abandoned only by detach() of the     *)
(* object that has it, by its constructor that throws, or by a destructor  *)
(* after three seconds, with the child dead or a SIGKILL on its way: a     *)
(* refused kill() is not a way out, it ends the program.                   *)
THEOREM AbandonedOnlyLegally == Spec => AbandonedLegally
<1>1. TypeOK /\ Inv /\ [Next]_vars => [LosesLegally]_vars
  <2> SUFFICES ASSUME TypeOK, Inv, Next PROVE LosesLegally
    OBVIOUS
  <2>2. CASE Children \/ AppSignal
    <3>1. UNCHANGED <<obj, id, active>>
      BY <2>2 DEF Children, AppSignal, ChildReturns, ChildThrows, ChildKilled, ChildIgnores,
                  ChildExecs, ChildElevates, Dies, objVars
    <3> QED
      BY <3>1, KeepsOwner DEF LosesLegally
  <2>3. CASE ProgramEnded
    BY <2>3, KeepsOwner DEF ProgramEnded, vars, objVars, LosesLegally
  <2> QED
    BY <2>2, <2>3, StartLoses, ContinueLoses DEF Next
<1> QED BY <1>1, Invariance, PTL DEF Spec, AbandonedLegally

----------------------------------------------------------------------------
(* The handler of can_join().  A negative timeout lets can_join() throw    *)
(* past the second sigaction (SleepThrows); all that follows is about a    *)
(* program that gives none.                                                *)

(* What can_join() will put back is the default, and the time is positive. *)
Saved == dur = "positive" /\ (InCanJoin => saved = "default")

LEMMA StartHandler ==
  ASSUME Durations \subseteq {"positive"}
  PROVE  Saved /\ HandlerRestored /\ Start => (Saved /\ HandlerRestored)'
<1> SUFFICES ASSUME Saved, HandlerRestored, Start PROVE Saved' /\ HandlerRestored'
  OBVIOUS
<1>1. at = "idle" /\ disp = "default" /\ disp' = disp /\ saved' = saved
  BY DEF Start, DefaultConstruct, Fork, Swap, Detach, Signal, Running, Join, CanJoin, Destroy,
         HandlerRestored, InCanJoin, joinVars
<1>2. ~InCanJoin'
  BY DEF Start, DefaultConstruct, Fork, Swap, Detach, Signal, Running, Join, CanJoin, Destroy,
         Call, InCanJoin
<1>3. dur' = "positive"
  BY DEF Start, DefaultConstruct, Fork, Swap, Detach, Signal, Running, Join, CanJoin, Destroy,
         Saved, joinVars
<1> QED
  BY <1>1, <1>2, <1>3 DEF Saved, HandlerRestored

LEMMA ContinueHandler ==
  Saved /\ HandlerRestored /\ (Continue \/ SleepElapses) => (Saved /\ HandlerRestored)'
<1> SUFFICES ASSUME Saved, HandlerRestored, Continue \/ SleepElapses
             PROVE  Saved' /\ HandlerRestored'
  OBVIOUS
<1> USE DEF Saved, HandlerRestored, InCanJoin, joinVars, Finished, Continues
<1>1. CASE ConstructorThrows \/ ConstructorReturns
  BY <1>1 DEF ConstructorThrows, ConstructorReturns
<1>2. CASE WaitReaps \/ WaitFindsNone \/ JoinReturns
  BY <1>2 DEF WaitReaps, WaitFindsNone, JoinReturns
<1>3. CASE RunningTrue BY <1>3 DEF RunningTrue
<1>4. CASE RunningFalse BY <1>4 DEF RunningFalse, CanJoinReturns
<1>5. CASE InstallHandler \/ EnterSleep \/ SleepThrows \/ SleepElapses
  BY <1>5 DEF InstallHandler, EnterSleep, SleepThrows, SleepElapses
<1>6. CASE RestoreHandler BY <1>6 DEF RestoreHandler, CanJoinReturns
<1>7. CASE DtorTerminates \/ DtorKills BY <1>7 DEF DtorTerminates, DtorKills
<1> QED BY <1>1, <1>2, <1>3, <1>4, <1>5, <1>6, <1>7 DEF Continue

LEMMA ChildrenHandler ==
  Saved /\ HandlerRestored /\ (Children \/ AppSignal) => (Saved /\ HandlerRestored)'
<1> SUFFICES ASSUME Saved, HandlerRestored, Children \/ AppSignal
             PROVE  Saved' /\ HandlerRestored'
  OBVIOUS
<1>1. disp' = disp /\ (Interrupt \/ UNCHANGED <<at, why, joinVars>>)
  BY DEF Children, AppSignal, ChildReturns, ChildThrows, ChildKilled, ChildIgnores, ChildExecs,
         ChildElevates, Dies, SigChld, joinVars
<1> QED
  BY <1>1 DEF Saved, HandlerRestored, InCanJoin, Interrupt, JoinBlocked, Finished, joinVars

LEMMA HandlerInvariance ==
  ASSUME Durations \subseteq {"positive"}
  PROVE  Spec => [](Saved /\ HandlerRestored)
<1>1. Init => Saved /\ HandlerRestored
  BY DEF Init, Saved, HandlerRestored, InCanJoin
<1>2. Saved /\ HandlerRestored /\ [Next]_vars => (Saved /\ HandlerRestored)'
  <2>1. Saved /\ HandlerRestored /\ (ProgramEnded \/ UNCHANGED vars) => (Saved /\ HandlerRestored)'
    BY DEF ProgramEnded, Saved, HandlerRestored, InCanJoin, vars, joinVars
  <2> QED
    BY <2>1, StartHandler, ContinueHandler, ChildrenHandler DEF Next
<1> QED BY <1>1, <1>2, PTL DEF Spec

(* A program that gives no negative timeout finds its SIGCHLD handler      *)
(* where it was whenever it is not inside can_join(), whatever the         *)
(* children and its other signal handlers do meanwhile.                    *)
THEOREM HandlerIsRestored ==
  ASSUME Durations \subseteq {"positive"}
  PROVE  Spec => []HandlerRestored
BY HandlerInvariance, PTL

(* Its join() comes back without the child only when one of its own signal *)
(* handlers interrupts it: nothing else ends the waitpid it sleeps in.     *)
THEOREM JoinAlwaysCollects ==
  ASSUME Durations \subseteq {"positive"}
  PROVE  Spec => JoinCollects
<1>1. HandlerRestored /\ [Next]_vars => [CollectsOnReturn]_vars
  <2> SUFFICES ASSUME HandlerRestored, Next, at = "join", at' = "idle", active[cur]
               PROVE  AppSignal
    BY DEF CollectsOnReturn
  <2>1. disp = "default"
    BY DEF HandlerRestored, InCanJoin
  <2>2. ~Start /\ ~SleepElapses /\ ~ProgramEnded
    BY DEF Start, DefaultConstruct, Fork, Swap, Detach, Signal, Running, Join, CanJoin, Destroy,
           SleepElapses, ProgramEnded
  <2>3. ~Children
    BY <2>1 DEF Children, ChildReturns, ChildThrows, ChildKilled, ChildIgnores, ChildExecs,
                ChildElevates, Dies, SigChld
  <2>4. ~Continue
    <3>1. Continue => WaitReaps \/ WaitFindsNone \/ JoinReturns
      BY DEF Continue, ConstructorThrows, ConstructorReturns, RunningTrue, RunningFalse,
             InstallHandler, EnterSleep, SleepThrows, RestoreHandler, DtorTerminates, DtorKills
    <3> QED
      BY <3>1 DEF WaitReaps, WaitFindsNone, JoinReturns
  <2> QED
    BY <2>2, <2>3, <2>4 DEF Next
<1> QED BY <1>1, HandlerIsRestored, PTL DEF Spec, JoinCollects

=============================================================================
