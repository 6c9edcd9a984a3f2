------------------------------ MODULE Process ------------------------------
(***************************************************************************)
(* app::process (process/process.hpp, process/process.cpp): the object     *)
(* that forks a child, polls it, waits for it, signals it and finally      *)
(* destroys it.  One thread of the program calls the operations; the       *)
(* children and the kernel run concurrently with it, so an operation is    *)
(* split at its system calls and nowhere else.  `at` is the place the      *)
(* thread has reached, `cur` the object it works on, `why` the caller that *)
(* running() returns to.  The pipes of a redirected child are the subject  *)
(* of Redirect; here a failing redirection is the step ConstructorThrows.  *)
(***************************************************************************)
EXTENDS Integers

CONSTANTS
  Objs,       \* process objects the program can hold
  Pids,       \* process ids fork() hands out; none is used twice
  NoChild,    \* the id of an object that has no child (0 in the code)
  Returns,    \* values the child's function can return
  Durations,  \* timeouts given to can_join: "positive" and "negative"
  AppSignals, \* TRUE: the program installs handlers of its own that interrupt
  Setuid      \* TRUE: a child can change its user id so that kill() is refused

ASSUME ObjsAssumption == Objs # {}
ASSUME PidsAssumption == NoChild \notin Pids
ASSUME ReturnsAssumption == Returns \subseteq Int
ASSUME DurationsAssumption == Durations \subseteq {"positive", "negative"}
ASSUME SwitchAssumption == AppSignals \in BOOLEAN /\ Setuid \in BOOLEAN

VARIABLES
  (* the kernel's view of the children *)
  state,     \* "free", "running", "zombie" or "reaped"
  fate,      \* how the child ended: what waitpid stores in its status word
  execd,     \* the child has called execve
  leader,    \* the child leads a process group of its own
  elevated,  \* kill() on the child fails with EPERM
  pend,      \* signals sent to the child and not delivered yet
  disp,      \* the program's SIGCHLD disposition: "default" or "noop"
  (* the members of the objects *)
  obj,       \* storage: "none", "making", "live" or "dying"
  id, active, group, code,
  (* the thread that calls the operations *)
  at, cur, why,
  dur, saved, joined   \* locals of can_join: time, sa_old, value

kernelVars == <<state, fate, execd, leader, elevated, pend>>
objVars == <<obj, id, active, group, code>>
joinVars == <<dur, saved, joined>>
vars == <<kernelVars, disp, objVars, at, cur, why, joinVars>>

----------------------------------------------------------------------------
SIGKILL == 9
SIGTERM == 15
Signals == {SIGKILL, SIGTERM}

(* The status word of waitpid: exit() keeps the low eight bits only. *)
Exited(n) == [kind |-> "exit", n |-> n % 256]
Signaled(s) == [kind |-> "term", n |-> s]
NoFate == [kind |-> "none", n |-> 0]
Fates == [kind : {"none", "exit", "term"}, n : 0 .. 255]

(* class exit_code: two members, each with its own "nothing" value. *)
NoCode == [code |-> -1, term |-> 0]
is_none(c) == c.code = -1 /\ c.term = 0
ExitCodes == [code : -1 .. 255, term : 0 .. 255]

(* Mutants: the status word taken as it is; the exit status sign-extended. *)
set_codeRaw(f) == [code |-> f.n * 256, term |-> 0]
set_codeSigned(f) ==
  IF f.kind = "exit" THEN [code |-> IF f.n > 127 THEN f.n - 256 ELSE f.n, term |-> 0]
                     ELSE [code |-> -1, term |-> f.n]

set_code(f) == IF f.kind = "exit" THEN [code |-> f.n, term |-> 0]
                                  ELSE [code |-> -1, term |-> f.n]

Unreaped(p) == state[p] \in {"running", "zombie"}

(* A child that waitpid(_M_group ? -_M_id : _M_id) can report. *)
Waitable(o) == /\ id[o] \in Pids
               /\ Unreaped(id[o])
               /\ group[o] => leader[id[o]]

(* The thread sleeps in the waitpid of join(). *)
JoinBlocked == /\ at = "join"
               /\ active[cur]
               /\ Waitable(cur)
               /\ state[id[cur]] = "running"

(* The operation is over and its locals are gone. *)
Finished ==
  /\ at' = "idle" /\ why' = "running"
  /\ dur' = "positive" /\ saved' = "default" /\ joined' = FALSE

Continues == UNCHANGED <<why, joinVars>>

Places == {"idle", "forked", "poll", "join", "arm", "armed", "asleep",
           "restore", "terminate", "kill", "gone"}
Callers == {"plain", "group", "running", "can_join", "woken", "dtor"}

Init ==
  /\ state = [p \in Pids |-> "free"]
  /\ fate = [p \in Pids |-> NoFate]
  /\ execd = [p \in Pids |-> FALSE]
  /\ leader = [p \in Pids |-> FALSE]
  /\ elevated = [p \in Pids |-> FALSE]
  /\ pend = [p \in Pids |-> {}]
  /\ disp = "default"
  /\ obj = [o \in Objs |-> "none"]
  /\ id = [o \in Objs |-> NoChild]
  /\ active = [o \in Objs |-> FALSE]
  /\ group = [o \in Objs |-> FALSE]
  /\ code = [o \in Objs |-> NoCode]
  /\ at = "idle" /\ cur \in Objs /\ why = "running"
  /\ dur = "positive" /\ saved = "default" /\ joined = FALSE

----------------------------------------------------------------------------
(* Construction.  fork() failing throws before anything has changed.       *)

DefaultConstruct(o) ==
  /\ at = "idle" /\ obj[o] = "none"
  /\ obj' = [obj EXCEPT ![o] = "live"]
  /\ UNCHANGED <<kernelVars, disp, id, active, group, code, at, cur, why, joinVars>>

Fork(o, p, kind) ==
  /\ at = "idle" /\ obj[o] = "none" /\ state[p] = "free"
  /\ state' = [state EXCEPT ![p] = "running"]
  /\ obj' = [obj EXCEPT ![o] = "making"]
  /\ id' = [id EXCEPT ![o] = p]
  /\ at' = "forked" /\ cur' = o /\ why' = kind
  /\ UNCHANGED <<fate, execd, leader, elevated, pend, disp, active, group, code, joinVars>>

(* The storage of object o is released; its members are gone with it. *)
Release(o) ==
  /\ obj' = [obj EXCEPT ![o] = "none"]
  /\ id' = [id EXCEPT ![o] = NoChild]
  /\ active' = [active EXCEPT ![o] = FALSE]
  /\ group' = [group EXCEPT ![o] = FALSE]
  /\ code' = [code EXCEPT ![o] = NoCode]

(* open_if throws, or setpgid fails with EACCES because the child has      *)
(* already replaced its image: the exception leaves the constructor, no    *)
(* destructor runs, and the child goes on.                                 *)
ConstructorThrows ==
  /\ at = "forked"
  /\ Release(cur)
  /\ Finished
  /\ UNCHANGED <<kernelVars, disp, cur>>

ConstructorReturns ==
  /\ at = "forked"
  /\ why = "group" => ~execd[id[cur]]
  /\ leader' = [leader EXCEPT ![id[cur]] = (why = "group")]
  /\ group' = [group EXCEPT ![cur] = (why = "group")]
  /\ active' = [active EXCEPT ![cur] = TRUE]
  /\ obj' = [obj EXCEPT ![cur] = "live"]
  /\ Finished
  /\ UNCHANGED <<state, fate, execd, elevated, pend, disp, id, code, cur>>

----------------------------------------------------------------------------
(* Operations that make at most one system call.                           *)

Swapped(f, a, b) == [f EXCEPT ![a] = f[b], ![b] = f[a]]

(* Mutants: a move that copies the id; one that forgets a member. *)
ExchangeCopiesId(a, b) ==
  /\ id' = [id EXCEPT ![a] = id[b]]
  /\ active' = Swapped(active, a, b) /\ group' = Swapped(group, a, b)
  /\ code' = Swapped(code, a, b)
ExchangeKeepsGroup(a, b) ==
  /\ id' = Swapped(id, a, b) /\ active' = Swapped(active, a, b)
  /\ code' = Swapped(code, a, b) /\ UNCHANGED group
ExchangeKeepsCode(a, b) ==
  /\ id' = Swapped(id, a, b) /\ active' = Swapped(active, a, b)
  /\ group' = Swapped(group, a, b) /\ UNCHANGED code

Exchange(a, b) ==
  /\ id' = Swapped(id, a, b)
  /\ active' = Swapped(active, a, b)
  /\ group' = Swapped(group, a, b)
  /\ code' = Swapped(code, a, b)

(* Move construction (b has just been default constructed), move           *)
(* assignment and swap are the same exchange.                              *)
Swap(a, b) ==
  /\ at = "idle" /\ a # b
  /\ obj[a] = "live" /\ obj[b] = "live"
  /\ Exchange(a, b)
  /\ UNCHANGED <<kernelVars, disp, obj, at, cur, why, joinVars>>

Detach(o) ==
  /\ at = "idle" /\ obj[o] = "live"
  /\ active' = [active EXCEPT ![o] = FALSE]
  /\ UNCHANGED <<kernelVars, disp, obj, id, group, code, at, cur, why, joinVars>>

(* kill() of an existing process; a zombie accepts and forgets a signal. *)
Deliver(o, s) ==
  pend' = [pend EXCEPT ![id[o]] =
             IF state[id[o]] = "running" THEN @ \cup {s} ELSE @]

(* signal() of an inactive object returns false, of an elevated child it   *)
(* throws, of a process that does not exist it returns false: nothing      *)
(* changes in any of the three.                                            *)
Signal(o, s) ==
  /\ at = "idle" /\ obj[o] = "live"
  /\ active[o] /\ Waitable(o) /\ ~elevated[id[o]]
  /\ Deliver(o, s)
  /\ UNCHANGED <<state, fate, execd, leader, elevated, disp, objVars, at, cur, why, joinVars>>

----------------------------------------------------------------------------
(* running() and join(): the waitpid loops.                                *)

Call(o, place, caller) ==
  /\ at' = place /\ cur' = o /\ why' = caller

Running(o) ==
  /\ at = "idle" /\ obj[o] = "live"
  /\ Call(o, "poll", "running")
  /\ UNCHANGED <<kernelVars, disp, objVars, joinVars>>

Join(o) ==
  /\ at = "idle" /\ obj[o] = "live"
  /\ Call(o, "join", "running")
  /\ UNCHANGED <<kernelVars, disp, objVars, joinVars>>

CanJoin(o, d) ==
  /\ at = "idle" /\ obj[o] = "live"
  /\ Call(o, "poll", "can_join")
  /\ dur' = d
  /\ UNCHANGED <<kernelVars, disp, objVars, saved, joined>>

Destroy(o) ==
  /\ at = "idle" /\ obj[o] = "live"
  /\ obj' = [obj EXCEPT ![o] = "dying"]
  /\ Call(o, "poll", "dtor")
  /\ UNCHANGED <<kernelVars, disp, id, active, group, code, joinVars>>

(* waitpid returns the child: it is reaped, the kernel forgets it, its     *)
(* status is recorded, and the loop goes round again.                      *)
WaitReaps ==
  /\ at \in {"poll", "join"} /\ active[cur]
  /\ Waitable(cur) /\ state[id[cur]] = "zombie"
  /\ state' = [state EXCEPT ![id[cur]] = "reaped"]
  /\ execd' = [execd EXCEPT ![id[cur]] = FALSE]
  /\ leader' = [leader EXCEPT ![id[cur]] = FALSE]
  /\ elevated' = [elevated EXCEPT ![id[cur]] = FALSE]
  /\ code' = [code EXCEPT ![cur] = set_code(fate[id[cur]])]
  /\ UNCHANGED <<fate, pend, disp, obj, id, active, group, at, cur, why, joinVars>>

(* waitpid fails with ECHILD: no child is left to wait for. *)
WaitFindsNone ==
  /\ at \in {"poll", "join"} /\ active[cur]
  /\ ~Waitable(cur)
  /\ active' = [active EXCEPT ![cur] = FALSE]
  /\ UNCHANGED <<kernelVars, disp, obj, id, group, code, at, cur, why, joinVars>>

(* Mutant: join() returns as soon as it has the exit code. *)
JoinReturnsEarly ==
  /\ at = "join" /\ (~active[cur] \/ ~is_none(code[cur]))
  /\ Finished
  /\ UNCHANGED <<kernelVars, disp, objVars, cur>>

JoinReturns ==
  /\ at = "join" /\ ~active[cur]
  /\ Finished
  /\ UNCHANGED <<kernelVars, disp, objVars, cur>>

(* can_join returns value to the program or to the destructor. *)
CanJoinReturns(value) ==
  IF obj[cur] = "dying" /\ ~value
  THEN at' = "kill" /\ UNCHANGED objVars /\ Continues
  ELSE /\ Finished
       /\ IF obj[cur] = "dying" THEN Release(cur) ELSE UNCHANGED objVars

(* waitpid(WNOHANG) returns 0: running() is true. *)
RunningTrue ==
  /\ at = "poll" /\ active[cur]
  /\ Waitable(cur) /\ state[id[cur]] = "running"
  /\ IF why = "running" THEN Finished ELSE
       /\ at' = CASE why = "can_join" -> "arm"
                  [] why = "woken"    -> "armed"
                  [] OTHER            -> "terminate"
       /\ Continues
  /\ UNCHANGED <<kernelVars, disp, objVars, cur>>

(* the loop ends because _M_active is false: running() is false. *)
RunningFalse ==
  /\ at = "poll" /\ ~active[cur]
  /\ CASE why = "can_join" -> CanJoinReturns(TRUE)
       [] why = "woken"    -> /\ at' = "restore" /\ joined' = TRUE
                              /\ UNCHANGED <<objVars, why, dur, saved>>
       [] why = "dtor"     -> Release(cur) /\ Finished
       [] OTHER            -> UNCHANGED objVars /\ Finished
  /\ UNCHANGED <<kernelVars, disp, cur>>

----------------------------------------------------------------------------
(* can_join(): a SIGCHLD handler that does nothing, so that the death of a *)
(* child cuts nanosleep short.                                             *)

InstallHandler ==
  /\ at = "arm"
  /\ saved' = disp /\ disp' = "noop"
  /\ at' = "armed"
  /\ UNCHANGED <<kernelVars, objVars, cur, why, dur, joined>>

EnterSleep ==
  /\ at = "armed" /\ dur = "positive"
  /\ at' = "asleep"
  /\ UNCHANGED <<kernelVars, disp, objVars, cur, why, joinVars>>

(* nanosleep refuses a negative time with EINVAL and can_join throws on   *)
(* the spot, past the sigaction that would restore the old handler.        *)
SleepThrows ==
  /\ at = "armed" /\ dur = "negative"
  /\ Finished
  /\ UNCHANGED <<kernelVars, disp, objVars, cur>>

(* Mutants: value starts as true; the end of the sleep is not noticed. *)
SleepElapsesTrue ==
  /\ at = "asleep"
  /\ at' = "restore" /\ joined' = TRUE
  /\ UNCHANGED <<kernelVars, disp, objVars, cur, why, dur, saved>>
SleepRestarts ==
  /\ at = "asleep"
  /\ at' = "armed"
  /\ UNCHANGED <<kernelVars, disp, objVars, cur, why, joinVars>>

SleepElapses ==
  /\ at = "asleep"
  /\ at' = "restore" /\ joined' = FALSE
  /\ UNCHANGED <<kernelVars, disp, objVars, cur, why, dur, saved>>

(* Mutant: the old handler is put back only when the child was joined. *)
RestoreIfJoined ==
  /\ at = "restore"
  /\ disp' = IF joined THEN saved ELSE disp
  /\ CanJoinReturns(joined)
  /\ UNCHANGED <<kernelVars, cur>>

RestoreHandler ==
  /\ at = "restore"
  /\ disp' = saved
  /\ CanJoinReturns(joined)
  /\ UNCHANGED <<kernelVars, cur>>

----------------------------------------------------------------------------
(* ~process(): terminate, three seconds of grace, kill.  The catch(...) is *)
(* the handler of the destructor's function-try-block: at its end the      *)
(* exception of a refused kill() is thrown on, out of a destructor that is *)
(* noexcept, and std::terminate ends the program ("gone"): no object is    *)
(* released any more, and the children go on without it.                   *)
(* Mutants: the destructor asks a second time instead of killing; the      *)
(* exception is swallowed and the storage of the object released.          *)
DtorAsksAgain ==
  /\ at = "kill"
  /\ IF elevated[id[cur]]
     THEN at' = "gone" /\ UNCHANGED <<pend, objVars>> /\ Continues
     ELSE Deliver(cur, SIGTERM) /\ Release(cur) /\ Finished
  /\ UNCHANGED <<state, fate, execd, leader, elevated, disp, cur>>
DtorSwallows ==
  /\ at = "terminate"
  /\ IF elevated[id[cur]]
     THEN Release(cur) /\ Finished /\ UNCHANGED pend
     ELSE /\ Deliver(cur, SIGTERM)
          /\ at' = "poll" /\ why' = "can_join" /\ dur' = "positive"
          /\ UNCHANGED <<objVars, saved, joined>>
  /\ UNCHANGED <<state, fate, execd, leader, elevated, disp, cur>>

DtorTerminates ==
  /\ at = "terminate"
  /\ IF elevated[id[cur]]
     THEN at' = "gone" /\ UNCHANGED <<pend, why, dur>>
     ELSE /\ Deliver(cur, SIGTERM)
          /\ at' = "poll" /\ why' = "can_join" /\ dur' = "positive"
  /\ UNCHANGED <<state, fate, execd, leader, elevated, disp, objVars, cur, saved, joined>>

DtorKills ==
  /\ at = "kill"
  /\ IF elevated[id[cur]]
     THEN at' = "gone" /\ UNCHANGED <<pend, objVars>> /\ Continues
     ELSE Deliver(cur, SIGKILL) /\ Release(cur) /\ Finished
  /\ UNCHANGED <<state, fate, execd, leader, elevated, disp, cur>>

(* std::terminate has ended the program; its children outlive it. *)
ProgramEnded == at = "gone" /\ UNCHANGED vars

----------------------------------------------------------------------------
(* The children, from how the constructor runs them, and the kernel.       *)

(* A signal with a handler ends nanosleep and a blocking waitpid early:    *)
(* can_join polls and sleeps on, join() throws and leaves _M_active set.   *)
Interrupt ==
  CASE at = "asleep" -> at' = "poll" /\ why' = "woken" /\ UNCHANGED joinVars
    [] JoinBlocked   -> Finished
    [] OTHER         -> UNCHANGED <<at, why, joinVars>>

(* SIGCHLD for child p.  In the default disposition it is discarded.  A    *)
(* blocked join() of p itself returns p instead of failing.                *)
SigChld(p) ==
  IF disp = "noop" /\ ~(JoinBlocked /\ id[cur] = p)
  THEN Interrupt ELSE UNCHANGED <<at, why, joinVars>>

Dies(p, how) ==
  /\ state[p] = "running"
  /\ state' = [state EXCEPT ![p] = "zombie"]
  /\ fate' = [fate EXCEPT ![p] = how]
  /\ pend' = [pend EXCEPT ![p] = {}]
  /\ SigChld(p)
  /\ UNCHANGED <<execd, leader, elevated, disp, objVars, cur>>

(* The child's function returns and the child calls exit(). *)
ChildReturns(p, r) == Dies(p, Exited(r))

(* The child's function throws and the child calls exit(EXIT_FAILURE). *)
ChildThrows(p) == Dies(p, Exited(1))

ChildKilled(p, s) == s \in pend[p] /\ Dies(p, Signaled(s))

(* The child catches or ignores SIGTERM and goes on. *)
ChildIgnores(p) ==
  /\ state[p] = "running" /\ SIGTERM \in pend[p]
  /\ pend' = [pend EXCEPT ![p] = @ \ {SIGTERM}]
  /\ UNCHANGED <<state, fate, execd, leader, elevated, disp, objVars, at, cur, why, joinVars>>

(* this_process::replace in the child. *)
ChildExecs(p) ==
  /\ state[p] = "running" /\ ~execd[p]
  /\ execd' = [execd EXCEPT ![p] = TRUE]
  /\ UNCHANGED <<state, fate, leader, elevated, pend, disp, objVars, at, cur, why, joinVars>>

ChildElevates(p) ==
  /\ Setuid /\ state[p] = "running" /\ ~elevated[p]
  /\ elevated' = [elevated EXCEPT ![p] = TRUE]
  /\ UNCHANGED <<state, fate, execd, leader, pend, disp, objVars, at, cur, why, joinVars>>

AppSignal ==
  /\ AppSignals /\ (at = "asleep" \/ JoinBlocked)
  /\ Interrupt
  /\ UNCHANGED <<kernelVars, disp, objVars, cur>>

----------------------------------------------------------------------------
Start == \E o \in Objs :
  \/ DefaultConstruct(o)
  \/ \E p \in Pids, kind \in {"plain", "group"} : Fork(o, p, kind)
  \/ \E b \in Objs : Swap(o, b)
  \/ Detach(o)
  \/ \E s \in Signals : Signal(o, s)
  \/ Running(o)
  \/ Join(o)
  \/ \E d \in Durations : CanJoin(o, d)
  \/ Destroy(o)

(* The steps of the operation the thread is in, once it has started. *)
Continue ==
  \/ ConstructorThrows \/ ConstructorReturns
  \/ WaitReaps \/ WaitFindsNone \/ JoinReturns
  \/ RunningTrue \/ RunningFalse
  \/ InstallHandler \/ EnterSleep \/ SleepThrows \/ RestoreHandler
  \/ DtorTerminates \/ DtorKills

Children == \E p \in Pids :
  \/ \E r \in Returns : ChildReturns(p, r)
  \/ ChildThrows(p)
  \/ \E s \in Signals : ChildKilled(p, s)
  \/ ChildIgnores(p)
  \/ ChildExecs(p)
  \/ ChildElevates(p)

Next == Start \/ Continue \/ SleepElapses \/ Children \/ AppSignal \/ ProgramEnded

Spec == Init /\ [][Next]_vars

(* The thread runs on, time passes while it sleeps (nanosleep is restarted *)
(* with the time that is left, so interruptions cannot stop the clock),    *)
(* and the kernel carries out a SIGKILL.                                   *)
Fairness ==
  /\ WF_vars(Continue)
  /\ SF_vars(SleepElapses)
  /\ \A p \in Pids : WF_vars(ChildKilled(p, SIGKILL))

FairSpec == Spec /\ Fairness

----------------------------------------------------------------------------
(* Every variable keeps its type.                                          *)
TypeOK ==
  /\ state \in [Pids -> {"free", "running", "zombie", "reaped"}]
  /\ fate \in [Pids -> Fates]
  /\ execd \in [Pids -> BOOLEAN]
  /\ leader \in [Pids -> BOOLEAN]
  /\ elevated \in [Pids -> BOOLEAN]
  /\ pend \in [Pids -> SUBSET Signals]
  /\ disp \in {"default", "noop"}
  /\ obj \in [Objs -> {"none", "making", "live", "dying"}]
  /\ id \in [Objs -> Pids \cup {NoChild}]
  /\ active \in [Objs -> BOOLEAN]
  /\ group \in [Objs -> BOOLEAN]
  /\ code \in [Objs -> ExitCodes]
  /\ at \in Places /\ cur \in Objs /\ why \in Callers
  /\ dur \in {"positive", "negative"}
  /\ saved \in {"default", "noop"}
  /\ joined \in BOOLEAN

InLoop(o) == at \in {"poll", "join"} /\ cur = o

(* kill() and waitpid() get the id of an active object's child: outside    *)
(* the waitpid loops that id belongs to a child nobody has reaped, so the  *)
(* kernel cannot have given it to a stranger.                              *)
OwnedUnreaped ==
  \A o \in Objs : active[o] /\ ~InLoop(o) => id[o] \in Pids /\ Unreaped(id[o])

(* However objects are moved, assigned and swapped, a child is known to    *)
(* one object at most: two destructors never fight for it.                 *)
SoleOwner ==
  \A a, b \in Objs : id[a] = id[b] /\ id[a] # NoChild => a = b

(* An object that addresses its child as a group has made the child the    *)
(* leader of that group: otherwise waitpid(-id) would find no child and    *)
(* kill(-id) would miss it.                                                *)
GroupLed ==
  \A o \in Objs :
    active[o] /\ group[o] /\ ~InLoop(o) => id[o] \in Pids /\ leader[id[o]]

(* exit_code() is "none" exactly while the child is not collected, and     *)
(* then says how this object's child ended; an exit status never looks     *)
(* like the sentinel -1, whatever the child's function returned.           *)
ExitCodeTruth ==
  \A o \in Objs :
    IF id[o] \in Pids /\ state[id[o]] = "reaped"
    THEN ~is_none(code[o]) /\ code[o] = set_code(fate[id[o]])
    ELSE is_none(code[o])

(* When the wait of can_join() is over, "joined" means that the child is   *)
(* collected, and "not joined" that the object still owns it: what the     *)
(* destructor's decision to kill rests on.                                 *)
JoinVerdict ==
  at = "restore" => IF joined THEN ~active[cur] /\ ~is_none(code[cur])
                              ELSE active[cur] /\ Unreaped(id[cur])

InCanJoin == at \in {"armed", "asleep", "restore"} \/ (at = "poll" /\ why = "woken")

(* The do-nothing SIGCHLD handler is in place during can_join() and at no  *)
(* other time.  True as long as no timeout is negative (see SleepThrows).  *)
HandlerRestored == disp = IF InCanJoin THEN "noop" ELSE "default"

(* join() comes back with its child collected, unless a handler of the     *)
(* program's own interrupts it: the handler of an earlier can_join() never *)
(* cuts a later join() short.                                              *)
CollectsOnReturn == at = "join" /\ at' = "idle" /\ active[cur] => AppSignal
JoinCollects == [][CollectsOnReturn]_vars

Owned(p) == \E o \in Objs : id[o] = p /\ (active[o] \/ obj[o] = "making")

(* A child loses its owner before it is reaped in three ways only: the     *)
(* program detaches the object that has it, the constructor throws after   *)
(* fork(), or the destructor has polled it and waited for it, and by the   *)
(* time it lets go the child is dead or a SIGKILL awaits it.               *)
Detached(p) ==
  /\ at = "idle"
  /\ \E o \in Objs : id[o] = p /\ active[o] /\ id'[o] = p /\ obj'[o] = "live"
LosesLegally ==
  \A p \in Pids :
    Owned(p) /\ ~Owned(p)' /\ Unreaped(p)' =>
      \/ Detached(p)
      \/ at = "forked" /\ id[cur] = p
      \/ at = "kill" /\ id[cur] = p /\ (state[p] = "zombie" \/ SIGKILL \in pend'[p])
AbandonedLegally == [][LosesLegally]_vars

(* A kill() that the child's new user id refuses ended the program. *)
Refused == at = "gone" /\ elevated[id[cur]]

(* The destructor comes back, though the child may ignore SIGTERM and      *)
(* signals may interrupt its three seconds again and again, and it ends a  *)
(* child that is running; the one other outcome is the end of the program, *)
(* and only when kill() is refused.                                        *)
DtorEnds ==
  /\ \A o \in Objs : obj[o] = "dying" ~> obj[o] = "none" \/ Refused
  /\ \A o \in Objs, p \in Pids :
       obj[o] = "dying" /\ active[o] /\ id[o] = p ~> state[p] # "running" \/ Refused

(* can_join() comes back, however often it is interrupted; join() does     *)
(* once its child is dead.                                                 *)
WaitsEnd ==
  /\ InCanJoin ~> ~InCanJoin
  /\ (at = "join" /\ (active[cur] => state[id[cur]] # "running")) ~> at # "join"

----------------------------------------------------------------------------
(* An object holds its child from fork() until it collects it or gives it  *)
(* up; what it tells is its exit_code.                                     *)
Holds(o) ==
  /\ id[o] \in Pids /\ Unreaped(id[o])
  /\ active[o] \/ obj[o] = "making"

Held == [o \in Objs |-> IF Holds(o) THEN id[o] ELSE NoChild]
Life == [p \in Pids |-> CASE state[p] = "free"    -> "unborn"
                          [] state[p] = "running" -> "alive"
                          [] state[p] = "zombie"  -> "dead"
                          [] state[p] = "reaped"  -> "collected"]
Ending == [p \in Pids |-> set_code(fate[p])]
Endings == {set_code(Exited(r)) : r \in Returns \cup {1}}
           \cup {set_code(Signaled(s)) : s \in Signals}
Dying == {o \in Objs : obj[o] = "dying"}
Doomed == {p \in Pids : SIGKILL \in pend[p]}

Handle == INSTANCE ChildHandle WITH
  Handles <- Objs, Children <- Pids, Nobody <- NoChild,
  Endings <- Endings, Unknown <- NoCode,
  life <- Life, ending <- Ending, held <- Held, told <- code,
  dying <- Dying, doomed <- Doomed

(* Every step of Process is a step of ChildHandle or leaves it unchanged:  *)
(* in particular nothing but waitpid by the owner collects a child, no     *)
(* object gets hold of a child another one gave up, and no destructor      *)
(* comes back with its child alive and no SIGKILL on its way.              *)
ImplementsHandle == Handle!Spec

=============================================================================
