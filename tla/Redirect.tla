------------------------------ MODULE Redirect -----------------------------
(***************************************************************************)
(* The redirected streams of app::process (process/process.cpp, 41 to 154, *)
(* process/filebuf.hpp): the constructor makes a pipe per stream, forks,   *)
(* wires one end of each to the child's standard descriptors and the other *)
(* to a filebuf of the object.  What matters is who holds which end under  *)
(* which number, so descriptor tables are modelled as the kernel keeps     *)
(* them: the lowest free number is handed out, a fork copies the table,    *)
(* and closing a number that is free does nothing.  The life of the child  *)
(* is the subject of Process; here it wires its descriptors, runs and ends. *)
(***************************************************************************)
EXTENDS Integers, Sequences, SequencesExt, FiniteSetsExt

CONSTANTS
  Objs,      \* process objects
  Children,  \* children, each forked once
  None,      \* no child, and no object
  Redirs,    \* sets of streams the program redirects
  Closable,  \* standard descriptors the program may close
  MaxFd      \* the largest descriptor: above it pipe() fails

ASSUME NoneAssumption == None \notin Children \cup Objs
ASSUME RedirsAssumption == Redirs \subseteq SUBSET {"cout", "cin", "cerr"}
ASSUME ClosableAssumption == Closable \subseteq 0 .. 2
ASSUME MaxFdAssumption == MaxFd \in Nat /\ MaxFd >= 2

VARIABLES
  (* the program *)
  ptab,      \* its descriptor table
  obj,       \* storage of an object: "none", "making" or "live"
  child,     \* the child an object has forked
  buf,       \* the descriptor of _M_cout, _M_cin, _M_cerr; -1 is a closed filebuf
  wired,     \* the stream cout, cin, cerr has this filebuf as its rdbuf()
  at,        \* the thread: "idle", "pipe" or "open"
  cur,       \* the object under construction
  todo,      \* redirected streams the current phase has not reached
  fd,        \* the locals out_fd, in_fd, err_fd
  (* the children *)
  state,     \* "unused", "wiring", "running", "escaped" or "ended"
  redir,     \* the streams that are redirected
  ctab, ctodo, cfd,  \* a child's descriptor table, and its copies of todo and fd
  (* history *)
  bare,      \* a standard descriptor was closed when the child was forked
  moved      \* the object took part in a move

thread == <<at, cur, todo, fd>>
members == <<child, buf, wired>>
kids == <<state, redir, ctab, ctodo, cfd, bare>>
vars == <<ptab, obj, members, thread, kids, moved>>

----------------------------------------------------------------------------
(* The redirected streams, in the order in which the code treats them. *)
Streams == {"cout", "cin", "cerr"}
Only(s, x) == IF s \in x THEN <<s>> ELSE <<>>
Redirected(x) == Only("cout", x) \o Only("cin", x) \o Only("cerr", x)

(* STDIN_FILENO, STDOUT_FILENO, STDERR_FILENO *)
FILENO == [cin |-> 0, cout |-> 1, cerr |-> 2]

(* The indices 0 (read) and 1 (write) of a pipe's ends. *)
ChildIdx(s) == IF s = "cin" THEN 0 ELSE 1
ParentIdx(s) == 1 - ChildIdx(s)

Fds == 0 .. MaxFd
Closed == <<"closed">>
Standard(n) == <<"standard", n>>
End(c, s, i) == <<c, s, i>>
Ends == Children \X Streams \X {0, 1}

NoFds == [s \in Streams |-> [i \in {0, 1} |-> -1]]
NoTable == [n \in Fds |-> Closed]

(* The numbers pipe() returns: the two lowest that are free. *)
Free(tab) == {n \in Fds : tab[n] = Closed}
Lowest(tab) == Min(Free(tab))
Second(tab) == Min(Free(tab) \ {Lowest(tab)})

(* close() of some numbers; discard() of -1 is none. *)
Without(tab, fds) == [n \in Fds |-> IF n \in fds THEN Closed ELSE tab[n]]
Both(f, s) == {f[s][0], f[s][1]}
All(f) == UNION {Both(f, s) : s \in Streams}

Init ==
  /\ ptab = [n \in Fds |-> IF n <= 2 THEN Standard(n) ELSE Closed]
  /\ obj = [o \in Objs |-> "none"]
  /\ child = [o \in Objs |-> None]
  /\ buf = [o \in Objs |-> [s \in Streams |-> -1]]
  /\ wired = [o \in Objs |-> [s \in Streams |-> FALSE]]
  /\ at = "idle" /\ cur = None /\ todo = <<>> /\ fd = NoFds
  /\ state = [c \in Children |-> "unused"]
  /\ redir = [c \in Children |-> {}]
  /\ ctab = [c \in Children |-> NoTable]
  /\ ctodo = [c \in Children |-> <<>>]
  /\ cfd = [c \in Children |-> NoFds]
  /\ bare = [c \in Children |-> FALSE]
  /\ moved = [o \in Objs |-> FALSE]

----------------------------------------------------------------------------
(* The constructor in the parent.                                          *)

Begin(o, c, x) ==
  /\ at = "idle" /\ obj[o] = "none" /\ state[c] = "unused"
  /\ obj' = [obj EXCEPT ![o] = "making"]
  /\ child' = [child EXCEPT ![o] = c]
  /\ redir' = [redir EXCEPT ![c] = x]
  /\ at' = "pipe" /\ cur' = o /\ todo' = Redirected(x) /\ fd' = NoFds
  /\ UNCHANGED <<ptab, buf, wired, state, ctab, ctodo, cfd, bare, moved>>

Pipe ==
  LET s == Head(todo)
      r == Lowest(ptab)
      w == Second(ptab)
      c == child[cur] IN
  /\ at = "pipe" /\ todo # <<>>
  /\ Cardinality(Free(ptab)) >= 2
  /\ ptab' = [ptab EXCEPT ![r] = End(c, s, 0), ![w] = End(c, s, 1)]
  /\ fd' = [fd EXCEPT ![s] = [i \in {0, 1} |-> IF i = 0 THEN r ELSE w]]
  /\ todo' = Tail(todo)
  /\ UNCHANGED <<obj, members, at, cur, kids, moved>>

Fork ==
  LET c == child[cur] IN
  /\ at = "pipe" /\ todo = <<>>
  /\ state' = [state EXCEPT ![c] = "wiring"]
  /\ ctab' = [ctab EXCEPT ![c] = ptab]
  /\ ctodo' = [ctodo EXCEPT ![c] = Redirected(redir[c])]
  /\ cfd' = [cfd EXCEPT ![c] = fd]
  /\ bare' = [bare EXCEPT ![c] = \E n \in 0 .. 2 : ptab[n] # Standard(n)]
  /\ at' = "open" /\ todo' = Redirected(redir[c])
  /\ UNCHANGED <<ptab, obj, members, cur, fd, redir, moved>>

(* open_if: the filebuf takes the parent's end, the other one is closed.   *)
Open ==
  LET s == Head(todo) IN
  /\ at = "open" /\ todo # <<>>
  /\ buf' = [buf EXCEPT ![cur][s] = fd[s][ParentIdx(s)]]
  /\ wired' = [wired EXCEPT ![cur][s] = TRUE]
  /\ ptab' = Without(ptab, {fd[s][ChildIdx(s)]})
  /\ todo' = Tail(todo)
  /\ UNCHANGED <<obj, child, at, cur, fd, kids, moved>>

(* Mutant: the filebufs outlive their object. *)
GoneKeepsBuffers(o) ==
  /\ obj' = [obj EXCEPT ![o] = "none"]
  /\ child' = [child EXCEPT ![o] = None]
  /\ moved' = [moved EXCEPT ![o] = FALSE]
  /\ UNCHANGED <<buf, wired>>

(* The members of object o are destroyed with it. *)
Gone(o) ==
  /\ obj' = [obj EXCEPT ![o] = "none"]
  /\ child' = [child EXCEPT ![o] = None]
  /\ buf' = [buf EXCEPT ![o] = [s \in Streams |-> -1]]
  /\ wired' = [wired EXCEPT ![o] = [s \in Streams |-> FALSE]]
  /\ moved' = [moved EXCEPT ![o] = FALSE]

(* The constructor is over, and so are its locals. *)
Idle == at' = "idle" /\ cur' = None /\ todo' = <<>> /\ fd' = NoFds

(* Mutant: an exception leaves the constructor without the cleaning up. *)
ThrowLeaks ==
  /\ at \in {"pipe", "open"}
  /\ Gone(cur)
  /\ ptab' = Without(ptab, {buf[cur][s] : s \in Streams})
  /\ redir' = [c \in Children |-> IF state[c] = "unused" THEN {} ELSE redir[c]]
  /\ Idle
  /\ UNCHANGED <<state, ctab, ctodo, cfd, bare>>

(* pipe, fork, fcntl, fdopen or setpgid fails: both ends of every pipe are *)
(* closed under the numbers they were made with, even those open_if has    *)
(* closed already, and then the filebufs close theirs once more.           *)
Throw ==
  /\ at \in {"pipe", "open"}
  /\ Gone(cur)
  /\ ptab' = Without(ptab, All(fd) \cup {buf[cur][s] : s \in Streams})
  /\ redir' = [c \in Children |-> IF state[c] = "unused" THEN {} ELSE redir[c]]
  /\ Idle
  /\ UNCHANGED <<state, ctab, ctodo, cfd, bare>>

Return ==
  /\ at = "open" /\ todo = <<>>
  /\ obj' = [obj EXCEPT ![cur] = "live"]
  /\ Idle
  /\ UNCHANGED <<ptab, members, kids, moved>>

----------------------------------------------------------------------------
(* The other operations of the object.                                     *)

DefaultConstruct(o) ==
  /\ at = "idle" /\ obj[o] = "none"
  /\ obj' = [obj EXCEPT ![o] = "live"]
  /\ UNCHANGED <<ptab, members, thread, kids, moved>>

Exchanged(f, a, b) == [f EXCEPT ![a] = f[b], ![b] = f[a]]

(* Move construction, move assignment and swap.  Swapping two streams      *)
(* swaps everything but their rdbuf().                                     *)
Swap(a, b) ==
  /\ at = "idle" /\ a # b /\ obj[a] = "live" /\ obj[b] = "live"
  /\ child' = Exchanged(child, a, b)
  /\ buf' = Exchanged(buf, a, b)
  /\ moved' = [moved EXCEPT ![a] = TRUE, ![b] = TRUE]
  /\ UNCHANGED <<ptab, obj, wired, thread, kids>>

(* The body of the destructor comes first (see Process), the filebufs last. *)
Destroy(o) ==
  /\ at = "idle" /\ obj[o] = "live"
  /\ Gone(o)
  /\ ptab' = Without(ptab, {buf[o][s] : s \in Streams})
  /\ UNCHANGED <<thread, kids>>

(* The program closes one of its own standard descriptors. *)
CloseStandard(n) ==
  /\ at = "idle" /\ ptab[n] = Standard(n)
  /\ ptab' = Without(ptab, {n})
  /\ UNCHANGED <<obj, members, thread, kids, moved>>

----------------------------------------------------------------------------
(* The child: dup_if for each stream, then the function.                   *)

(* Mutant: the child keeps the descriptors it has duplicated. *)
DupKeepsBoth(c) ==
  LET s == Head(ctodo[c]) IN
  /\ state[c] = "wiring" /\ ctodo[c] # <<>>
  /\ ctab' = [ctab EXCEPT ![c][FILENO[s]] = ctab[c][cfd[c][s][ChildIdx(s)]]]
  /\ ctodo' = [ctodo EXCEPT ![c] = Tail(@)]
  /\ UNCHANGED <<ptab, obj, members, thread, state, redir, cfd, bare, moved>>

(* Mutant: the two ends of the pipe are confused. *)
DupOtherEnd(c) ==
  LET s == Head(ctodo[c]) IN
  /\ state[c] = "wiring" /\ ctodo[c] # <<>>
  /\ ctab' = [ctab EXCEPT ![c] =
       Without([ctab[c] EXCEPT ![FILENO[s]] = ctab[c][cfd[c][s][ParentIdx(s)]]],
               Both(cfd[c], s))]
  /\ ctodo' = [ctodo EXCEPT ![c] = Tail(@)]
  /\ UNCHANGED <<ptab, obj, members, thread, state, redir, cfd, bare, moved>>

Dup(c) ==
  LET s == Head(ctodo[c])
      from == cfd[c][s][ChildIdx(s)]
      duplicated == [ctab[c] EXCEPT ![FILENO[s]] = ctab[c][from]] IN
  /\ state[c] = "wiring" /\ ctodo[c] # <<>>
  /\ ctab[c][from] # Closed
  /\ ctab' = [ctab EXCEPT ![c] = Without(duplicated, Both(cfd[c], s))]
  /\ ctodo' = [ctodo EXCEPT ![c] = Tail(@)]
  /\ UNCHANGED <<ptab, obj, members, thread, state, redir, cfd, bare, moved>>

(* dup2 fails: the exception leaves the constructor in the child, which    *)
(* goes on in the code that called it.                                     *)
DupThrows(c) ==
  /\ state[c] = "wiring" /\ ctodo[c] # <<>>
  /\ state' = [state EXCEPT ![c] = "escaped"]
  /\ ctab' = [ctab EXCEPT ![c] = Without(@, All(cfd[c]))]
  /\ ctodo' = [ctodo EXCEPT ![c] = <<>>]
  /\ cfd' = [cfd EXCEPT ![c] = NoFds]
  /\ UNCHANGED <<ptab, obj, members, thread, redir, bare, moved>>

Run(c) ==
  /\ state[c] = "wiring" /\ ctodo[c] = <<>>
  /\ state' = [state EXCEPT ![c] = "running"]
  /\ cfd' = [cfd EXCEPT ![c] = NoFds]
  /\ UNCHANGED <<ptab, obj, members, thread, redir, ctab, ctodo, bare, moved>>

(* A child ends, by itself or by a signal, wherever it is. *)
Finish(c) ==
  /\ state[c] \in {"wiring", "running", "escaped"}
  /\ state' = [state EXCEPT ![c] = "ended"]
  /\ ctab' = [ctab EXCEPT ![c] = NoTable]
  /\ ctodo' = [ctodo EXCEPT ![c] = <<>>]
  /\ cfd' = [cfd EXCEPT ![c] = NoFds]
  /\ UNCHANGED <<ptab, obj, members, thread, redir, bare, moved>>

Next ==
  \/ \E o \in Objs, c \in Children, x \in Redirs : Begin(o, c, x)
  \/ Pipe \/ Fork \/ Open \/ Throw \/ Return
  \/ \E o \in Objs : DefaultConstruct(o) \/ Destroy(o) \/ \E b \in Objs : Swap(o, b)
  \/ \E n \in Closable : CloseStandard(n)
  \/ \E c \in Children : Dup(c) \/ DupThrows(c) \/ Run(c) \/ Finish(c)

Spec == Init /\ [][Next]_vars

----------------------------------------------------------------------------
Tables == [Fds -> {Closed} \cup {Standard(n) : n \in 0 .. 2} \cup Ends]
(* Types; an object that does not exist holds nothing, and there are no    *)
(* locals between two operations.                                          *)
Locals == [Streams -> [{0, 1} -> Fds \cup {-1}]]

TypeOK ==
  /\ ptab \in Tables
  /\ obj \in [Objs -> {"none", "making", "live"}]
  /\ child \in [Objs -> Children \cup {None}]
  /\ buf \in [Objs -> [Streams -> Fds \cup {-1}]]
  /\ wired \in [Objs -> [Streams -> BOOLEAN]]
  /\ at \in {"idle", "pipe", "open"} /\ cur \in Objs \cup {None}
  /\ todo \in Seq(Streams) /\ fd \in Locals
  /\ state \in [Children -> {"unused", "wiring", "running", "escaped", "ended"}]
  /\ redir \in [Children -> SUBSET Streams]
  /\ ctab \in [Children -> Tables] /\ ctodo \in [Children -> Seq(Streams)]
  /\ cfd \in [Children -> Locals]
  /\ bare \in [Children -> BOOLEAN] /\ moved \in [Objs -> BOOLEAN]
  /\ \A o \in Objs : obj[o] = "none" =>
       child[o] = None /\ \A s \in Streams : buf[o][s] = -1 /\ ~wired[o][s]
  /\ at = "idle" <=> cur = None
  /\ at = "idle" => todo = <<>> /\ fd = NoFds

(* A child runs its function with the pipes on its redirected descriptors  *)
(* and its parent's descriptors on the others, unless the program had      *)
(* closed a standard descriptor of its own: then a pipe may get that       *)
(* number, and dup_if closes what it has just wired.  As long as an object *)
(* has not been moved, its streams read and write the pipes of its child.  *)
ChildWired ==
  /\ \A c \in Children : state[c] = "running" /\ ~bare[c] =>
       \A s \in Streams :
         ctab[c][FILENO[s]] = IF s \in redir[c] THEN End(c, s, ChildIdx(s))
                                                ELSE Standard(FILENO[s])
  /\ \A o \in Objs, s \in Streams :
       obj[o] = "live" /\ ~moved[o] /\ child[o] # None =>
         (wired[o][s] <=> s \in redir[child[o]])

(* Once the constructor is over, the end a child uses is held by that      *)
(* child alone and under one number, and the child holds no end of the     *)
(* other side: so its end tells its parent, and its parent's hanging up    *)
(* tells the child (once younger siblings, who inherit the parent's ends,  *)
(* have ended too).                                                        *)
Holds(tab, e) == \E n \in Fds : tab[n] = e
PrivateSide ==
  \A c \in Children, s \in Streams :
    LET mine == End(c, s, ChildIdx(s))
        theirs == End(c, s, ParentIdx(s)) IN
    /\ (\A o \in Objs : child[o] = c => obj[o] # "making") => ~Holds(ptab, mine)
    /\ \A d \in Children \ {c} : ~Holds(ctab[d], mine)
    /\ state[c] = "running" => ~Holds(ctab[c], theirs)
    /\ state[c] = "running" /\ ~bare[c] =>
         Cardinality({n \in Fds : ctab[c][n] = mine}) <= 1

(* Between two operations the program holds exactly the ends its filebufs  *)
(* own, each owned once and by the object whose child is at the other      *)
(* side: nothing leaks from a constructor that throws, and nobody closes a *)
(* descriptor under another object.                                        *)
ParentExact ==
  at = "idle" =>
    /\ \A n \in Fds : ptab[n] \in Ends =>
         Cardinality({os \in Objs \X Streams : buf[os[1]][os[2]] = n}) = 1
    /\ \A o \in Objs, s \in Streams : buf[o][s] # -1 =>
         ptab[buf[o][s]] = End(child[o], s, ParentIdx(s))

(* The streams of an object read and write the pipes of its child, also    *)
(* when it was moved.  It does not hold: the filebufs move and the streams *)
(* do not follow them (see MCRedirectMoved.cfg).                           *)
StreamsFollowMove ==
  \A o \in Objs, s \in Streams :
    obj[o] = "live" /\ child[o] # None =>
      (wired[o][s] <=> s \in redir[child[o]])
=============================================================================
