------------------------------- MODULE Files -------------------------------
(***************************************************************************)
(* The classes that wrap one descriptor: storage::file (storage/file.cpp)  *)
(* and app::socket with net::socket and unix::socket (socket/, net/,       *)
(* unix/).  One thread calls the operations; the descriptions behind the   *)
(* descriptors may be shared with a child of the program, which moves the  *)
(* offset, and the file belongs to everybody, who changes its length.      *)
(* All files are one file, of which only offsets and the length are kept.  *)
(* A call of the kernel that fails and changes nothing is no step.         *)
(***************************************************************************)
EXTENDS Integers, FiniteSets

CONSTANTS
  FileObjs, SockObjs, \* objects
  Closable, \* standard descriptors the program may close
  MaxFd,   \* largest descriptor of the program
  MaxLen   \* longest file

ASSUME ObjsAssumption == FileObjs \cap SockObjs = {}
ASSUME FdAssumption == MaxFd \in Nat /\ MaxFd >= 3
ASSUME ClosableAssumption == Closable \subseteq 0 .. 2
ASSUME LenAssumption == MaxLen \in Nat

VARIABLES
  table,   \* the kernel: what a descriptor is, "closed", "std", "file" or "sock"
  offset,  \* the offset of its description
  shared,  \* descriptors whose description a child has too
  len,     \* length of the file
  live,    \* objects that exist
  fd,      \* the member _M_fd
  at, cur, \* place in eof() or size(), its object
  n, e,    \* their locals
  (* history *)
  lost,    \* descriptors that are open and that no object knows any more
  was,     \* the offset when eof() or size() began
  quiet    \* since then nobody else touched the description or the file

kernelVars == <<table, offset, shared, len>>
askVars == <<at, cur, n, e, was, quiet>>
vars == <<kernelVars, live, fd, askVars, lost>>

Objs == FileObjs \cup SockObjs
Fds == 0 .. MaxFd
Std == 0 .. 2
invalid == -1
Lengths == 0 .. MaxLen

Init ==
  /\ table = [x \in Fds |-> IF x \in Std THEN "std" ELSE "closed"]
  /\ offset = [x \in Fds |-> 0] /\ shared = {} /\ len \in Lengths
  /\ live = {} /\ fd = [o \in Objs |-> invalid] /\ lost = {}
  /\ at = "idle" /\ cur \in FileObjs /\ n = 0 /\ e = 0 /\ was = 0 /\ quiet = TRUE

----------------------------------------------------------------------------
(* Descriptors.                                                            *)

(* The kernel opens the lowest free descriptor. *)
Lowest(x) == table[x] = "closed" /\ \A y \in Fds : table[y] = "closed" => x <= y

Opens(x, kind) ==
  /\ Lowest(x)
  /\ table' = [table EXCEPT ![x] = kind]
  /\ offset' = [offset EXCEPT ![x] = 0]

Shuts(x) ==
  /\ table' = [table EXCEPT ![x] = "closed"]
  /\ offset' = [offset EXCEPT ![x] = 0]
  /\ shared' = shared \ {x}

DefaultConstruct(o) ==
  /\ at = "idle" /\ o \notin live
  /\ live' = live \cup {o}
  /\ UNCHANGED <<kernelVars, fd, askVars, lost>>

(* file(name, open, opt): trunc is one of the options. *)
OpenFile(f, x, trunc) ==
  /\ at = "idle" /\ f \in FileObjs \ live
  /\ Opens(x, "file")
  /\ len' = IF trunc THEN 0 ELSE len
  /\ fd' = [fd EXCEPT ![f] = x] /\ live' = live \cup {f}
  /\ UNCHANGED <<shared, askVars, lost>>

(* When the option of a net::socket cannot be set, the base class has been *)
(* constructed and its destructor closes the descriptor: no change.        *)
OpenSocket(s, x) ==
  /\ at = "idle" /\ s \in SockObjs \ live
  /\ Opens(x, "sock")
  /\ fd' = [fd EXCEPT ![s] = x] /\ live' = live \cup {s}
  /\ UNCHANGED <<shared, len, askVars, lost>>

(* accept() stores what it got, a descriptor or -1, over what socket s     *)
(* had; s may be the listening socket itself.                              *)
Accept(l, s, x) ==
  /\ at = "idle" /\ {l, s} \subseteq live \cap SockObjs
  /\ \/ fd[l] # invalid /\ x \in Fds /\ Opens(x, "sock")
     \/ x = invalid /\ UNCHANGED <<table, offset>>
  /\ fd' = [fd EXCEPT ![s] = x]
  /\ lost' = lost \cup ({fd[s]} \ {invalid})
  /\ UNCHANGED <<shared, len, live, askVars>>

(* Mutant: close() leaves the member. *)
ClosingKeepsMember(o) ==
  IF fd[o] = invalid THEN UNCHANGED <<table, offset, shared, fd, lost>> ELSE
    /\ IF o \in FileObjs /\ fd[o] \in Std
       THEN lost' = lost \cup {fd[o]} /\ UNCHANGED <<table, offset, shared>>
       ELSE Shuts(fd[o]) /\ UNCHANGED lost
    /\ UNCHANGED fd

(* file::close() forgets the three standard descriptors and leaves them    *)
(* open, whatever they are; socket::close() closes any.                    *)
Closing(o) ==
  IF fd[o] = invalid THEN UNCHANGED <<table, offset, shared, fd, lost>> ELSE
    /\ IF o \in FileObjs /\ fd[o] \in Std
       THEN lost' = lost \cup {fd[o]} /\ UNCHANGED <<table, offset, shared>>
       ELSE Shuts(fd[o]) /\ UNCHANGED lost
    /\ fd' = [fd EXCEPT ![o] = invalid]

Close(o) ==
  /\ at = "idle" /\ o \in live
  /\ Closing(o)
  /\ UNCHANGED <<len, live, askVars>>

Destroy(o) ==
  /\ at = "idle" /\ o \in live
  /\ Closing(o)
  /\ live' = live \ {o}
  /\ UNCHANGED <<len, askVars>>

(* Mutant: a move that copies. *)
SwapCopies(a, b) ==
  /\ at = "idle" /\ a # b
  /\ {a, b} \subseteq live /\ ({a, b} \subseteq FileObjs \/ {a, b} \subseteq SockObjs)
  /\ fd' = [fd EXCEPT ![a] = fd[b]]
  /\ UNCHANGED <<kernelVars, live, askVars, lost>>

(* Move construction, move assignment and swap, within a class. *)
Swap(a, b) ==
  /\ at = "idle" /\ a # b
  /\ {a, b} \subseteq live /\ ({a, b} \subseteq FileObjs \/ {a, b} \subseteq SockObjs)
  /\ fd' = [fd EXCEPT ![a] = fd[b], ![b] = fd[a]]
  /\ UNCHANGED <<kernelVars, live, askVars, lost>>

(* The program closes a standard descriptor, as a daemon does. *)
CloseStd(x) ==
  /\ at = "idle" /\ x \in Closable /\ table[x] = "std"
  /\ Shuts(x)
  /\ UNCHANGED <<len, live, fd, askVars, lost>>

----------------------------------------------------------------------------
(* The offset.                                                             *)

Usable(f) == at = "idle" /\ f \in live \cap FileObjs /\ fd[f] # invalid

(* read() stays within the file, write() ends at new. *)
ReadOrWrite(f, new) ==
  /\ Usable(f) /\ new >= offset[fd[f]]
  /\ offset' = [offset EXCEPT ![fd[f]] = new]
  /\ len' = IF new > len THEN new ELSE len
  /\ UNCHANGED <<table, shared, live, fd, askVars, lost>>

seek(f, new) ==
  /\ Usable(f)
  /\ offset' = [offset EXCEPT ![fd[f]] = new]
  /\ UNCHANGED <<table, shared, len, live, fd, askVars, lost>>

truncate(f, length) ==
  /\ Usable(f)
  /\ len' = length
  /\ UNCHANGED <<table, offset, shared, live, fd, askVars, lost>>

(* eof() and size() begin with tell(). *)
Ask(f) ==
  /\ Usable(f)
  /\ at' = "told" /\ cur' = f /\ n' = offset[fd[f]] /\ e' = 0
  /\ was' = offset[fd[f]] /\ quiet' = TRUE
  /\ UNCHANGED <<kernelVars, live, fd, lost>>

(* Mutant: one too far. *)
SeekEndPast ==
  /\ at = "told"
  /\ at' = "end" /\ e' = len + 1
  /\ offset' = [offset EXCEPT ![fd[cur]] = len + 1]
  /\ UNCHANGED <<table, shared, len, live, fd, cur, n, was, quiet, lost>>

SeekEnd ==
  /\ at = "told"
  /\ at' = "end" /\ e' = len
  /\ offset' = [offset EXCEPT ![fd[cur]] = len]
  /\ UNCHANGED <<table, shared, len, live, fd, cur, n, was, quiet, lost>>

(* Mutant: the wrong local. *)
SeekBackToEnd ==
  /\ at = "end"
  /\ at' = "answered"
  /\ offset' = [offset EXCEPT ![fd[cur]] = e]
  /\ UNCHANGED <<table, shared, len, live, fd, cur, n, e, was, quiet, lost>>

(* seek(n); eof() returns n == e, size() returns e. *)
SeekBack ==
  /\ at = "end"
  /\ at' = "answered"
  /\ offset' = [offset EXCEPT ![fd[cur]] = n]
  /\ UNCHANGED <<table, shared, len, live, fd, cur, n, e, was, quiet, lost>>

(* The second or the third lseek fails and the call throws. *)
SeekThrows ==
  /\ at \in {"told", "end"}
  /\ at' = IF at = "told" THEN "refused" ELSE "stuck"
  /\ UNCHANGED <<kernelVars, live, fd, cur, n, e, was, quiet, lost>>

Answer ==
  /\ at \in {"answered", "refused", "stuck"}
  /\ at' = "idle" /\ n' = 0 /\ e' = 0 /\ was' = 0 /\ quiet' = TRUE
  /\ UNCHANGED <<kernelVars, live, fd, cur, lost>>

(* The program forks: a child has every description too; only those of     *)
(* files are looked at.                                                    *)
Fork ==
  /\ at = "idle"
  /\ shared' = {x \in Fds : table[x] = "file"}
  /\ UNCHANGED <<table, offset, len, live, fd, askVars, lost>>

(* The child seeks or reads. *)
ChildMoves(x, new) ==
  /\ x \in shared
  /\ offset' = [offset EXCEPT ![x] = new]
  /\ quiet' = (quiet /\ (at = "idle" \/ x # fd[cur]))
  /\ UNCHANGED <<table, shared, len, live, fd, at, cur, n, e, was, lost>>

(* Another process writes to the file or truncates it. *)
OthersWrite(length) ==
  /\ len' = length
  /\ quiet' = (at = "idle")
  /\ UNCHANGED <<table, offset, shared, live, fd, at, cur, n, e, was, lost>>

Next ==
  \/ \E o \in Objs : DefaultConstruct(o) \/ Close(o) \/ Destroy(o)
  \/ \E a, b \in Objs : Swap(a, b)
  \/ \E x \in Fds :
       \/ \E f \in FileObjs, trunc \in BOOLEAN : OpenFile(f, x, trunc)
       \/ \E s \in SockObjs : OpenSocket(s, x)
       \/ CloseStd(x)
       \/ \E new \in Lengths : ChildMoves(x, new)
  \/ \E l, s \in SockObjs, x \in Fds \cup {invalid} : Accept(l, s, x)
  \/ \E f \in FileObjs :
       Ask(f) \/ \E k \in Lengths : ReadOrWrite(f, k) \/ seek(f, k) \/ truncate(f, k)
  \/ SeekEnd \/ SeekBack \/ SeekThrows \/ Answer
  \/ Fork
  \/ \E length \in Lengths : OthersWrite(length)

Spec == Init /\ [][Next]_vars

----------------------------------------------------------------------------
TypeOK ==
  /\ table \in [Fds -> {"closed", "std", "file", "sock"}]
  /\ offset \in [Fds -> Lengths] /\ shared \subseteq Fds /\ len \in Lengths
  /\ live \subseteq Objs /\ fd \in [Objs -> Fds \cup {invalid}]
  /\ at \in {"idle", "told", "end", "answered", "refused", "stuck"}
  /\ cur \in FileObjs /\ n \in Lengths /\ e \in Lengths
  /\ lost \subseteq Fds /\ was \in Lengths /\ quiet \in BOOLEAN

Kind(o) == IF o \in FileObjs THEN "file" ELSE "sock"

(* Descriptors are accounted for: what an object holds is open, is of its  *)
(* kind and is held by no other object, so that nothing is closed under    *)
(* another or twice; and what is open is held, or was there from the       *)
(* start, or was lost in one of two ways: a socket that was open was given *)
(* to accept(), or a file had one of the three lowest descriptors.         *)
Accounted ==
  /\ \A o \in Objs : fd[o] # invalid =>
       /\ o \in live /\ table[fd[o]] = Kind(o) /\ fd[o] \notin lost
       /\ \A p \in Objs : fd[p] = fd[o] => p = o
  /\ \A x \in Fds :
       \/ table[x] \in {"closed", "std"} /\ x \notin lost
       \/ \E o \in Objs : fd[o] = x
       \/ x \in lost /\ (table[x] = "file" => x \in Std)

(* eof() and size() are questions: while nobody else uses the description  *)
(* or the file they answer with the truth and leave the offset where it    *)
(* was.  They leave it there too when they throw, unless it is the last of *)
(* their three seeks that fails (file.cpp:109).                            *)
OnlyAsks ==
  quiet =>
    /\ at \in {"answered", "refused"} => offset[fd[cur]] = was
    /\ at = "answered" => (n = e <=> was = len) /\ e = len
=============================================================================
