---------------------------- MODULE FilesProofs ----------------------------
(***************************************************************************)
(* Proofs about Files: for every number of files, sockets and descriptors  *)
(* and every length, descriptors are accounted for, and eof() and size()   *)
(* change nothing.                                                         *)
(***************************************************************************)
EXTENDS Files, TLAPS

(* Accounted, in its two halves: what objects hold, and what is open.      *)
HeldOnce ==
  \A o \in Objs : fd[o] # invalid =>
    /\ o \in live /\ table[fd[o]] = Kind(o) /\ fd[o] \notin lost
    /\ \A p \in Objs : fd[p] = fd[o] => p = o
OpenKnown ==
  \A x \in Fds :
    \/ table[x] \in {"closed", "std"} /\ x \notin lost
    \/ \E o \in Objs : fd[o] = x
    \/ x \in lost /\ (table[x] = "file" => x \in Std)

(* What is lost stays open, so that the kernel never gives it out again.   *)
LostOpen == \A x \in lost : table[x] \in {"file", "sock"}

(* While eof() or size() is running, its object is a file that has a       *)
(* descriptor, and as long as nobody else interferes the locals, the       *)
(* offset and the length are related by the seeks that were made.          *)
Asking ==
  /\ at # "idle" => cur \in live /\ fd[cur] \in Fds
  /\ quiet =>
       /\ at \in {"told", "refused"} => n = was /\ offset[fd[cur]] = was
       /\ at = "end" => n = was /\ e = len
       /\ at = "answered" => n = was /\ e = len /\ offset[fd[cur]] = was

Inv == TypeOK /\ HeldOnce /\ OpenKnown /\ LostOpen /\ Asking

----------------------------------------------------------------------------
LEMMA Sets ==
  /\ Fds \subseteq Int /\ invalid \notin Fds /\ Std \subseteq Fds
  /\ 0 \in Lengths /\ Lengths \subseteq Int
  /\ FileObjs \cap SockObjs = {} /\ Closable \subseteq Std
  BY ObjsAssumption, FdAssumption, LenAssumption, ClosableAssumption DEF Fds, Std, invalid, Lengths

LEMMA Kinds ==
  /\ \A o \in FileObjs : o \in Objs /\ Kind(o) = "file"
  /\ \A o \in SockObjs : o \in Objs /\ Kind(o) = "sock"
  /\ \A o \in Objs : Kind(o) \in {"file", "sock"}
  BY Sets DEF Objs, Kind

LEMMA InitInv == Init => Inv
<1> SUFFICES ASSUME Init PROVE Inv
  OBVIOUS
<1>1. TypeOK
  BY Sets, Zenon DEF Init, TypeOK
<1>2. HeldOnce /\ OpenKnown /\ LostOpen
  BY DEF Init, HeldOnce, OpenKnown, LostOpen
<1>3. Asking
  BY DEF Init, Asking
<1> QED
  BY <1>1, <1>2, <1>3 DEF Inv

LEMMA OpenFileInv ==
  ASSUME Inv, NEW f \in FileObjs, NEW x \in Fds, NEW trunc \in BOOLEAN, OpenFile(f, x, trunc)
  PROVE  Inv'
<1> USE Sets, Kinds DEF Inv, TypeOK, OpenFile, Opens, Lowest, kernelVars, askVars
<1>1. TypeOK'
  OBVIOUS
<1>2. HeldOnce'
  BY DEF HeldOnce, OpenKnown, LostOpen, Kind
<1>3. OpenKnown'
  BY DEF HeldOnce, OpenKnown, LostOpen
<1>4. LostOpen'
  BY DEF HeldOnce, OpenKnown, LostOpen
<1>5. Asking'
  BY DEF Asking
<1> QED
  BY <1>1, <1>2, <1>3, <1>4, <1>5

LEMMA OpenSocketInv ==
  ASSUME Inv, NEW s \in SockObjs, NEW x \in Fds, OpenSocket(s, x)
  PROVE  Inv'
<1> USE Sets, Kinds DEF Inv, TypeOK, OpenSocket, Opens, Lowest, kernelVars, askVars
<1>1. TypeOK'
  OBVIOUS
<1>2. HeldOnce'
  BY DEF HeldOnce, OpenKnown, LostOpen, Kind
<1>3. OpenKnown'
  BY DEF HeldOnce, OpenKnown, LostOpen
<1>4. LostOpen'
  BY DEF HeldOnce, OpenKnown, LostOpen
<1>5. Asking'
  BY DEF Asking
<1> QED
  BY <1>1, <1>2, <1>3, <1>4, <1>5

(* The socket forgets what it had, which stays open and lost. *)
LEMMA AcceptInv ==
  ASSUME Inv, NEW l \in SockObjs, NEW s \in SockObjs, NEW x \in Fds \cup {invalid}, Accept(l, s, x)
  PROVE  Inv'
<1> USE Sets, Kinds DEF Inv
<1>1. /\ s \in live /\ fd \in [Objs -> Fds \cup {invalid}] /\ fd' \in [Objs -> Fds \cup {invalid}]
      /\ fd'[s] = x /\ \A o \in Objs \ {s} : fd'[o] = fd[o]
      /\ lost' = lost \cup ({fd[s]} \ {invalid}) /\ lost' \subseteq Fds
      /\ live' = live /\ at = "idle" /\ UNCHANGED <<at, cur, n, e, was, quiet, len, shared>>
  BY DEF Accept, TypeOK, askVars
<1>2. /\ table' \in [Fds -> {"closed", "std", "file", "sock"}] /\ offset' \in [Fds -> Lengths]
      /\ x # invalid => table[x] = "closed" /\ table'[x] = "sock"
      /\ \A y \in Fds : y # x => table'[y] = table[y]
  <2>1. CASE x = invalid
    BY <2>1 DEF Accept, TypeOK
  <2>2. CASE x # invalid
    BY <2>2 DEF Accept, Opens, Lowest, TypeOK
  <2> QED
    BY <2>1, <2>2
<1>3. TypeOK'
  BY <1>1, <1>2 DEF TypeOK
<1>4. \A y \in lost' : y \in Fds /\ table[y] \in {"file", "sock"} /\ table'[y] = table[y]
  BY <1>1, <1>2 DEF HeldOnce, LostOpen
<1>5. HeldOnce'
  <2> SUFFICES ASSUME NEW o \in Objs, fd'[o] # invalid
               PROVE  /\ o \in live' /\ table'[fd'[o]] = Kind(o) /\ fd'[o] \notin lost'
                      /\ \A p \in Objs : fd'[p] = fd'[o] => p = o
    BY DEF HeldOnce, Kind
  <2>1. CASE o = s
    <3>1. table[x] = "closed" /\ table'[x] = "sock" /\ x \in Fds /\ fd'[o] = x
      BY <1>1, <1>2, <2>1
    <3>2. x \notin lost'
      BY <1>4, <3>1
    <3>3. \A p \in Objs : fd[p] # x
      BY <3>1 DEF HeldOnce
    <3>4. \A p \in Objs : fd'[p] = x => p = s
      BY <1>1, <3>3
    <3>5. o \in live' /\ Kind(o) = "sock"
      BY <1>1, <2>1
    <3> QED
      BY <2>1, <3>1, <3>2, <3>4, <3>5
  <2>2. CASE o # s
    <3>1. fd'[o] = fd[o] /\ fd[o] \in Fds /\ fd[o] # invalid
      BY <1>1, <2>2
    <3>2. /\ o \in live /\ table[fd[o]] = Kind(o) /\ fd[o] \notin lost
          /\ \A p \in Objs : fd[p] = fd[o] => p = o
      BY <3>1 DEF HeldOnce
    <3>3. table[fd[o]] # "closed"
      BY <3>2 DEF Kind
    <3>4. fd[o] # x
      BY <1>2, <3>1, <3>3
    <3>5. table'[fd[o]] = Kind(o)
      BY <1>2, <3>1, <3>2, <3>4
    <3>6. fd[s] # fd[o]
      BY <3>2, <2>2
    <3>7. fd[o] \notin lost'
      BY <1>1, <3>2, <3>6
    <3>8. \A p \in Objs : fd'[p] = fd'[o] => p = o
      BY <1>1, <3>1, <3>2, <3>4
    <3> QED
      BY <1>1, <3>1, <3>2, <3>5, <3>7, <3>8
  <2> QED
    BY <2>1, <2>2
<1>6. OpenKnown'
  <2> SUFFICES ASSUME NEW y \in Fds
               PROVE  \/ table'[y] \in {"closed", "std"} /\ y \notin lost'
                      \/ \E o \in Objs : fd'[o] = y
                      \/ y \in lost' /\ (table'[y] = "file" => y \in Std)
    BY DEF OpenKnown
  <2>1. CASE y = x
    BY <1>1, <2>1
  <2>2. CASE y # x /\ y = fd[s]
    BY <1>1, <1>2, <2>2 DEF HeldOnce
  <2>3. CASE y # x /\ y # fd[s]
    BY <1>1, <1>2, <2>3 DEF OpenKnown
  <2> QED
    BY <2>1, <2>2, <2>3
<1>7. LostOpen'
  BY <1>4 DEF LostOpen
<1>8. Asking'
  BY <1>1 DEF Asking, TypeOK
<1> QED
  BY <1>3, <1>5, <1>6, <1>7, <1>8

(* What is closed is nobody's any more, and what a file leaves open is     *)
(* lost.                                                                   *)
LEMMA ClosingInv ==
  ASSUME Inv, NEW o \in Objs, Close(o) \/ Destroy(o)
  PROVE  Inv'
<1> USE Sets, Kinds DEF Inv
<1>1. /\ Closing(o) /\ at = "idle" /\ UNCHANGED <<at, cur, n, e, was, quiet, len>>
      /\ live' = live \/ live' = live \ {o}
      /\ fd \in [Objs -> Fds \cup {invalid}] /\ fd' \in [Objs -> Fds \cup {invalid}]
      /\ fd'[o] = invalid /\ \A p \in Objs \ {o} : fd'[p] = fd[p]
  BY DEF Close, Destroy, Closing, Shuts, TypeOK, askVars
<1>2. CASE fd[o] = invalid
  <2>1. UNCHANGED <<table, offset, shared, fd, lost>>
    BY <1>1, <1>2 DEF Closing
  <2>2. TypeOK' /\ OpenKnown' /\ LostOpen' /\ Asking'
    BY <1>1, <2>1 DEF TypeOK, OpenKnown, LostOpen, Asking
  <2>3. HeldOnce'
    BY <1>1, <1>2, <2>1 DEF HeldOnce, Kind
  <2> QED
    BY <2>2, <2>3
<1>3. CASE fd[o] # invalid /\ o \in FileObjs /\ fd[o] \in Std
  <2>1. UNCHANGED <<table, offset, shared>> /\ lost' = lost \cup {fd[o]}
    BY <1>1, <1>3 DEF Closing
  <2>2. TypeOK' /\ LostOpen' /\ Asking'
    BY <1>1, <1>3, <2>1 DEF TypeOK, HeldOnce, LostOpen, Asking
  <2>3. HeldOnce'
    BY <1>1, <1>3, <2>1 DEF HeldOnce, Kind
  <2>4. OpenKnown'
    BY <1>1, <1>3, <2>1 DEF OpenKnown
  <2> QED
    BY <2>2, <2>3, <2>4
<1>4. CASE fd[o] # invalid /\ ~(o \in FileObjs /\ fd[o] \in Std)
  <2>1. /\ lost' = lost /\ fd[o] \in Fds
        /\ table' = [table EXCEPT ![fd[o]] = "closed"]
        /\ offset' = [offset EXCEPT ![fd[o]] = 0] /\ shared' = shared \ {fd[o]}
    BY <1>1, <1>4 DEF Closing, Shuts
  <2>2. TypeOK' /\ LostOpen' /\ Asking'
    BY <1>1, <1>4, <2>1 DEF TypeOK, HeldOnce, LostOpen, Asking
  <2>3. HeldOnce'
    BY <1>1, <1>4, <2>1 DEF HeldOnce, Kind, TypeOK
  <2>4. OpenKnown'
    BY <1>1, <1>4, <2>1 DEF OpenKnown, HeldOnce, TypeOK
  <2> QED
    BY <2>2, <2>3, <2>4
<1> QED
  BY <1>2, <1>3, <1>4

LEMMA SwapInv ==
  ASSUME Inv, NEW a \in Objs, NEW b \in Objs, Swap(a, b)
  PROVE  Inv'
<1> USE Sets, Kinds DEF Inv, TypeOK, Swap, kernelVars, askVars
<1>1. TypeOK'
  OBVIOUS
<1>2. HeldOnce'
  BY DEF HeldOnce, OpenKnown, LostOpen, Kind
<1>3. OpenKnown'
  BY DEF HeldOnce, OpenKnown, LostOpen
<1>4. LostOpen'
  BY DEF HeldOnce, OpenKnown, LostOpen
<1>5. Asking'
  BY DEF Asking
<1> QED
  BY <1>1, <1>2, <1>3, <1>4, <1>5

LEMMA CloseStdInv ==
  ASSUME Inv, NEW x \in Fds, CloseStd(x)
  PROVE  Inv'
<1> USE Sets, Kinds DEF Inv, TypeOK, CloseStd, Shuts, kernelVars, askVars
<1>1. TypeOK'
  OBVIOUS
<1>2. HeldOnce'
  BY DEF HeldOnce, OpenKnown, LostOpen, Kind
<1>3. OpenKnown'
  BY DEF HeldOnce, OpenKnown, LostOpen
<1>4. LostOpen'
  BY DEF HeldOnce, OpenKnown, LostOpen
<1>5. Asking'
  BY DEF Asking
<1> QED
  BY <1>1, <1>2, <1>3, <1>4, <1>5

(* The steps of eof() and size(), and of those who read, write and seek,   *)
(* touch neither descriptors nor objects.                                  *)
LEMMA OffsetInv ==
  ASSUME Inv, TypeOK', Asking', UNCHANGED <<table, live, fd, lost>>
  PROVE  Inv'
  BY DEF Inv, HeldOnce, OpenKnown, LostOpen

LEMMA AskingInv ==
  ASSUME Inv, \/ \E f \in FileObjs :
                   Ask(f) \/ \E k \in Lengths : ReadOrWrite(f, k) \/ seek(f, k) \/ truncate(f, k)
              \/ SeekEnd \/ SeekBack \/ SeekThrows \/ Answer
  PROVE  Inv'
<1> USE Sets, Kinds DEF Inv, TypeOK, kernelVars, askVars
<1>1. ASSUME NEW f \in FileObjs, Ask(f) PROVE TypeOK' /\ Asking'
  BY <1>1 DEF Ask, Usable, Asking
<1>2. ASSUME NEW f \in FileObjs, NEW k \in Lengths, ReadOrWrite(f, k) \/ seek(f, k) \/ truncate(f, k)
      PROVE  TypeOK' /\ Asking'
  <2>1. TypeOK'
    <3>1. CASE ReadOrWrite(f, k)
      BY <3>1 DEF ReadOrWrite
    <3>2. CASE seek(f, k)
      BY <3>2 DEF seek
    <3>3. CASE truncate(f, k)
      BY <3>3 DEF truncate
    <3> QED
      BY <1>2, <3>1, <3>2, <3>3
  <2>2. at = "idle" /\ at' = at
    BY <1>2 DEF ReadOrWrite, seek, truncate, Usable
  <2>3. Asking'
    BY <2>2 DEF Asking
  <2> QED
    BY <2>1, <2>3
<1>3. CASE SeekEnd
  <2>1. TypeOK' /\ Asking'
    BY <1>3 DEF SeekEnd, Asking
  <2> QED
    BY <1>3, <2>1, OffsetInv DEF SeekEnd
<1>4. CASE SeekBack
  <2>1. TypeOK' /\ Asking'
    BY <1>4 DEF SeekBack, Asking
  <2> QED
    BY <1>4, <2>1, OffsetInv DEF SeekBack
<1>5. CASE SeekThrows
  <2>1. TypeOK' /\ Asking'
    BY <1>5 DEF SeekThrows, Asking
  <2> QED
    BY <1>5, <2>1, OffsetInv DEF SeekThrows
<1>6. CASE Answer
  <2>1. TypeOK'
    BY <1>6 DEF Answer
  <2>2. Asking'
    BY <1>6 DEF Answer, Asking
  <2> QED
    BY <1>6, <2>1, <2>2, OffsetInv DEF Answer
<1> HIDE DEF Inv, TypeOK
<1> QED
  BY <1>1, <1>2, <1>3, <1>4, <1>5, <1>6, OffsetInv DEF Ask, ReadOrWrite, seek, truncate

LEMMA OthersInv ==
  ASSUME Inv, \/ Fork
              \/ \E x \in Fds, new \in Lengths : ChildMoves(x, new)
              \/ \E length \in Lengths : OthersWrite(length)
  PROVE  Inv'
<1> USE Sets, Kinds DEF Inv, TypeOK, kernelVars, askVars
<1>1. CASE Fork
  <2>1. TypeOK' /\ Asking'
    BY <1>1 DEF Fork, Asking
  <2> QED
    BY <1>1, <2>1, OffsetInv DEF Fork
<1>2. ASSUME NEW x \in Fds, NEW new \in Lengths, ChildMoves(x, new) PROVE Inv'
  <2>1. quiet' \in BOOLEAN /\ (quiet' => quiet /\ (at = "idle" \/ x # fd[cur]))
    BY <1>2 DEF ChildMoves
  <2>2. TypeOK'
    BY <1>2, <2>1 DEF ChildMoves
  <2>3. Asking'
    BY <1>2, <2>1 DEF ChildMoves, Asking
  <2> QED
    BY <1>2, <2>2, <2>3, OffsetInv DEF ChildMoves
<1>3. ASSUME NEW length \in Lengths, OthersWrite(length) PROVE Inv'
  <2>1. quiet' \in BOOLEAN /\ (quiet' => at = "idle")
    BY <1>3 DEF OthersWrite
  <2>2. TypeOK' /\ Asking'
    BY <1>3, <2>1 DEF OthersWrite, Asking
  <2> QED
    BY <1>3, <2>2, OffsetInv DEF OthersWrite
<1> QED
  BY <1>1, <1>2, <1>3

LEMMA StepInv == Inv /\ [Next]_vars => Inv'
<1> SUFFICES ASSUME Inv, [Next]_vars PROVE Inv'
  OBVIOUS
<1>1. ASSUME NEW o \in Objs, DefaultConstruct(o) PROVE Inv'
  BY <1>1 DEF DefaultConstruct, Inv, TypeOK, HeldOnce, OpenKnown, LostOpen, Asking, kernelVars, askVars,
              Kind
<1>2. CASE UNCHANGED vars
  BY <1>2 DEF vars, Inv, TypeOK, HeldOnce, OpenKnown, LostOpen, Asking, kernelVars, askVars, Kind
<1> QED
  BY <1>1, <1>2, OpenFileInv, OpenSocketInv, AcceptInv, ClosingInv, SwapInv, CloseStdInv, AskingInv,
     OthersInv DEF Next

LEMMA Invariance == Spec => []Inv
  BY InitInv, StepInv, PTL DEF Spec

----------------------------------------------------------------------------
(* The types are kept. *)
THEOREM TypeCorrect == Spec => []TypeOK
<1>1. Inv => TypeOK
  BY DEF Inv
<1> QED
  BY Invariance, <1>1, PTL

(* Every descriptor is held once, or known to be lost. *)
THEOREM DescriptorsAccounted == Spec => []Accounted
<1>1. Inv => Accounted
  BY DEF Inv, HeldOnce, OpenKnown, Accounted
<1> QED
  BY Invariance, <1>1, PTL

(* eof() and size() answer with the truth and leave the offset alone.      *)
THEOREM QuestionsOnly == Spec => []OnlyAsks
<1>1. Inv => OnlyAsks
  BY DEF Inv, Asking, OnlyAsks
<1> QED
  BY Invariance, <1>1, PTL
=============================================================================
