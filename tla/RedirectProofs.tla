--------------------------- MODULE RedirectProofs ---------------------------
(***************************************************************************)
(* Proofs about Redirect, for any number of objects, children and          *)
(* descriptors, whatever standard descriptors the program closes: who      *)
(* holds which end of a pipe, in the program and in every child.           *)
(***************************************************************************)
EXTENDS Redirect, FiniteSetTheorems, SequenceTheorems, WellFoundedInduction, TLAPS

----------------------------------------------------------------------------
(* Facts about the helpers. *)

LEMMA StreamFacts ==
  /\ \A s \in Streams : /\ ChildIdx(s) \in {0, 1} /\ ParentIdx(s) \in {0, 1}
                        /\ ChildIdx(s) # ParentIdx(s)
                        /\ \A i \in {0, 1} : i = ChildIdx(s) \/ i = ParentIdx(s)
                        /\ FILENO[s] \in 0 .. 2
  /\ \A s, t \in Streams : FILENO[s] = FILENO[t] => s = t
  BY DEF Streams, ChildIdx, ParentIdx, FILENO

LEMMA FdFacts ==
  /\ 0 .. 2 \subseteq Fds /\ -1 \notin Fds /\ Fds \subseteq Nat /\ IsFiniteSet(Fds)
  /\ \A s \in Streams : FILENO[s] \in Fds
<1>1. 0 .. 2 \subseteq Fds /\ -1 \notin Fds /\ Fds \subseteq Nat
  BY MaxFdAssumption DEF Fds
<1>2. IsFiniteSet(Fds)
  BY MaxFdAssumption, FS_Interval DEF Fds
<1> QED
  BY <1>1, <1>2, StreamFacts

(* What a descriptor refers to tells everything about it. *)
LEMMA EndFacts ==
  /\ \A c, s, i, d, t, j : End(c, s, i) = End(d, t, j) => c = d /\ s = t /\ i = j
  /\ \A c, s, i : End(c, s, i) # Closed
  /\ \A c, s, i, n : End(c, s, i) # Standard(n)
  /\ \A n : Standard(n) # Closed
  /\ \A c \in Children, s \in Streams, i \in {0, 1} : End(c, s, i) \in Ends
  /\ Closed \notin Ends /\ \A n : Standard(n) \notin Ends
<1>1. \A c, s, i, d, t, j : End(c, s, i) = End(d, t, j) => c = d /\ s = t /\ i = j
  BY DEF End
<1>2. \A c, s, i : End(c, s, i) # Closed
  BY DEF End, Closed
<1>3. \A c, s, i, n : End(c, s, i) # Standard(n)
  BY DEF End, Standard
<1>4. \A n : Standard(n) # Closed
  BY DEF Closed, Standard
<1>5. \A c \in Children, s \in Streams, i \in {0, 1} : End(c, s, i) \in Ends
  BY DEF End, Ends
<1>6. \A e \in Ends : \E c \in Children, s \in Streams, i \in {0, 1} : e = End(c, s, i)
  BY DEF End, Ends
<1> QED
  BY <1>1, <1>2, <1>3, <1>4, <1>5, <1>6

(* A stream is treated once. *)
Distinct(q) == \A i, j \in DOMAIN q : q[i] = q[j] => i = j

LEMMA Joined ==
  ASSUME NEW p \in Seq(Streams), NEW q \in Seq(Streams), Distinct(p), Distinct(q),
         \A e \in Range(p) : e \notin Range(q)
  PROVE  p \o q \in Seq(Streams) /\ Distinct(p \o q) /\ Range(p \o q) = Range(p) \cup Range(q)
<1> DEFINE m == Len(p)
           n == Len(q)
           r == p \o q
<1>1. /\ m \in Nat /\ n \in Nat /\ DOMAIN p = 1 .. m /\ DOMAIN q = 1 .. n
      /\ r \in Seq(Streams) /\ Len(r) = m + n /\ DOMAIN r = 1 .. m + n
      /\ \A i \in 1 .. m + n : r[i] = IF i <= m THEN p[i] ELSE q[i - m]
  BY ConcatProperties
<1>2. /\ \A i \in 1 .. m : p[i] \in Range(p)
      /\ \A i \in 1 .. n : q[i] \in Range(q)
  BY <1>1 DEF Range
<1> HIDE DEF m, n, r
<1>3. \A i \in 1 .. m + n : (i <= m /\ i \in 1 .. m) \/ (~(i <= m) /\ i - m \in 1 .. n)
  BY <1>1
<1>4. ASSUME NEW i \in 1 .. m + n, NEW j \in 1 .. m + n, r[i] = r[j] PROVE i = j
  <2>1. CASE i <= m /\ j <= m
    BY <1>1, <1>3, <1>4, <2>1 DEF Distinct
  <2>2. CASE i <= m /\ ~(j <= m)
    BY <1>1, <1>2, <1>3, <1>4, <2>2
  <2>3. CASE ~(i <= m) /\ j <= m
    BY <1>1, <1>2, <1>3, <1>4, <2>3
  <2>4. CASE ~(i <= m) /\ ~(j <= m)
    <3>1. q[i - m] = q[j - m] /\ i - m \in 1 .. n /\ j - m \in 1 .. n
      BY <1>1, <1>3, <1>4, <2>4
    <3>2. i - m = j - m
      BY <1>1, <3>1 DEF Distinct
    <3> QED
      BY <1>1, <3>2
  <2> QED
    BY <2>1, <2>2, <2>3, <2>4
<1>5. Range(r) = Range(p) \cup Range(q)
  <2>1. ASSUME NEW i \in 1 .. m PROVE p[i] \in Range(r)
    <3>1. i \in 1 .. m + n /\ i <= m
      BY <1>1
    <3> QED
      BY <1>1, <3>1 DEF Range
  <2>2. ASSUME NEW i \in 1 .. n PROVE q[i] \in Range(r)
    <3>1. i + m \in 1 .. m + n /\ ~(i + m <= m) /\ (i + m) - m = i
      BY <1>1
    <3>2. r[i + m] = q[i]
      BY <1>1, <3>1
    <3> QED
      BY <1>1, <3>1, <3>2 DEF Range
  <2>3. \A i \in 1 .. m + n : r[i] \in Range(p) \cup Range(q)
    BY <1>1, <1>2, <1>3
  <2> QED
    BY <1>1, <2>1, <2>2, <2>3 DEF Range
<1> QED
  BY <1>1, <1>4, <1>5 DEF Distinct, r

LEMMA RedirectedFacts ==
  ASSUME NEW x
  PROVE  Redirected(x) \in Seq(Streams) /\ Distinct(Redirected(x)) /\ Range(Redirected(x)) = x \cap Streams
<1>1. \A s \in Streams : /\ Only(s, x) \in Seq(Streams) /\ Distinct(Only(s, x))
                         /\ Range(Only(s, x)) = {s} \cap x
  BY DEF Only, Distinct, Range
<1>2. "cout" \in Streams /\ "cin" \in Streams /\ "cerr" \in Streams
      /\ "cout" # "cin" /\ "cout" # "cerr" /\ "cin" # "cerr"
  BY DEF Streams
<1> DEFINE two == Only("cout", x) \o Only("cin", x)
<1>3. two \in Seq(Streams) /\ Distinct(two) /\ Range(two) = {"cout", "cin"} \cap x
  BY <1>1, <1>2, Joined
<1> HIDE DEF two
<1> DEFINE three == two \o Only("cerr", x)
<1>4. three \in Seq(Streams) /\ Distinct(three) /\ Range(three) = Streams \cap x
  BY <1>1, <1>2, <1>3, Joined DEF Streams
<1> QED
  BY <1>4 DEF Redirected, two

(* The next stream to be treated, and those that are left then. *)
LEMMA NextStream ==
  ASSUME NEW q \in Seq(Streams), q # <<>>, Distinct(q)
  PROVE  /\ Head(q) \in Streams /\ Tail(q) \in Seq(Streams) /\ Distinct(Tail(q))
         /\ Head(q) \in Range(q) /\ Range(Tail(q)) = Range(q) \ {Head(q)}
<1>1. /\ Head(q) \in Streams /\ Tail(q) \in Seq(Streams) /\ Len(Tail(q)) = Len(q) - 1
      /\ \A i \in 1 .. Len(Tail(q)) : Tail(q)[i] = q[i + 1]
  BY HeadTailProperties
<1>2. Len(q) \in Nat /\ Len(q) >= 1 /\ DOMAIN q = 1 .. Len(q) /\ Head(q) = q[1]
      /\ DOMAIN Tail(q) = 1 .. Len(q) - 1
  BY <1>1, EmptySeq
<1>3. Distinct(Tail(q))
  BY <1>1, <1>2 DEF Distinct
<1>4. \A i \in 1 .. Len(q) : i = 1 \/ (i - 1 \in 1 .. Len(q) - 1 /\ (i - 1) + 1 = i)
  BY <1>2
<1>5. Range(Tail(q)) = Range(q) \ {Head(q)}
  <2>1. ASSUME NEW i \in 1 .. Len(q) - 1 PROVE Tail(q)[i] \in Range(q) \ {Head(q)}
    <3>1. i + 1 \in 1 .. Len(q) /\ i + 1 # 1 /\ 1 \in 1 .. Len(q)
      BY <1>2
    <3> QED
      BY <1>1, <1>2, <3>1 DEF Distinct, Range
  <2>2. ASSUME NEW i \in 1 .. Len(q), i # 1 PROVE q[i] \in Range(Tail(q))
    <3>1. i - 1 \in DOMAIN Tail(q) /\ Tail(q)[i - 1] = q[i]
      BY <1>1, <1>2, <1>4, <2>2
    <3> QED
      BY <3>1 DEF Range
  <2> QED
    BY <1>2, <2>1, <2>2 DEF Range
<1>6. Head(q) \in Range(q)
  <2>1. 1 \in DOMAIN q
    BY <1>2
  <2> QED
    BY <1>2, <2>1 DEF Range
<1> QED
  BY <1>1, <1>3, <1>5, <1>6

(* pipe() gets two free numbers. *)
LEMMA FreeFacts ==
  ASSUME NEW tab, Cardinality(Free(tab)) >= 2
  PROVE  /\ Lowest(tab) \in Fds /\ tab[Lowest(tab)] = Closed
         /\ Second(tab) \in Fds /\ tab[Second(tab)] = Closed
         /\ Lowest(tab) # Second(tab)
<1> DEFINE Free1 == Free(tab) \ {Lowest(tab)}
<1>1. Free(tab) \in SUBSET Fds /\ IsFiniteSet(Free(tab)) /\ Cardinality(Free(tab)) \in Nat
  <2>1. Free(tab) \in SUBSET Fds
    BY DEF Free
  <2> QED
    BY <2>1, FdFacts, FS_Subset, FS_CardinalityType
<1>2. Free(tab) # {}
  BY <1>1, FS_EmptySet
<1>3. ASSUME NEW S \in SUBSET Fds, S # {} PROVE Min(S) \in S
  <2> DEFINE below(x) == {y \in S : y =< x}
             lows == {below(x) : x \in S}
  <2>1. S \in SUBSET Nat /\ IsFiniteSet(S)
    BY FdFacts, FS_Subset
  <2>2. lows \subseteq FiniteSubsetsOf(S) /\ lows # {}
    <3>1. FiniteSubsetsOf(S) = SUBSET S
      BY <2>1, FS_FiniteSubsetsOfFinite
    <3>2. lows \subseteq SUBSET S
      OBVIOUS
    <3>3. lows # {}
      BY <1>3
    <3> HIDE DEF lows
    <3> QED
      BY <3>1, <3>2, <3>3
  <2>3. PICK low \in lows : \A l \in lows : <<l, low>> \notin StrictSubsetOrdering(S)
    BY <2>2, FS_StrictSubsetOrderingWellFounded, WFMin
  <2>4. PICK x \in S : low = below(x)
    OBVIOUS
  <2>5. ASSUME NEW y \in S PROVE x =< y
    <3>1. CASE y < x
      <4>0. \A z \in S : z \in Nat
        BY <2>1
      <4>1. below(y) \in lows /\ below(y) \subseteq low /\ x \in low /\ x \notin below(y)
        BY <4>0, <2>4, <3>1
      <4>2. <<below(y), low>> \in StrictSubsetOrdering(S)
        BY <2>4, <4>1 DEF StrictSubsetOrdering
      <4> QED
        BY <2>3, <4>1, <4>2
    <3> QED
      BY <2>1, <3>1
  <2> QED
    BY <2>5 DEF Min
<1>4. Lowest(tab) \in Free(tab)
  BY <1>1, <1>2, <1>3 DEF Lowest
<1>5. Free1 # {}
  <2>1. Cardinality(Free1) = Cardinality(Free(tab)) - 1
    BY <1>1, <1>4, FS_RemoveElement
  <2> QED
    BY <1>1, <2>1, FS_EmptySet
<1>6. Second(tab) \in Free1
  BY <1>1, <1>3, <1>5 DEF Second
<1> QED
  BY <1>1, <1>4, <1>6 DEF Free

----------------------------------------------------------------------------
(* Types. *)

LEMMA TypeFacts ==
  /\ NoFds \in Locals /\ NoTable \in Tables
  /\ \A tab \in Tables : \A x : Without(tab, x) \in Tables
  /\ \A n \in 0 .. 2 : Standard(n) \in {Closed} \cup {Standard(k) : k \in 0 .. 2} \cup Ends
  /\ <<>> \in Seq(Streams) /\ None \notin Children /\ None \notin Objs
<1>1. NoFds \in Locals
  BY DEF NoFds, Locals
<1>2. NoTable \in Tables
  BY DEF NoTable, Tables
<1>3. \A tab \in Tables : \A x : Without(tab, x) \in Tables
  BY DEF Without, Tables
<1> QED
  BY <1>1, <1>2, <1>3, NoneAssumption

LEMMA TypeInit == Init => TypeOK
<1> SUFFICES ASSUME Init PROVE TypeOK
  OBVIOUS
<1>1. ptab \in Tables
  <2>1. \A n \in Fds : n <= 2 => n \in 0 .. 2
    BY FdFacts
  <2> QED
    BY <2>1, TypeFacts DEF Init, Tables
<1> QED
  BY <1>1, TypeFacts DEF Init, TypeOK

(* What the members and the thread are when an object is gone. *)
LEMMA TypeGone ==
  ASSUME TypeOK, NEW o \in Objs, Gone(o)
  PROVE  /\ obj' \in [Objs -> {"none", "making", "live"}] /\ child' \in [Objs -> Children \cup {None}]
         /\ buf' \in [Objs -> [Streams -> Fds \cup {-1}]] /\ wired' \in [Objs -> [Streams -> BOOLEAN]]
         /\ moved' \in [Objs -> BOOLEAN]
         /\ \A p \in Objs : obj'[p] = "none" =>
              child'[p] = None /\ \A s \in Streams : buf'[p][s] = -1 /\ ~wired'[p][s]
<1>1. ASSUME NEW p \in Objs, obj'[p] = "none"
      PROVE  child'[p] = None /\ \A s \in Streams : buf'[p][s] = -1 /\ ~wired'[p][s]
  <2>1. CASE p = o
    BY <2>1 DEF Gone, TypeOK
  <2>2. CASE p # o
    BY <1>1, <2>2 DEF Gone, TypeOK
  <2> QED
    BY <2>1, <2>2
<1>2. buf' \in [Objs -> [Streams -> Fds \cup {-1}]]
  BY DEF Gone, TypeOK
<1> QED
  BY <1>1, <1>2 DEF Gone, TypeOK

LEMMA TypeBegin ==
  ASSUME TypeOK, NEW o \in Objs, NEW c \in Children, NEW x \in Redirs, Begin(o, c, x)
  PROVE  TypeOK'
<1>1. Redirected(x) \in Seq(Streams) /\ x \subseteq Streams
  BY RedirectedFacts, RedirsAssumption DEF Streams
<1>2. redir' \in [Children -> SUBSET Streams]
  BY <1>1 DEF Begin, TypeOK
<1> QED
  BY <1>1, <1>2, TypeFacts DEF Begin, TypeOK

LEMMA TypePipe ==
  ASSUME TypeOK, Distinct(todo), cur \in Objs, child[cur] \in Children, Pipe
  PROVE  TypeOK'
<1> DEFINE s == Head(todo)
           r == Lowest(ptab)
           w == Second(ptab)
           c == child[cur]
<1>1. s \in Streams /\ Tail(todo) \in Seq(Streams)
  BY NextStream DEF Pipe, TypeOK
<1>2. r \in Fds /\ w \in Fds
  BY FreeFacts DEF Pipe
<1>3. End(c, s, 0) \in Ends /\ End(c, s, 1) \in Ends
  BY <1>1, EndFacts
<1>4. /\ ptab' = [ptab EXCEPT ![r] = End(c, s, 0), ![w] = End(c, s, 1)]
      /\ fd' = [fd EXCEPT ![s] = [i \in {0, 1} |-> IF i = 0 THEN r ELSE w]]
      /\ todo' = Tail(todo) /\ at = "pipe"
      /\ UNCHANGED <<obj, members, at, cur, kids, moved>>
  BY DEF Pipe
<1> HIDE DEF s, r, w, c
<1>5. ptab' \in Tables /\ fd' \in Locals
  BY <1>1, <1>2, <1>3, <1>4 DEF TypeOK, Tables, Locals
<1> QED
  BY <1>1, <1>4, <1>5 DEF TypeOK, members, kids

LEMMA TypeFork ==
  ASSUME TypeOK, cur \in Objs, child[cur] \in Children, Fork
  PROVE  TypeOK'
<1> DEFINE c == child[cur]
<1>1. Redirected(redir[c]) \in Seq(Streams)
  BY RedirectedFacts
<1>2. /\ state' = [state EXCEPT ![c] = "wiring"] /\ ctab' = [ctab EXCEPT ![c] = ptab]
      /\ ctodo' = [ctodo EXCEPT ![c] = Redirected(redir[c])] /\ cfd' = [cfd EXCEPT ![c] = fd]
      /\ bare' = [bare EXCEPT ![c] = \E n \in 0 .. 2 : ptab[n] # Standard(n)]
      /\ at = "pipe" /\ at' = "open" /\ todo' = Redirected(redir[c])
      /\ UNCHANGED <<ptab, obj, members, cur, fd, redir, moved>>
  BY DEF Fork
<1>3. (\E n \in 0 .. 2 : ptab[n] # Standard(n)) \in BOOLEAN
  OBVIOUS
<1>4. bare' \in [Children -> BOOLEAN]
  BY <1>2, <1>3 DEF TypeOK
<1> QED
  BY <1>1, <1>2, <1>4 DEF TypeOK, members

LEMMA TypeOpen ==
  ASSUME TypeOK, Distinct(todo), cur \in Objs, Open, obj[cur] = "making"
  PROVE  TypeOK'
<1> DEFINE s == Head(todo)
<1>1. s \in Streams /\ Tail(todo) \in Seq(Streams)
  BY NextStream DEF Open, TypeOK
<1>2. fd[s][ParentIdx(s)] \in Fds \cup {-1}
  <2>1. fd[s] \in [{0, 1} -> Fds \cup {-1}]
    BY <1>1 DEF TypeOK, Locals
  <2> HIDE DEF s
  <2> QED
    BY <1>1, <2>1, StreamFacts
<1>3. ptab' \in Tables
  BY TypeFacts DEF Open, TypeOK
<1>4. buf' \in [Objs -> [Streams -> Fds \cup {-1}]] /\ wired' \in [Objs -> [Streams -> BOOLEAN]]
  BY <1>1, <1>2 DEF Open, TypeOK
<1>5. \A o \in Objs : obj[o] = "none" => buf'[o] = buf[o] /\ wired'[o] = wired[o]
  BY DEF Open, TypeOK
<1> QED
  BY <1>1, <1>3, <1>4, <1>5 DEF Open, TypeOK, kids

LEMMA TypeThrow ==
  ASSUME TypeOK, cur \in Objs, Throw
  PROVE  TypeOK'
<1>1. ptab' \in Tables /\ redir' \in [Children -> SUBSET Streams]
  BY TypeFacts DEF Throw, TypeOK
<1>2. Gone(cur) /\ Idle /\ UNCHANGED <<state, ctab, ctodo, cfd, bare>>
  BY DEF Throw
<1> QED
  BY <1>1, <1>2, TypeGone, TypeFacts DEF Idle, TypeOK

LEMMA TypeReturn ==
  ASSUME TypeOK, cur \in Objs, Return
  PROVE  TypeOK'
  BY TypeFacts DEF Return, Idle, TypeOK, members, kids

LEMMA TypeSwap ==
  ASSUME TypeOK, NEW a \in Objs, NEW b \in Objs, Swap(a, b)
  PROVE  TypeOK'
<1>1. /\ child' \in [Objs -> Children \cup {None}] /\ buf' \in [Objs -> [Streams -> Fds \cup {-1}]]
      /\ moved' \in [Objs -> BOOLEAN]
  BY DEF Swap, Exchanged, TypeOK
<1>2. \A o \in Objs : obj[o] = "none" => child'[o] = child[o] /\ buf'[o] = buf[o]
  BY DEF Swap, Exchanged, TypeOK
<1>3. UNCHANGED <<ptab, obj, wired, thread, kids>>
  BY DEF Swap
<1> QED
  BY <1>1, <1>2, <1>3 DEF TypeOK, thread, kids

LEMMA TypeDestroy ==
  ASSUME TypeOK, NEW o \in Objs, Destroy(o)
  PROVE  TypeOK'
<1>1. ptab' \in Tables
  BY TypeFacts DEF Destroy, TypeOK
<1>2. Gone(o) /\ UNCHANGED <<thread, kids>>
  BY DEF Destroy
<1> QED
  BY <1>1, <1>2, TypeGone DEF TypeOK, thread, kids

LEMMA TypeChild ==
  ASSUME TypeOK, NEW c \in Children, Dup(c) \/ DupThrows(c) \/ Run(c) \/ Finish(c), Distinct(ctodo[c]),
         \A s \in Range(ctodo[c]) : cfd[c][s][ChildIdx(s)] \in Fds
  PROVE  TypeOK'
<1>1. CASE Dup(c)
  <2> DEFINE s == Head(ctodo[c])
             from == cfd[c][s][ChildIdx(s)]
             duplicated == [ctab[c] EXCEPT ![FILENO[s]] = ctab[c][from]]
  <2>1. s \in Range(ctodo[c]) /\ s \in Streams /\ Tail(ctodo[c]) \in Seq(Streams)
    BY <1>1, NextStream DEF Dup, TypeOK
  <2>2. from \in Fds /\ FILENO[s] \in Fds
    BY <2>1, FdFacts
  <2>3. duplicated \in Tables
    BY <2>2 DEF TypeOK, Tables
  <2>4. /\ ctab' = [ctab EXCEPT ![c] = Without(duplicated, Both(cfd[c], s))]
        /\ ctodo' = [ctodo EXCEPT ![c] = Tail(@)]
        /\ UNCHANGED <<ptab, obj, members, thread, state, redir, cfd, bare, moved>>
    BY <1>1 DEF Dup
  <2> HIDE DEF duplicated
  <2>5. ctab' \in [Children -> Tables] /\ ctodo' \in [Children -> Seq(Streams)]
    BY <2>1, <2>3, <2>4, TypeFacts DEF TypeOK
  <2> QED
    BY <2>4, <2>5 DEF TypeOK, members, thread
<1>2. CASE DupThrows(c)
  <2>1. ctab' \in [Children -> Tables]
    BY <1>2, TypeFacts DEF DupThrows, TypeOK
  <2> QED
    BY <1>2, <2>1, TypeFacts DEF DupThrows, TypeOK, members, thread
<1>3. CASE Run(c)
  BY <1>3, TypeFacts DEF Run, TypeOK, members, thread
<1>4. CASE Finish(c)
  BY <1>4, TypeFacts DEF Finish, TypeOK, members, thread
<1> QED
  BY <1>1, <1>2, <1>3, <1>4

LEMMA TypeProgram ==
  ASSUME TypeOK
  PROVE  /\ \A o \in Objs : DefaultConstruct(o) => TypeOK'
         /\ \A n \in Closable : CloseStandard(n) => TypeOK'
         /\ UNCHANGED vars => TypeOK'
<1>1. ASSUME NEW o \in Objs, DefaultConstruct(o) PROVE TypeOK'
  BY <1>1 DEF DefaultConstruct, TypeOK, members, thread, kids
<1>2. ASSUME NEW n \in Closable, CloseStandard(n) PROVE TypeOK'
  BY <1>2, TypeFacts DEF CloseStandard, TypeOK, members, thread, kids
<1>3. CASE UNCHANGED vars
  BY <1>3 DEF vars, TypeOK, members, thread, kids
<1> QED
  BY <1>1, <1>2, <1>3

----------------------------------------------------------------------------
(* The program's side: the constructor, and the program's own table.       *)

(* Streams that are left, those that are redirected, those whose pipe is   *)
(* held by the locals and those whose filebuf has it already.              *)
Left == Range(todo)
Asked == redir[child[cur]]
Pending == IF at = "pipe" THEN Asked \ Left ELSE Left
Opened == IF at = "open" THEN Asked \ Left ELSE {}

(* Only the constructor that is running makes an object, and it has not    *)
(* forked before it has all its pipes.                                     *)
Constructing ==
  /\ at # "idle" => cur \in Objs /\ obj[cur] = "making" /\ child[cur] \in Children /\ Left \subseteq Asked
  /\ \A o \in Objs : obj[o] = "making" => at # "idle" /\ o = cur
  /\ at = "pipe" => state[child[cur]] = "unused"
  /\ Distinct(todo)

(* A child belongs to one object. *)
OneParent ==
  /\ \A o \in Objs : child[o] # None /\ ~(at = "pipe" /\ o = cur) => state[child[o]] # "unused"
  /\ \A o, p \in Objs : child[o] = child[p] /\ child[o] # None => o = p

(* What the locals say of the pipes that were made. *)
PipesMade ==
  /\ at # "idle" => \A s \in Streams : buf[cur][s] = IF s \in Opened THEN fd[s][ParentIdx(s)] ELSE -1
  /\ at # "idle" => \A s \in Pending, i \in {0, 1} :
       fd[s][i] \in Fds /\ ptab[fd[s][i]] = End(child[cur], s, i)
  /\ at # "idle" => \A s \in Streams \ (Pending \cup Opened), i \in {0, 1} : fd[s][i] = -1
  /\ \A s \in Opened : fd[s][ParentIdx(s)] \in Fds /\ fd[s][ChildIdx(s)] \in Fds
                        /\ ptab[fd[s][ChildIdx(s)]] = Closed

(* A filebuf holds the parent's end of its own pipe; and whatever end the  *)
(* program holds belongs to a filebuf or is in the locals.                 *)
Owns == \A o \in Objs, s \in Streams : buf[o][s] # -1 =>
          child[o] # None /\ ptab[buf[o][s]] = End(child[o], s, ParentIdx(s))
Claimed(n) == \/ \E o \in Objs, s \in Streams : buf[o][s] = n
              \/ at # "idle" /\ \E s \in Pending, i \in {0, 1} : fd[s][i] = n
Ledger == \A n \in Fds : ptab[n] \in Ends => Claimed(n)

ParentSide == Constructing /\ OneParent /\ PipesMade /\ Owns /\ Ledger

LEMMA StreamSets ==
  ASSUME TypeOK, Constructing
  PROVE  /\ Left \subseteq Streams
         /\ at # "idle" => Asked \subseteq Streams /\ Pending \subseteq Streams /\ Opened \subseteq Streams
         /\ at # "idle" => Pending \cap Opened = {}
<1>1. Left \subseteq Streams
  BY DEF TypeOK, Left, Range
<1>2. at # "idle" => Asked \subseteq Streams
  BY DEF TypeOK, Constructing, Asked
<1> QED
  BY <1>1, <1>2 DEF Pending, Opened

LEMMA ParentInit == Init => ParentSide
<1> SUFFICES ASSUME Init PROVE ParentSide
  OBVIOUS
<1>1. Constructing
  BY DEF Init, Constructing, Distinct
<1>2. OneParent
  BY DEF Init, OneParent
<1>3. PipesMade
  BY DEF Init, PipesMade, Opened
<1>4. Owns /\ Ledger
  BY EndFacts DEF Init, Owns, Ledger
<1> QED
  BY <1>1, <1>2, <1>3, <1>4 DEF ParentSide

LEMMA ParentBegin ==
  ASSUME TypeOK, ParentSide, NEW o \in Objs, NEW c \in Children, NEW x \in Redirs, Begin(o, c, x)
  PROVE  ParentSide'
<1>1. /\ at = "idle" /\ obj[o] = "none" /\ state[c] = "unused"
      /\ obj' = [obj EXCEPT ![o] = "making"] /\ child' = [child EXCEPT ![o] = c]
      /\ redir' = [redir EXCEPT ![c] = x]
      /\ at' = "pipe" /\ cur' = o /\ todo' = Redirected(x) /\ fd' = NoFds
      /\ UNCHANGED <<ptab, buf, wired, state, ctab, ctodo, cfd, bare, moved>>
  BY DEF Begin
<1>2. x \subseteq Streams
  BY RedirsAssumption DEF Streams
<1>3. child'[o] = c /\ obj'[o] = "making" /\ redir'[c] = x /\ \A p \in Objs : p # o => child'[p] = child[p] /\ obj'[p] = obj[p]
  BY <1>1 DEF TypeOK
<1>4. /\ Left' = x /\ Asked' = x /\ Pending' = {} /\ Opened' = {} /\ Distinct(todo')
  <2>1. Range(Redirected(x)) = x /\ Distinct(Redirected(x))
    BY <1>2, RedirectedFacts
  <2>2. Left' = x /\ Distinct(todo')
    BY <1>1, <2>1 DEF Left
  <2>3. Asked' = x
    BY <1>1, <1>3 DEF Asked
  <2> QED
    BY <1>1, <2>2, <2>3 DEF Pending, Opened
<1>5. child[o] = None /\ \A s \in Streams : buf[o][s] = -1
  BY <1>1 DEF TypeOK
<1>6. \A p \in Objs : child[p] # None => state[child[p]] # "unused"
  BY <1>1 DEF ParentSide, OneParent
<1>7. Constructing'
  BY <1>1, <1>3, <1>4 DEF Constructing, ParentSide
<1>8. OneParent'
  BY <1>1, <1>3, <1>6 DEF OneParent, ParentSide
<1>9. PipesMade'
  BY <1>1, <1>4, <1>5 DEF PipesMade, NoFds
<1>10. Owns' /\ Ledger'
  <2>1. Owns'
    BY <1>1, <1>3, <1>5 DEF Owns, ParentSide
  <2>2. \A n \in Fds : Claimed(n) => Claimed(n)'
    BY <1>1 DEF Claimed
  <2> QED
    BY <1>1, <2>1, <2>2 DEF ParentSide, Ledger
<1> QED
  BY <1>7, <1>8, <1>9, <1>10 DEF ParentSide

LEMMA ParentPipe ==
  ASSUME TypeOK, ParentSide, Pipe
  PROVE  ParentSide'
<1> DEFINE s == Head(todo)
           r == Lowest(ptab)
           w == Second(ptab)
           c == child[cur]
<1>1. /\ at = "pipe" /\ todo # <<>>
      /\ ptab' = [ptab EXCEPT ![r] = End(c, s, 0), ![w] = End(c, s, 1)]
      /\ fd' = [fd EXCEPT ![s] = [i \in {0, 1} |-> IF i = 0 THEN r ELSE w]]
      /\ todo' = Tail(todo)
      /\ UNCHANGED <<obj, child, buf, wired, at, cur, state, redir, ctab, ctodo, cfd, bare, moved>>
  BY DEF Pipe, members, kids
<1>2. /\ s \in Streams /\ s \in Left /\ Distinct(todo') /\ Left' = Left \ {s}
  BY <1>1, NextStream DEF TypeOK, ParentSide, Constructing, Left
<1>3. /\ r \in Fds /\ w \in Fds /\ r # w /\ ptab[r] = Closed /\ ptab[w] = Closed
  BY FreeFacts DEF Pipe
<1>4. cur \in Objs /\ c \in Children /\ Left \subseteq Asked /\ Asked \subseteq Streams
  BY <1>1, StreamSets DEF ParentSide, Constructing
<1> HIDE DEF s, r, w
<1>5. Pending' = Pending \cup {s} /\ s \notin Pending /\ Opened' = {} /\ Opened = {} /\ Pending \subseteq Streams
  BY <1>1, <1>2, <1>4 DEF Pending, Opened, Asked
<1>6. /\ ptab'[r] = End(c, s, 0) /\ ptab'[w] = End(c, s, 1)
      /\ \A n \in Fds : ptab[n] # Closed => ptab'[n] = ptab[n]
      /\ \A n \in Fds : n # r /\ n # w => ptab'[n] = ptab[n]
  BY <1>1, <1>3 DEF TypeOK, Tables
<1>7. /\ fd'[s][0] = r /\ fd'[s][1] = w
      /\ \A t \in Streams : t # s => fd'[t] = fd[t]
  BY <1>1, <1>2 DEF TypeOK, Locals
<1>8. Constructing' /\ OneParent'
  BY <1>1, <1>2, <1>4 DEF ParentSide, Constructing, OneParent, Asked
<1>9. PipesMade'
  <2>1. \A t \in Streams : buf[cur][t] = -1
    BY <1>1, <1>5 DEF ParentSide, PipesMade
  <2>2. ASSUME NEW t \in Pending', NEW i \in {0, 1} PROVE fd'[t][i] \in Fds /\ ptab'[fd'[t][i]] = End(c, t, i)
    <3>1. CASE t = s
      BY <1>3, <1>6, <1>7, <3>1
    <3>2. CASE t # s
      <4>1. t \in Pending /\ t \in Streams
        BY <1>5, <3>2
      <4>2. fd[t][i] \in Fds /\ ptab[fd[t][i]] = End(c, t, i)
        BY <1>1, <4>1 DEF ParentSide, PipesMade
      <4> QED
        BY <1>6, <1>7, <3>2, <4>1, <4>2, EndFacts
    <3> QED
      BY <3>1, <3>2
  <2>3. \A t \in Streams \ Pending', i \in {0, 1} : fd'[t][i] = -1
    BY <1>1, <1>5, <1>7 DEF ParentSide, PipesMade
  <2> QED
    BY <1>1, <1>5, <2>1, <2>2, <2>3 DEF PipesMade
<1>10. Owns'
  <2> SUFFICES ASSUME NEW o \in Objs, NEW t \in Streams, buf[o][t] # -1
               PROVE  child[o] # None /\ ptab'[buf[o][t]] = End(child[o], t, ParentIdx(t))
    BY <1>1 DEF Owns
  <2>1. buf[o][t] \in Fds
    BY DEF TypeOK
  <2> QED
    BY <1>6, <2>1, EndFacts DEF ParentSide, Owns
<1>11. Ledger'
  <2> SUFFICES ASSUME NEW n \in Fds, ptab'[n] \in Ends PROVE Claimed(n)'
    BY DEF Ledger
  <2>1. CASE n = r \/ n = w
    BY <1>1, <1>5, <1>7, <2>1 DEF Claimed
  <2>2. CASE n # r /\ n # w
    <3>1. Claimed(n)
      BY <1>6, <2>2 DEF ParentSide, Ledger
    <3> QED
      BY <1>1, <1>5, <1>7, <3>1 DEF Claimed
  <2> QED
    BY <2>1, <2>2
<1> QED
  BY <1>8, <1>9, <1>10, <1>11 DEF ParentSide

LEMMA ParentFork ==
  ASSUME TypeOK, ParentSide, Fork
  PROVE  ParentSide'
<1> DEFINE c == child[cur]
<1>1. /\ at = "pipe" /\ todo = <<>> /\ state' = [state EXCEPT ![c] = "wiring"]
      /\ at' = "open" /\ todo' = Redirected(redir[c])
      /\ UNCHANGED <<ptab, obj, child, buf, wired, cur, fd, redir, moved>>
  BY DEF Fork, members
<1>2. cur \in Objs /\ c \in Children /\ Asked \subseteq Streams
  BY <1>1, StreamSets DEF ParentSide, Constructing
<1>3. Left = {}
  BY <1>1 DEF Left, Range
<1>4. Left' = Asked /\ Distinct(todo') /\ Asked' = Asked
  BY <1>1, <1>2, RedirectedFacts DEF Left, Asked
<1>5. Pending = Asked /\ Pending' = Asked /\ Opened = {} /\ Opened' = {}
  BY <1>1, <1>3, <1>4 DEF Pending, Opened
<1>6. \A d \in Children : state'[d] = IF d = c THEN "wiring" ELSE state[d]
  BY <1>1 DEF TypeOK
<1>7. Constructing'
  BY <1>1, <1>2, <1>4 DEF ParentSide, Constructing
<1>8. OneParent'
  <2>1. \A o \in Objs : child[o] # None => child[o] \in Children
    BY DEF TypeOK
  <2> QED
    BY <1>1, <1>6, <2>1 DEF ParentSide, OneParent
<1>9. PipesMade'
  BY <1>1, <1>5 DEF ParentSide, PipesMade
<1>10. Owns' /\ Ledger'
  BY <1>1, <1>5 DEF ParentSide, Owns, Ledger, Claimed
<1> QED
  BY <1>7, <1>8, <1>9, <1>10 DEF ParentSide

LEMMA ParentOpen ==
  ASSUME TypeOK, ParentSide, Open
  PROVE  ParentSide'
<1> DEFINE s == Head(todo)
           shut == fd[s][ChildIdx(s)]
           kept == fd[s][ParentIdx(s)]
<1>1. /\ at = "open" /\ todo # <<>>
      /\ buf' = [buf EXCEPT ![cur][s] = kept]
      /\ ptab' = Without(ptab, {shut}) /\ todo' = Tail(todo)
      /\ UNCHANGED <<obj, child, at, cur, fd, state, redir, ctab, ctodo, cfd, bare, moved>>
  BY DEF Open, kids
<1>2. s \in Streams /\ s \in Left /\ Distinct(todo') /\ Left' = Left \ {s}
  BY <1>1, NextStream DEF TypeOK, ParentSide, Constructing, Left
<1>3. cur \in Objs /\ child[cur] \in Children /\ Left \subseteq Asked /\ Asked \subseteq Streams /\ Asked' = Asked
  BY <1>1, StreamSets DEF ParentSide, Constructing, Asked
<1>4. Pending = Left /\ Pending' = Left \ {s} /\ Opened = Asked \ Left /\ Opened' = Opened \cup {s}
  BY <1>1, <1>2, <1>3 DEF Pending, Opened
<1>5. /\ shut \in Fds /\ ptab[shut] = End(child[cur], s, ChildIdx(s))
      /\ kept \in Fds /\ ptab[kept] = End(child[cur], s, ParentIdx(s)) /\ kept # shut
  <2>1. \A i \in {0, 1} : fd[s][i] \in Fds /\ ptab[fd[s][i]] = End(child[cur], s, i)
    BY <1>1, <1>2, <1>4 DEF ParentSide, PipesMade
  <2> HIDE DEF s
  <2> QED
    BY <1>2, <2>1, StreamFacts, EndFacts
<1> HIDE DEF s, shut, kept
<1>6. ptab'[shut] = Closed /\ \A n \in Fds : n # shut => ptab'[n] = ptab[n]
  BY <1>1, <1>5 DEF Without
<1>7. /\ buf'[cur][s] = kept
      /\ \A o \in Objs, t \in Streams : o # cur \/ t # s => buf'[o][t] = buf[o][t]
  BY <1>1, <1>2, <1>3 DEF TypeOK
<1>8. Constructing' /\ OneParent'
  BY <1>1, <1>2, <1>3 DEF ParentSide, Constructing, OneParent
<1>9. PipesMade'
  <2>1. \A t \in Streams : buf'[cur][t] = IF t \in Opened' THEN fd[t][ParentIdx(t)] ELSE -1
    BY <1>1, <1>3, <1>4, <1>7 DEF ParentSide, PipesMade, kept
  <2>2. ASSUME NEW t \in Pending', NEW i \in {0, 1}
        PROVE  fd[t][i] \in Fds /\ ptab'[fd[t][i]] = End(child[cur], t, i)
    <3>1. fd[t][i] \in Fds /\ ptab[fd[t][i]] = End(child[cur], t, i) /\ t # s
      BY <1>1, <1>4 DEF ParentSide, PipesMade
    <3> QED
      BY <1>5, <1>6, <3>1, EndFacts
  <2>3. \A t \in Opened' : fd[t][ParentIdx(t)] \in Fds /\ fd[t][ChildIdx(t)] \in Fds
                           /\ ptab'[fd[t][ChildIdx(t)]] = Closed
    BY <1>1, <1>4, <1>5, <1>6 DEF ParentSide, PipesMade, shut, kept
  <2>4. \A t \in Streams \ (Pending' \cup Opened'), i \in {0, 1} : fd[t][i] = -1
    BY <1>1, <1>2, <1>4 DEF ParentSide, PipesMade
  <2> QED
    BY <1>1, <2>1, <2>2, <2>3, <2>4 DEF PipesMade
<1>10. Owns'
  <2> SUFFICES ASSUME NEW o \in Objs, NEW t \in Streams, buf'[o][t] # -1
               PROVE  child[o] # None /\ ptab'[buf'[o][t]] = End(child[o], t, ParentIdx(t))
    BY <1>1 DEF Owns
  <2>1. CASE o = cur /\ t = s
    BY <1>3, <1>5, <1>6, <1>7, <2>1, TypeFacts
  <2>2. CASE o # cur \/ t # s
    <3>1. buf[o][t] \in Fds /\ child[o] # None /\ ptab[buf[o][t]] = End(child[o], t, ParentIdx(t))
      BY <1>7, <2>2 DEF ParentSide, Owns, TypeOK
    <3>2. buf[o][t] # shut
      BY <1>2, <1>5, <3>1, EndFacts, StreamFacts
    <3> QED
      BY <1>6, <1>7, <2>2, <3>1, <3>2
  <2> QED
    BY <2>1, <2>2
<1>11. Ledger'
  <2> SUFFICES ASSUME NEW n \in Fds, ptab'[n] \in Ends PROVE Claimed(n)'
    BY DEF Ledger
  <2>1. n # shut /\ Claimed(n)
    BY <1>6, EndFacts DEF ParentSide, Ledger
  <2>2. CASE \E o \in Objs, t \in Streams : buf[o][t] = n
    <3>1. PICK o \in Objs, t \in Streams : buf[o][t] = n
      BY <2>2
    <3>2. ~(o = cur /\ t = s)
      <4>1. s \notin Opened
        BY <1>2, <1>4
      <4> QED
        BY <1>1, <1>2, <3>1, <4>1, FdFacts DEF ParentSide, PipesMade
    <3> QED
      BY <1>7, <3>1, <3>2 DEF Claimed
  <2>3. CASE at # "idle" /\ \E t \in Pending, i \in {0, 1} : fd[t][i] = n
    <3>1. PICK t \in Pending, i \in {0, 1} : fd[t][i] = n
      BY <2>3
    <3>2. CASE t = s
      <4>1. i = ParentIdx(s)
        BY <1>2, <2>1, <3>1, <3>2, StreamFacts DEF shut
      <4> QED
        BY <1>2, <1>3, <1>7, <3>1, <3>2, <4>1 DEF Claimed, kept
    <3>3. CASE t # s
      BY <1>1, <1>4, <3>1, <3>3 DEF Claimed
    <3> QED
      BY <3>2, <3>3
  <2> QED
    BY <2>1, <2>2, <2>3 DEF Claimed
<1> QED
  BY <1>8, <1>9, <1>10, <1>11 DEF ParentSide

(* An object is destroyed and its filebufs, and whatever numbers close all *)
(* that the object and the locals hold and nothing of the others.          *)
LEMMA ParentGone ==
  ASSUME TypeOK, ParentSide, NEW o \in Objs, Gone(o), NEW shut, ptab' = Without(ptab, shut),
         \A s \in Streams : buf[o][s] \in shut,
         at # "idle" => o = cur /\ \A s \in Pending, i \in {0, 1} : fd[s][i] \in shut,
         \A n \in shut : n = -1 \/ ptab[n] = Closed \/ \E s, i : ptab[n] = End(child[o], s, i),
         at' = "idle", Left' = {}, Distinct(todo'), state' = state
  PROVE  ParentSide'
<1>1. /\ \A p \in Objs : p # o => obj'[p] = obj[p] /\ child'[p] = child[p] /\ buf'[p] = buf[p]
      /\ obj'[o] = "none" /\ child'[o] = None /\ \A s \in Streams : buf'[o][s] = -1
  BY DEF Gone, TypeOK
<1>2. \A n \in Fds : ptab'[n] = IF n \in shut THEN Closed ELSE ptab[n]
  BY DEF Without
<1>3. Constructing'
  BY <1>1 DEF ParentSide, Constructing
<1>4. OneParent'
  BY <1>1 DEF ParentSide, Constructing, OneParent
<1>5. PipesMade'
  BY DEF PipesMade, Opened
<1>6. Owns'
  <2> SUFFICES ASSUME NEW p \in Objs, NEW s \in Streams, buf'[p][s] # -1
               PROVE  child'[p] # None /\ ptab'[buf'[p][s]] = End(child'[p], s, ParentIdx(s))
    BY DEF Owns
  <2>1. p # o /\ buf[p][s] # -1 /\ buf[p][s] \in Fds
    BY <1>1 DEF TypeOK
  <2>2. child[p] # None /\ child[p] # child[o] /\ ptab[buf[p][s]] = End(child[p], s, ParentIdx(s))
    BY <2>1 DEF ParentSide, Owns, OneParent
  <2>3. buf[p][s] \notin shut
    BY <2>1, <2>2, EndFacts
  <2> QED
    BY <1>1, <1>2, <2>1, <2>2, <2>3
<1>7. Ledger'
  <2> SUFFICES ASSUME NEW n \in Fds, ptab'[n] \in Ends PROVE Claimed(n)'
    BY DEF Ledger
  <2>1. n \notin shut /\ Claimed(n)
    BY <1>2, EndFacts DEF ParentSide, Ledger
  <2>2. PICK p \in Objs, s \in Streams : buf[p][s] = n
    BY <2>1 DEF Claimed
  <2>3. p # o
    BY <2>1, <2>2
  <2> QED
    BY <1>1, <2>2, <2>3 DEF Claimed
<1> QED
  BY <1>3, <1>4, <1>5, <1>6, <1>7 DEF ParentSide

LEMMA ParentThrow ==
  ASSUME TypeOK, ParentSide, Throw
  PROVE  ParentSide'
<1> DEFINE shut == All(fd) \cup {buf[cur][s] : s \in Streams}
           c == child[cur]
<1>1. /\ at # "idle" /\ Gone(cur) /\ ptab' = Without(ptab, shut)
      /\ at' = "idle" /\ todo' = <<>> /\ state' = state
  BY DEF Throw, Idle
<1>2. cur \in Objs
  BY <1>1 DEF ParentSide, Constructing
<1>3. \A n : n \in shut <=> \/ \E s \in Streams : n = fd[s][0] \/ n = fd[s][1]
                           \/ \E s \in Streams : n = buf[cur][s]
  BY DEF All, Both
<1> HIDE DEF shut
<1>4. \A s \in Pending, i \in {0, 1} : fd[s][i] \in shut
  BY <1>1, <1>3, StreamSets DEF ParentSide
<1>5. ASSUME NEW s \in Streams, NEW i \in {0, 1}
      PROVE  fd[s][i] = -1 \/ ptab[fd[s][i]] = Closed \/ \E t, j : ptab[fd[s][i]] = End(c, t, j)
  <2>1. CASE s \in Pending
    BY <1>1, <2>1 DEF ParentSide, PipesMade
  <2>2. CASE s \in Opened
    <3>1. CASE i = ChildIdx(s)
      BY <2>2, <3>1 DEF ParentSide, PipesMade
    <3>2. CASE i = ParentIdx(s)
      BY <1>1, <1>2, <2>2, <3>2 DEF ParentSide, PipesMade, Owns
    <3> QED
      BY <3>1, <3>2, StreamFacts
  <2>3. CASE s \notin Pending \cup Opened
    BY <1>1, <2>3 DEF ParentSide, PipesMade
  <2> QED
    BY <2>1, <2>2, <2>3
<1>6. ASSUME NEW s \in Streams
      PROVE  buf[cur][s] = -1 \/ \E t, j : ptab[buf[cur][s]] = End(c, t, j)
  BY <1>2 DEF ParentSide, Owns
<1>7. \A n \in shut : n = -1 \/ ptab[n] = Closed \/ \E s, i : ptab[n] = End(c, s, i)
  BY <1>3, <1>5, <1>6
<1>8. Left' = {} /\ Distinct(todo')
  BY <1>1 DEF Left, Range, Distinct
<1> QED
  BY <1>1, <1>2, <1>3, <1>4, <1>7, <1>8, ParentGone

LEMMA ParentReturn ==
  ASSUME TypeOK, ParentSide, Return
  PROVE  ParentSide'
<1>1. /\ at = "open" /\ todo = <<>> /\ obj' = [obj EXCEPT ![cur] = "live"]
      /\ at' = "idle" /\ todo' = <<>>
      /\ UNCHANGED <<ptab, child, buf, state>>
  BY DEF Return, Idle, members, kids
<1>2. Pending = {}
  BY <1>1 DEF Pending, Left, Range
<1>3. Constructing'
  BY <1>1 DEF ParentSide, Constructing, TypeOK, Distinct
<1>4. OneParent'
  BY <1>1 DEF ParentSide, OneParent
<1>5. PipesMade'
  BY <1>1 DEF PipesMade, Opened
<1>6. Owns' /\ Ledger'
  BY <1>1, <1>2 DEF ParentSide, Owns, Ledger, Claimed
<1> QED
  BY <1>3, <1>4, <1>5, <1>6 DEF ParentSide

LEMMA ParentDestroy ==
  ASSUME TypeOK, ParentSide, NEW o \in Objs, Destroy(o)
  PROVE  ParentSide'
<1> DEFINE shut == {buf[o][s] : s \in Streams}
<1>1. /\ at = "idle" /\ Gone(o) /\ ptab' = Without(ptab, shut)
      /\ at' = "idle" /\ todo' = <<>> /\ state' = state
  BY DEF Destroy, thread, kids, TypeOK
<1>2. \A s \in Streams : buf[o][s] \in shut
  OBVIOUS
<1>3. \A n \in shut : n = -1 \/ ptab[n] = Closed \/ \E s, i : ptab[n] = End(child[o], s, i)
  BY DEF ParentSide, Owns
<1>4. Left' = {} /\ Distinct(todo')
  BY <1>1 DEF Left, Range, Distinct
<1> HIDE DEF shut
<1> QED
  BY <1>1, <1>2, <1>3, <1>4, ParentGone

LEMMA ParentSwap ==
  ASSUME TypeOK, ParentSide, NEW a \in Objs, NEW b \in Objs, Swap(a, b)
  PROVE  ParentSide'
<1>1. /\ at = "idle" /\ at' = "idle" /\ todo' = todo /\ obj' = obj /\ ptab' = ptab /\ state' = state
      /\ child' = Exchanged(child, a, b) /\ buf' = Exchanged(buf, a, b)
  BY DEF Swap, thread, kids
<1> DEFINE from(o) == IF o = a THEN b ELSE IF o = b THEN a ELSE o
<1>2. \A o \in Objs : from(o) \in Objs /\ child'[o] = child[from(o)] /\ buf'[o] = buf[from(o)]
                     /\ from(from(o)) = o
  BY <1>1 DEF Exchanged, TypeOK
<1> HIDE DEF from
<1>3. Constructing'
  BY <1>1 DEF ParentSide, Constructing
<1>4. OneParent'
  BY <1>1, <1>2 DEF ParentSide, OneParent
<1>5. PipesMade'
  BY <1>1 DEF PipesMade, Opened
<1>6. Owns'
  BY <1>1, <1>2 DEF ParentSide, Owns
<1>7. Ledger'
  BY <1>1, <1>2 DEF ParentSide, Ledger, Claimed
<1> QED
  BY <1>3, <1>4, <1>5, <1>6, <1>7 DEF ParentSide

LEMMA ParentClose ==
  ASSUME TypeOK, ParentSide, NEW n \in Closable, CloseStandard(n)
  PROVE  ParentSide'
<1>1. /\ at = "idle" /\ at' = "idle" /\ todo' = todo /\ obj' = obj /\ child' = child /\ buf' = buf
      /\ state' = state /\ ptab' = Without(ptab, {n}) /\ ptab[n] = Standard(n)
  BY DEF CloseStandard, thread, kids, members
<1>2. \A k \in Fds : ptab'[k] = IF k = n THEN Closed ELSE ptab[k]
  BY <1>1 DEF Without
<1>3. Constructing' /\ OneParent' /\ PipesMade'
  BY <1>1 DEF ParentSide, Constructing, OneParent, PipesMade, Opened
<1>4. Owns'
  <2> SUFFICES ASSUME NEW o \in Objs, NEW s \in Streams, buf[o][s] # -1
               PROVE  child[o] # None /\ ptab'[buf[o][s]] = End(child[o], s, ParentIdx(s))
    BY <1>1 DEF Owns
  <2>1. buf[o][s] \in Fds
    BY DEF TypeOK
  <2>2. child[o] # None /\ ptab[buf[o][s]] = End(child[o], s, ParentIdx(s))
    BY DEF ParentSide, Owns
  <2>3. buf[o][s] # n
    BY <1>1, <2>2, EndFacts
  <2> QED
    BY <1>2, <2>1, <2>2, <2>3
<1>5. Ledger'
  BY <1>1, <1>2, EndFacts DEF ParentSide, Ledger, Claimed
<1> QED
  BY <1>3, <1>4, <1>5 DEF ParentSide

(* The program's side does not depend on how far its children are. *)
LEMMA ParentSame ==
  ASSUME TypeOK, ParentSide, ptab' = ptab, child' = child, buf' = buf, at' = at, cur' = cur, todo' = todo, fd' = fd,
         redir' = redir, \A o \in Objs : (obj'[o] = "making") <=> (obj[o] = "making"),
         \A c \in Children : (state'[c] = "unused") <=> (state[c] = "unused")
  PROVE  ParentSide'
<1>1. Left' = Left /\ Asked' = Asked /\ Pending' = Pending /\ Opened' = Opened
  BY DEF Left, Asked, Pending, Opened
<1>2. Constructing'
  BY <1>1 DEF ParentSide, Constructing, TypeOK
<1>3. OneParent'
  BY DEF ParentSide, OneParent, TypeOK
<1>4. PipesMade' /\ Owns' /\ Ledger'
  BY <1>1 DEF ParentSide, PipesMade, Owns, Ledger, Claimed
<1> QED
  BY <1>2, <1>3, <1>4 DEF ParentSide

LEMMA ParentOthers ==
  ASSUME TypeOK, ParentSide
  PROVE  /\ \A o \in Objs : DefaultConstruct(o) => ParentSide'
         /\ \A c \in Children : Dup(c) \/ DupThrows(c) \/ Run(c) \/ Finish(c) => ParentSide'
         /\ UNCHANGED vars => ParentSide'
<1>1. ASSUME NEW o \in Objs, DefaultConstruct(o) PROVE ParentSide'
  <2>1. \A p \in Objs : (obj'[p] = "making") <=> (obj[p] = "making")
    BY <1>1 DEF DefaultConstruct, TypeOK
  <2> QED
    BY <1>1, <2>1, ParentSame DEF DefaultConstruct, members, thread, kids
<1>2. ASSUME NEW c \in Children, Dup(c) \/ DupThrows(c) \/ Run(c) \/ Finish(c) PROVE ParentSide'
  <2>1. \A d \in Children : (state'[d] = "unused") <=> (state[d] = "unused")
    BY <1>2 DEF Dup, DupThrows, Run, Finish, TypeOK
  <2>2. UNCHANGED <<ptab, obj, members, thread, redir>>
    BY <1>2 DEF Dup, DupThrows, Run, Finish
  <2> QED
    BY <2>1, <2>2, ParentSame DEF members, thread
<1>3. CASE UNCHANGED vars
  BY <1>3, ParentSame DEF vars, members, thread, kids
<1> QED
  BY <1>1, <1>2, <1>3

----------------------------------------------------------------------------
(* The children: what the table of child c holds. *)

Unwired(c) == Range(ctodo[c])

Stage(c) ==
  /\ state[c] \in {"unused", "ended"} => ctab[c] = NoTable
  /\ state[c] # "wiring" => ctodo[c] = <<>>
  /\ Distinct(ctodo[c]) /\ Unwired(c) \subseteq redir[c]
  /\ \A s \in Unwired(c), i \in {0, 1} : cfd[c][s][i] \in Fds

(* Of other children it has what the parent had when it forked, the        *)
(* parent's ends. *)
Foreign(c) == \A n \in Fds, d \in Children \ {c}, s \in Streams, i \in {0, 1} :
  ctab[c][n] = End(d, s, i) => i = ParentIdx(s) /\ state[d] # "unused"

(* Of its own pipes it has the parent's ends until dup_if closes them, and *)
(* never duplicates one. *)
Theirs(c) ==
  /\ state[c] \in {"wiring", "running"} => \A n \in Fds, s \in Streams :
       ctab[c][n] = End(c, s, ParentIdx(s)) => s \in Unwired(c) /\ n = cfd[c][s][ParentIdx(s)]
  /\ \A s \in Unwired(c), t \in Streams : ctab[c][cfd[c][s][ChildIdx(s)]] # End(c, t, ParentIdx(t))

(* If the standard descriptors were open when it was forked, they are what *)
(* they are to be, stream after stream, and nothing else is its own end.   *)
Standards(c) ==
  /\ \A s \in Unwired(c), i \in {0, 1} : ctab[c][cfd[c][s][i]] = End(c, s, i)
  /\ \A s \in Streams :
       /\ ctab[c][FILENO[s]] = IF s \in redir[c] \ Unwired(c) THEN End(c, s, ChildIdx(s)) ELSE Standard(FILENO[s])
       /\ \A n \in Fds : ctab[c][n] = End(c, s, ChildIdx(s)) =>
            n = IF s \in Unwired(c) THEN cfd[c][s][ChildIdx(s)] ELSE FILENO[s]

Kid(c) == /\ Stage(c) /\ Foreign(c) /\ Theirs(c)
          /\ ~bare[c] /\ state[c] \in {"wiring", "running"} => Standards(c)
Kids == \A c \in Children : Kid(c)

LEMMA NothingToDo == Range(<<>>) = {} /\ Distinct(<<>>)
  BY DEF Range, Distinct

LEMMA NoTableEnds ==
  ASSUME NEW c, NEW s, NEW i, NEW n \in Fds
  PROVE  NoTable[n] # End(c, s, i)
  BY EndFacts DEF NoTable

LEMMA KidsInit == Init => Kids
<1> SUFFICES ASSUME Init, NEW c \in Children PROVE Kid(c)
  BY DEF Kids
<1>1. state[c] = "unused" /\ ctab[c] = NoTable /\ ctodo[c] = <<>>
  BY DEF Init
<1> QED
  BY <1>1, NothingToDo, NoTableEnds DEF Kid, Stage, Foreign, Theirs, Unwired

(* A child that is left alone stays as it is, if no child is unused again. *)
LEMMA KidSame ==
  ASSUME TypeOK, NEW c \in Children, Kid(c), state'[c] = state[c], ctab'[c] = ctab[c], ctodo'[c] = ctodo[c],
         cfd'[c] = cfd[c], bare'[c] = bare[c], redir'[c] = redir[c] \/ state[c] = "unused",
         \A d \in Children : state[d] # "unused" => state'[d] # "unused"
  PROVE  Kid(c)'
<1>1. Unwired(c)' = Unwired(c)
  BY DEF Unwired
<1>2. CASE state[c] = "unused"
  BY <1>1, <1>2, NothingToDo, NoTableEnds DEF Kid, Stage, Foreign, Theirs, Unwired
<1>3. CASE redir'[c] = redir[c]
  <2>1. Stage(c)' /\ Theirs(c)'
    BY <1>1, <1>3 DEF Kid, Stage, Theirs
  <2>2. Foreign(c)'
    BY DEF Kid, Foreign
  <2>3. ~bare'[c] /\ state'[c] \in {"wiring", "running"} => Standards(c)'
    BY <1>1, <1>3 DEF Kid, Standards
  <2> QED
    BY <2>1, <2>2, <2>3 DEF Kid
<1> QED
  BY <1>2, <1>3

(* The child has every end its parent has. *)
LEMMA KidForked ==
  ASSUME TypeOK, ParentSide, Fork, NEW c \in Children, c = child[cur]
  PROVE  Kid(c)'
<1>1. cur \in Objs /\ c \in Children /\ Asked \subseteq Streams /\ at = "pipe"
  BY StreamSets DEF Fork, ParentSide, Constructing
<1>2. /\ state'[c] = "wiring" /\ ctab'[c] = ptab /\ cfd'[c] = fd /\ redir' = redir
      /\ ctodo'[c] = Redirected(redir[c]) /\ todo = <<>>
      /\ bare'[c] = \E n \in 0 .. 2 : ptab[n] # Standard(n)
      /\ \A d \in Children : state[d] # "unused" => state'[d] # "unused"
  BY <1>1 DEF Fork, TypeOK
<1>3. Unwired(c)' = Asked /\ Distinct(ctodo'[c]) /\ Pending = Asked /\ Opened = {}
  BY <1>1, <1>2, RedirectedFacts, NothingToDo DEF Unwired, Asked, Pending, Opened, Left
<1>4. \A s \in Asked, i \in {0, 1} : fd[s][i] \in Fds /\ ptab[fd[s][i]] = End(c, s, i)
  BY <1>1, <1>3 DEF ParentSide, PipesMade
<1>5. ASSUME NEW n \in Fds, NEW d \in Children, NEW s \in Streams, NEW i \in {0, 1}, ptab[n] = End(d, s, i)
      PROVE  IF d = c THEN s \in Asked /\ n = fd[s][i] ELSE i = ParentIdx(s) /\ state[d] # "unused"
  <2>1. Claimed(n)
    BY <1>5, EndFacts DEF ParentSide, Ledger
  <2>2. CASE \E o \in Objs, t \in Streams : buf[o][t] = n
    <3>1. PICK o \in Objs, t \in Streams : buf[o][t] = n
      BY <2>2
    <3>2. child[o] = d /\ i = ParentIdx(s) /\ child[o] # None
      BY <1>5, <3>1, FdFacts, EndFacts DEF ParentSide, Owns
    <3>3. o # cur
      BY <1>1, <1>3, <3>1, FdFacts DEF ParentSide, PipesMade
    <3>4. d # c /\ state[d] # "unused"
      BY <1>1, <3>2, <3>3 DEF ParentSide, OneParent
    <3> QED
      BY <3>2, <3>4
  <2>3. CASE \E t \in Pending, j \in {0, 1} : fd[t][j] = n
    BY <1>3, <1>4, <1>5, <2>3, EndFacts
  <2> QED
    BY <2>1, <2>2, <2>3 DEF Claimed
<1>6. Stage(c)'
  BY <1>2, <1>3, <1>4 DEF Stage, Asked
<1>7. Foreign(c)'
  BY <1>2, <1>5 DEF Foreign
<1>8. Theirs(c)'
  BY <1>1, <1>2, <1>3, <1>4, <1>5, StreamFacts, EndFacts DEF Theirs
<1>9. ASSUME ~bare'[c] PROVE Standards(c)'
  <2>1. \A s \in Streams : ptab[FILENO[s]] = Standard(FILENO[s])
    BY <1>2, <1>9, StreamFacts
  <2>2. Unwired(c)' = redir'[c]
    BY <1>2, <1>3 DEF Asked
  <2>3. \A n \in Fds, s \in Streams : ptab[n] = End(c, s, ChildIdx(s)) => s \in Asked /\ n = fd[s][ChildIdx(s)]
    BY <1>1, <1>5, StreamFacts
  <2> QED
    BY <1>2, <1>3, <1>4, <2>1, <2>2, <2>3 DEF Standards
<1> QED
  BY <1>6, <1>7, <1>8, <1>9 DEF Kid

(* dup_if: one more stream is wired, and both ends of its pipe are closed. *)
LEMMA KidDup ==
  ASSUME TypeOK, NEW c \in Children, Kid(c), Dup(c)
  PROVE  Kid(c)'
<1> DEFINE s == Head(ctodo[c])
           from == cfd[c][s][ChildIdx(s)]
           both == {cfd[c][s][0], cfd[c][s][1]}
<1>1. state[c] = "wiring" /\ ctodo[c] # <<>> /\ ctodo'[c] = Tail(ctodo[c])
      /\ UNCHANGED <<state, redir, cfd, bare>>
  BY DEF Dup, TypeOK
<1>2. s \in Streams /\ s \in Unwired(c) /\ Distinct(ctodo'[c]) /\ Unwired(c)' = Unwired(c) \ {s}
      /\ Unwired(c) \subseteq redir[c] /\ redir[c] \subseteq Streams
  BY <1>1, NextStream DEF TypeOK, Kid, Stage, Unwired
<1>3. FILENO[s] \in Fds /\ from \in both /\ from \in Fds /\ \A i \in {0, 1} : cfd[c][s][i] \in both
  BY <1>2, FdFacts, StreamFacts DEF Kid, Stage
<1>4. \A n \in Fds : ctab'[c][n] = IF n \in both THEN Closed
                                   ELSE IF n = FILENO[s] THEN ctab[c][from] ELSE ctab[c][n]
  <2>1. ctab'[c] = Without([ctab[c] EXCEPT ![FILENO[s]] = ctab[c][from]], both)
    BY DEF Dup, Both, TypeOK
  <2>2. ctab[c] \in [Fds -> {Closed} \cup {Standard(n) : n \in 0 .. 2} \cup Ends]
    BY DEF TypeOK, Tables
  <2> HIDE DEF s, from, both
  <2> QED
    BY <2>1, <2>2 DEF Without
<1> HIDE DEF s, from, both
<1>5. Stage(c)'
  BY <1>1, <1>2 DEF Kid, Stage
<1>6. Foreign(c)'
  BY <1>1, <1>3, <1>4, EndFacts DEF Kid, Foreign
<1>7. Theirs(c)'
  <2>1. \A t \in Streams : ctab[c][from] # End(c, t, ParentIdx(t))
    BY <1>2 DEF Kid, Theirs, from
  <2>2. ASSUME NEW n \in Fds, NEW t \in Streams, ctab'[c][n] = End(c, t, ParentIdx(t))
        PROVE  t \in Unwired(c)' /\ n = cfd'[c][t][ParentIdx(t)]
    <3>1. n \notin both /\ ctab[c][n] = End(c, t, ParentIdx(t))
      BY <1>4, <2>1, <2>2, EndFacts
    <3>2. t \in Unwired(c) /\ n = cfd[c][t][ParentIdx(t)]
      BY <1>1, <3>1 DEF Kid, Theirs
    <3> QED
      BY <1>1, <1>2, <1>3, <3>1, <3>2, StreamFacts
  <2>3. ASSUME NEW u \in Unwired(c)', NEW t \in Streams
        PROVE  ctab'[c][cfd'[c][u][ChildIdx(u)]] # End(c, t, ParentIdx(t))
    <3>1. u \in Unwired(c) /\ u \in Streams
      BY <1>2
    <3>2. cfd[c][u][ChildIdx(u)] \in Fds
      BY <3>1, StreamFacts DEF Kid, Stage
    <3>3. ctab[c][cfd[c][u][ChildIdx(u)]] # End(c, t, ParentIdx(t))
      BY <3>1 DEF Kid, Theirs
    <3> QED
      BY <1>1, <1>4, <2>1, <3>2, <3>3, EndFacts
  <2> QED
    BY <2>2, <2>3 DEF Theirs
<1>8. ASSUME ~bare[c] PROVE Standards(c)'
  <2>1. Standards(c)
    BY <1>1, <1>8 DEF Kid
  <2>2. ASSUME NEW t \in Unwired(c), NEW i \in {0, 1}
        PROVE  /\ cfd[c][t][i] \in Fds /\ ctab[c][cfd[c][t][i]] = End(c, t, i)
               /\ \A u \in Streams : FILENO[u] # cfd[c][t][i]
    <3>1. cfd[c][t][i] \in Fds /\ ctab[c][cfd[c][t][i]] = End(c, t, i)
      BY <2>1 DEF Kid, Stage, Standards
    <3>2. ASSUME NEW u \in Streams PROVE FILENO[u] # cfd[c][t][i]
      BY <2>1, <3>1, EndFacts DEF Standards
    <3> QED
      BY <3>1, <3>2
  <2>3. /\ \A n \in both : \E i \in {0, 1} : n = cfd[c][s][i]
        /\ ctab[c][from] = End(c, s, ChildIdx(s))
    BY <1>2, <2>2, StreamFacts DEF both, from
  <2>4. \A u \in Streams : FILENO[u] \notin both
    BY <1>2, <2>2, <2>3
  <2>5. ASSUME NEW t \in Unwired(c)', NEW i \in {0, 1} PROVE ctab'[c][cfd'[c][t][i]] = End(c, t, i)
    <3>1. t \in Unwired(c) /\ t # s
      BY <1>2
    <3>2. cfd[c][t][i] \notin both
      BY <1>2, <2>2, <2>3, <3>1, EndFacts
    <3> QED
      BY <1>1, <1>2, <1>4, <2>2, <3>1, <3>2
  <2>6. ASSUME NEW u \in Streams
        PROVE  ctab'[c][FILENO[u]] = IF u \in redir'[c] \ Unwired(c)' THEN End(c, u, ChildIdx(u)) ELSE Standard(FILENO[u])
    <3>1. FILENO[u] \in Fds /\ FILENO[u] \notin both
      BY <2>4, FdFacts
    <3>2. CASE u = s
      BY <1>1, <1>2, <1>4, <2>3, <3>1, <3>2
    <3>3. CASE u # s
      <4>1. FILENO[u] # FILENO[s]
        BY <1>2, <3>3, StreamFacts
      <4>2. ctab'[c][FILENO[u]] = ctab[c][FILENO[u]]
        BY <1>4, <3>1, <4>1
      <4>3. u \in redir'[c] \ Unwired(c)' <=> u \in redir[c] \ Unwired(c)
        BY <1>1, <1>2, <3>3
      <4> QED
        BY <2>1, <4>2, <4>3 DEF Standards
    <3> QED
      BY <3>2, <3>3
  <2>7. ASSUME NEW u \in Streams, NEW n \in Fds, ctab'[c][n] = End(c, u, ChildIdx(u))
        PROVE  n = IF u \in Unwired(c)' THEN cfd'[c][u][ChildIdx(u)] ELSE FILENO[u]
    <3>1. n \notin both
      BY <1>4, <2>7, EndFacts
    <3>2. CASE n = FILENO[s]
      BY <1>2, <1>4, <2>3, <2>7, <3>1, <3>2, EndFacts
    <3>3. CASE n # FILENO[s]
      <4>1. n = IF u \in Unwired(c) THEN cfd[c][u][ChildIdx(u)] ELSE FILENO[u]
        BY <1>4, <2>1, <2>7, <3>1, <3>3 DEF Standards
      <4>2. u # s
        BY <1>2, <1>3, <3>1, <4>1, StreamFacts
      <4> QED
        BY <1>1, <1>2, <4>1, <4>2
    <3> QED
      BY <3>2, <3>3
  <2> QED
    BY <2>5, <2>6, <2>7 DEF Standards
<1> QED
  BY <1>1, <1>5, <1>6, <1>7, <1>8 DEF Kid

(* The other steps of a child. *)
LEMMA KidEnds ==
  ASSUME TypeOK, NEW c \in Children, Kid(c), DupThrows(c) \/ Run(c) \/ Finish(c)
  PROVE  Kid(c)'
<1>1. CASE DupThrows(c)
  <2>1. state'[c] = "escaped" /\ ctodo'[c] = <<>> /\ ctab'[c] = Without(ctab[c], All(cfd[c])) /\ state[c] # "unused"
        /\ \A d \in Children : state[d] # "unused" => state'[d] # "unused"
    BY <1>1 DEF DupThrows, TypeOK
  <2>2. \A n \in Fds : ctab'[c][n] = Closed \/ ctab'[c][n] = ctab[c][n]
    BY <2>1 DEF Without
  <2>3. Unwired(c)' = {} /\ Stage(c)'
    BY <2>1, NothingToDo DEF Stage, Unwired
  <2>4. Foreign(c)'
    BY <2>1, <2>2, EndFacts DEF Kid, Foreign
  <2>5. Theirs(c)'
    BY <2>1, <2>3 DEF Theirs
  <2> QED
    BY <2>1, <2>3, <2>4, <2>5 DEF Kid
<1>2. CASE Run(c)
  <2>1. state[c] = "wiring" /\ state'[c] = "running" /\ ctodo[c] = <<>> /\ UNCHANGED <<redir, ctab, ctodo, bare>>
        /\ \A d \in Children : state[d] # "unused" => state'[d] # "unused"
    BY <1>2 DEF Run, TypeOK
  <2>2. Unwired(c) = {} /\ Unwired(c)' = {} /\ Stage(c)'
    BY <2>1, NothingToDo DEF Stage, Unwired
  <2>3. Foreign(c)'
    BY <2>1 DEF Kid, Foreign
  <2>4. Theirs(c)'
    BY <2>1, <2>2 DEF Kid, Theirs
  <2>5. ~bare'[c] => Standards(c)'
    BY <2>1, <2>2 DEF Kid, Standards
  <2> QED
    BY <2>2, <2>3, <2>4, <2>5 DEF Kid
<1>3. CASE Finish(c)
  <2>1. state'[c] = "ended" /\ ctodo'[c] = <<>> /\ ctab'[c] = NoTable
    BY <1>3 DEF Finish, TypeOK
  <2> QED
    BY <2>1, NothingToDo, NoTableEnds DEF Kid, Stage, Foreign, Theirs, Unwired
<1> QED
  BY <1>1, <1>2, <1>3

LEMMA KidsStep ==
  ASSUME TypeOK, ParentSide, Kids, [Next]_vars
  PROVE  Kids'
<1> SUFFICES ASSUME NEW k \in Children PROVE Kid(k)'
  BY DEF Kids
<1>0. Kid(k)
  BY DEF Kids
<1>1. ASSUME NEW o \in Objs, NEW c \in Children, NEW x \in Redirs, Begin(o, c, x) PROVE Kid(k)'
  BY <1>0, <1>1, KidSame DEF Begin, TypeOK
<1>2. CASE Pipe
  BY <1>0, <1>2, KidSame DEF Pipe, kids
<1>3. CASE Fork
  <2>1. CASE k = child[cur]
    BY <1>3, <2>1, KidForked
  <2>2. CASE k # child[cur]
    <3>1. /\ state'[k] = state[k] /\ ctab'[k] = ctab[k] /\ ctodo'[k] = ctodo[k] /\ cfd'[k] = cfd[k]
          /\ bare'[k] = bare[k] /\ redir' = redir
          /\ \A d \in Children : state[d] # "unused" => state'[d] # "unused"
      BY <1>3, <2>2 DEF Fork, TypeOK
    <3> QED
      BY <1>0, <3>1, KidSame
  <2> QED
    BY <2>1, <2>2
<1>4. CASE Open
  BY <1>0, <1>4, KidSame DEF Open, kids
<1>5. CASE Throw
  BY <1>0, <1>5, KidSame DEF Throw
<1>6. CASE Return
  BY <1>0, <1>6, KidSame DEF Return, kids
<1>7. ASSUME NEW o \in Objs, NEW b \in Objs, DefaultConstruct(o) \/ Destroy(o) \/ Swap(o, b) PROVE Kid(k)'
  <2>1. UNCHANGED kids
    BY <1>7 DEF DefaultConstruct, Destroy, Swap
  <2> QED
    BY <1>0, <2>1, KidSame DEF kids
<1>8. ASSUME NEW n \in Closable, CloseStandard(n) PROVE Kid(k)'
  BY <1>0, <1>8, KidSame DEF CloseStandard, kids
<1>9. ASSUME NEW c \in Children, Dup(c) \/ DupThrows(c) \/ Run(c) \/ Finish(c) PROVE Kid(k)'
  <2>1. CASE k = c
    BY <1>0, <1>9, <2>1, KidDup, KidEnds
  <2>2. CASE k # c
    <3>1. /\ state'[k] = state[k] /\ ctab'[k] = ctab[k] /\ ctodo'[k] = ctodo[k] /\ cfd'[k] = cfd[k]
          /\ bare' = bare /\ redir' = redir
          /\ \A d \in Children : state[d] # "unused" => state'[d] # "unused"
      BY <1>9, <2>2 DEF Dup, DupThrows, Run, Finish, TypeOK
    <3> QED
      BY <1>0, <3>1, KidSame
  <2> QED
    BY <2>1, <2>2
<1>10. CASE UNCHANGED vars
  BY <1>0, <1>10, KidSame DEF vars, kids
<1> QED
  BY <1>1, <1>2, <1>3, <1>4, <1>5, <1>6, <1>7, <1>8, <1>9, <1>10 DEF Next

----------------------------------------------------------------------------
(* The streams of an object. *)

StreamsWired ==
  \A o \in Objs, s \in Streams :
    /\ obj[o] = "live" /\ ~moved[o] /\ child[o] # None => (wired[o][s] <=> s \in redir[child[o]])
    /\ obj[o] = "making" => (wired[o][s] <=> s \in Opened)

LEMMA WiredInit == Init => StreamsWired
  BY DEF Init, StreamsWired

(* Nothing about the objects and the constructor changes. *)
LEMMA WiredSame ==
  ASSUME StreamsWired, UNCHANGED <<obj, child, wired, redir, moved>>, at # "idle" => Opened' = Opened,
         ParentSide
  PROVE  StreamsWired'
  BY DEF StreamsWired, ParentSide, Constructing

LEMMA WiredGone ==
  ASSUME TypeOK, ParentSide, StreamsWired, NEW o \in Objs, Gone(o), at # "idle" => o = cur,
         \A c \in Children : state[c] # "unused" => redir'[c] = redir[c]
  PROVE  StreamsWired'
<1> SUFFICES ASSUME NEW p \in Objs, NEW s \in Streams
             PROVE  /\ obj'[p] = "live" /\ ~moved'[p] /\ child'[p] # None => (wired'[p][s] <=> s \in redir'[child'[p]])
                    /\ obj'[p] # "making"
  BY DEF StreamsWired
<1>1. CASE p = o
  BY <1>1 DEF Gone, TypeOK
<1>2. CASE p # o
  <2>1. obj'[p] = obj[p] /\ moved'[p] = moved[p] /\ child'[p] = child[p] /\ wired'[p] = wired[p]
    BY <1>2 DEF Gone, TypeOK
  <2>2. obj[p] # "making"
    BY <1>2 DEF ParentSide, Constructing
  <2>3. child[p] # None => redir'[child[p]] = redir[child[p]]
    BY <1>2 DEF ParentSide, OneParent, TypeOK
  <2> QED
    BY <2>1, <2>2, <2>3 DEF StreamsWired
<1> QED
  BY <1>1, <1>2

LEMMA WiredOpen ==
  ASSUME TypeOK, ParentSide, StreamsWired, Open
  PROVE  StreamsWired'
<1> DEFINE s == Head(todo)
<1>1. /\ at = "open" /\ todo # <<>> /\ wired' = [wired EXCEPT ![cur][s] = TRUE] /\ todo' = Tail(todo)
      /\ UNCHANGED <<obj, child, at, cur, redir, moved>>
  BY DEF Open, kids
<1>2. s \in Streams /\ s \in Left /\ Left' = Left \ {s} /\ Left \subseteq Asked /\ cur \in Objs /\ obj[cur] = "making"
  BY <1>1, NextStream DEF TypeOK, ParentSide, Constructing, Left
<1> HIDE DEF s
<1>3. Opened' = Opened \cup {s}
  BY <1>1, <1>2 DEF Opened, Asked
<1>4. /\ wired'[cur][s] = TRUE
      /\ \A o \in Objs, t \in Streams : o # cur \/ t # s => wired'[o][t] = wired[o][t]
  BY <1>1, <1>2 DEF TypeOK
<1>5. \A o \in Objs : obj[o] = "making" <=> o = cur
  BY <1>2 DEF ParentSide, Constructing
<1> SUFFICES ASSUME NEW o \in Objs, NEW t \in Streams
             PROVE  /\ obj[o] = "live" /\ ~moved[o] /\ child[o] # None => (wired'[o][t] <=> t \in redir[child[o]])
                    /\ obj[o] = "making" => (wired'[o][t] <=> t \in Opened')
  BY <1>1 DEF StreamsWired
<1>6. CASE o # cur
  BY <1>4, <1>5, <1>6 DEF StreamsWired
<1>7. CASE o = cur /\ t # s
  BY <1>2, <1>3, <1>4, <1>7 DEF StreamsWired
<1>8. CASE o = cur /\ t = s
  BY <1>2, <1>3, <1>4, <1>8
<1> QED
  BY <1>6, <1>7, <1>8

LEMMA WiredStep ==
  ASSUME TypeOK, ParentSide, StreamsWired, [Next]_vars
  PROVE  StreamsWired'
<1>1. ASSUME NEW o \in Objs, NEW c \in Children, NEW x \in Redirs, Begin(o, c, x) PROVE StreamsWired'
  <2>1. /\ at = "idle" /\ obj[o] = "none" /\ state[c] = "unused" /\ at' = "pipe"
        /\ obj' = [obj EXCEPT ![o] = "making"] /\ child' = [child EXCEPT ![o] = c]
        /\ redir' = [redir EXCEPT ![c] = x] /\ UNCHANGED <<wired, moved>>
    BY <1>1 DEF Begin
  <2>2. Opened' = {}
    BY <2>1 DEF Opened
  <2>3. \A s \in Streams : ~wired[o][s]
    BY <2>1 DEF TypeOK
  <2>4. \A p \in Objs : child[p] # None => child[p] \in Children /\ redir'[child[p]] = redir[child[p]]
    BY <2>1 DEF ParentSide, OneParent, TypeOK
  <2> QED
    BY <2>1, <2>2, <2>3, <2>4 DEF StreamsWired, ParentSide, Constructing, TypeOK
<1>2. CASE Pipe
  <2>1. at = "pipe" /\ at' = at /\ UNCHANGED <<obj, child, wired, redir, moved>>
    BY <1>2 DEF Pipe, members, kids
  <2> QED
    BY <2>1, WiredSame DEF Opened
<1>3. CASE Fork
  <2>1. at = "pipe" /\ at' = "open" /\ todo' = Redirected(redir[child[cur]])
        /\ UNCHANGED <<obj, child, wired, cur, redir, moved>>
    BY <1>3 DEF Fork, members
  <2>2. Asked \subseteq Streams
    BY <2>1, StreamSets DEF ParentSide
  <2>3. Left' = Asked /\ Asked' = Asked
    BY <2>1, <2>2, RedirectedFacts DEF Left, Asked
  <2> QED
    BY <2>1, <2>3, WiredSame DEF Opened
<1>4. CASE Throw
  <2>1. at # "idle" /\ Gone(cur) /\ redir' = [c \in Children |-> IF state[c] = "unused" THEN {} ELSE redir[c]]
    BY <1>4 DEF Throw
  <2>2. cur \in Objs
    BY <2>1 DEF ParentSide, Constructing
  <2> QED
    BY <2>1, <2>2, WiredGone
<1>5. CASE Return
  <2>1. at = "open" /\ todo = <<>> /\ obj' = [obj EXCEPT ![cur] = "live"]
        /\ UNCHANGED <<child, wired, redir, moved>>
    BY <1>5 DEF Return, members, kids
  <2>2. Opened = redir[child[cur]]
    BY <2>1, NothingToDo DEF Opened, Left, Asked
  <2>3. cur \in Objs /\ \A o \in Objs : obj[o] = "making" <=> o = cur
    BY <2>1 DEF ParentSide, Constructing
  <2> QED
    BY <2>1, <2>2, <2>3 DEF StreamsWired, TypeOK
<1>6. ASSUME NEW o \in Objs, DefaultConstruct(o) PROVE StreamsWired'
  <2>1. /\ at = "idle" /\ obj[o] = "none" /\ obj' = [obj EXCEPT ![o] = "live"]
        /\ UNCHANGED <<child, wired, redir, moved>>
    BY <1>6 DEF DefaultConstruct, members, kids
  <2>2. child[o] = None
    BY <2>1 DEF TypeOK
  <2> QED
    BY <2>1, <2>2 DEF StreamsWired, ParentSide, Constructing, TypeOK
<1>7. ASSUME NEW o \in Objs, Destroy(o) PROVE StreamsWired'
  BY <1>7, WiredGone DEF Destroy, kids
<1>8. ASSUME NEW a \in Objs, NEW b \in Objs, Swap(a, b) PROVE StreamsWired'
  <2>1. /\ at = "idle" /\ child' = Exchanged(child, a, b) /\ moved' = [moved EXCEPT ![a] = TRUE, ![b] = TRUE]
        /\ UNCHANGED <<obj, wired, redir>>
    BY <1>8 DEF Swap, kids
  <2>2. moved'[a] /\ moved'[b] /\ \A o \in Objs : o # a /\ o # b => moved'[o] = moved[o] /\ child'[o] = child[o]
    BY <2>1 DEF Exchanged, TypeOK
  <2> QED
    BY <2>1, <2>2 DEF StreamsWired, ParentSide, Constructing
<1>9. ASSUME NEW n \in Closable, CloseStandard(n) PROVE StreamsWired'
  BY <1>9, WiredSame DEF CloseStandard, members, kids
<1>10. ASSUME NEW c \in Children, Dup(c) \/ DupThrows(c) \/ Run(c) \/ Finish(c) PROVE StreamsWired'
  <2>1. UNCHANGED <<obj, members, thread, redir, moved>>
    BY <1>10 DEF Dup, DupThrows, Run, Finish
  <2> QED
    BY <2>1, WiredSame DEF members, thread, Opened, Asked, Left
<1>11. CASE UNCHANGED vars
  BY <1>11, WiredSame DEF vars, members, thread, kids, Opened, Asked, Left
<1> QED
  BY <1>1, <1>2, <1>3, <1>4, <1>5, <1>6, <1>7, <1>8, <1>9, <1>10, <1>11, WiredOpen DEF Next

----------------------------------------------------------------------------
(* The invariant, and what it says of the properties. *)

Inv == TypeOK /\ ParentSide /\ Kids /\ StreamsWired

LEMMA InitInv == Init => Inv
  BY TypeInit, ParentInit, KidsInit, WiredInit DEF Inv

LEMMA StepInv == Inv /\ [Next]_vars => Inv'
<1> SUFFICES ASSUME Inv, [Next]_vars PROVE Inv'
  OBVIOUS
<1>1. TypeOK /\ ParentSide /\ Kids /\ StreamsWired /\ Distinct(todo)
  BY DEF Inv, ParentSide, Constructing
<1>2. at # "idle" => cur \in Objs /\ child[cur] \in Children /\ obj[cur] = "making"
  BY <1>1 DEF ParentSide, Constructing
<1>3. ASSUME NEW o \in Objs, NEW c \in Children, NEW x \in Redirs, Begin(o, c, x) PROVE TypeOK' /\ ParentSide'
  BY <1>1, <1>3, TypeBegin, ParentBegin
<1>4. ASSUME Pipe PROVE TypeOK' /\ ParentSide'
  <2>1. at = "pipe"
    BY <1>4 DEF Pipe
  <2> QED
    BY <1>1, <1>2, <1>4, <2>1, TypePipe, ParentPipe
<1>5. ASSUME Fork PROVE TypeOK' /\ ParentSide'
  <2>1. at = "pipe"
    BY <1>5 DEF Fork
  <2> QED
    BY <1>1, <1>2, <1>5, <2>1, TypeFork, ParentFork
<1>6. ASSUME Open PROVE TypeOK' /\ ParentSide'
  <2>1. at = "open"
    BY <1>6 DEF Open
  <2> QED
    BY <1>1, <1>2, <1>6, <2>1, TypeOpen, ParentOpen
<1>7. ASSUME Throw PROVE TypeOK' /\ ParentSide'
  <2>1. at # "idle"
    BY <1>7 DEF Throw
  <2> QED
    BY <1>1, <1>2, <1>7, <2>1, TypeThrow, ParentThrow
<1>8. ASSUME Return PROVE TypeOK' /\ ParentSide'
  <2>1. at = "open"
    BY <1>8 DEF Return
  <2> QED
    BY <1>1, <1>2, <1>8, <2>1, TypeReturn, ParentReturn
<1>9. ASSUME NEW o \in Objs, DefaultConstruct(o) \/ Destroy(o) PROVE TypeOK' /\ ParentSide'
  BY <1>1, <1>9, TypeProgram, ParentOthers, TypeDestroy, ParentDestroy
<1>10. ASSUME NEW o \in Objs, NEW b \in Objs, Swap(o, b) PROVE TypeOK' /\ ParentSide'
  BY <1>1, <1>10, TypeSwap, ParentSwap
<1>11. ASSUME NEW n \in Closable, CloseStandard(n) PROVE TypeOK' /\ ParentSide'
  BY <1>1, <1>11, TypeProgram, ParentClose
<1>12. ASSUME NEW c \in Children, Dup(c) \/ DupThrows(c) \/ Run(c) \/ Finish(c) PROVE TypeOK' /\ ParentSide'
  <2>1. Distinct(ctodo[c]) /\ \A s \in Range(ctodo[c]) : cfd[c][s][ChildIdx(s)] \in Fds
    <3>1. Stage(c)
      BY <1>1 DEF Kids, Kid
    <3>2. Unwired(c) \subseteq Streams
      BY <1>1 DEF TypeOK, Unwired, Range
    <3> QED
      BY <3>1, <3>2, StreamFacts DEF Stage, Unwired
  <2> QED
    BY <1>1, <1>12, <2>1, TypeChild, ParentOthers
<1>13. ASSUME UNCHANGED vars PROVE TypeOK' /\ ParentSide'
  BY <1>1, <1>13, TypeProgram, ParentOthers
<1>14. TypeOK' /\ ParentSide'
  BY <1>3, <1>4, <1>5, <1>6, <1>7, <1>8, <1>9, <1>10, <1>11, <1>12, <1>13 DEF Next
<1> QED
  BY <1>1, <1>14, KidsStep, WiredStep DEF Inv

LEMMA Always == Spec => []Inv
  BY InitInv, StepInv, PTL DEF Spec

(* Types; an object that does not exist holds nothing, and there are no    *)
(* locals between two operations. *)
THEOREM TypeCorrect == Spec => []TypeOK
<1>1. Inv => TypeOK
  BY DEF Inv
<1> QED
  BY Always, <1>1, PTL

(* Between two operations the program holds exactly the ends its filebufs  *)
(* own, whatever constructors threw and however objects were swapped.      *)
THEOREM NothingLeaks == Spec => []ParentExact
<1>1. Inv => ParentExact
  <2> SUFFICES ASSUME Inv, at = "idle" PROVE ParentExact
    BY DEF ParentExact
  <2>1. Owns /\ Ledger /\ OneParent /\ TypeOK
    BY DEF Inv, ParentSide
  <2>2. ASSUME NEW n \in Fds, ptab[n] \in Ends
        PROVE  Cardinality({os \in Objs \X Streams : buf[os[1]][os[2]] = n}) = 1
    <3> DEFINE owners == {os \in Objs \X Streams : buf[os[1]][os[2]] = n}
    <3>1. PICK o \in Objs, s \in Streams : buf[o][s] = n
      BY <2>1, <2>2 DEF Ledger, Claimed
    <3>2. ASSUME NEW p \in Objs, NEW t \in Streams, buf[p][t] = n PROVE p = o /\ t = s
      <4>1. /\ child[o] # None /\ ptab[n] = End(child[o], s, ParentIdx(s))
            /\ ptab[n] = End(child[p], t, ParentIdx(t))
        BY <2>1, <3>1, <3>2, FdFacts DEF Owns
      <4>2. End(child[o], s, ParentIdx(s)) = End(child[p], t, ParentIdx(t))
        BY <4>1
      <4>3. child[o] = child[p] /\ s = t
        BY <4>2 DEF End
      <4> QED
        BY <2>1, <4>1, <4>3 DEF OneParent
    <3>3. owners = {<<o, s>>}
      BY <3>1, <3>2
    <3> HIDE DEF owners
    <3>4. Cardinality(owners) = 1
      BY <3>3, FS_Singleton
    <3> QED
      BY <3>4 DEF owners
  <2> QED
    BY <2>1, <2>2 DEF ParentExact, Owns
<1> QED
  BY Always, <1>1, PTL

(* The end a child uses is its own, and the other end is its parent's.     *)
THEOREM EndsArePrivate == Spec => []PrivateSide
<1>1. Inv => PrivateSide
  <2> SUFFICES ASSUME Inv, NEW c \in Children, NEW s \in Streams
      PROVE  LET mine == End(c, s, ChildIdx(s))
                 theirs == End(c, s, ParentIdx(s)) IN
             /\ (\A o \in Objs : child[o] = c => obj[o] # "making") => ~Holds(ptab, mine)
             /\ \A d \in Children \ {c} : ~Holds(ctab[d], mine)
             /\ state[c] = "running" => ~Holds(ctab[c], theirs)
             /\ state[c] = "running" /\ ~bare[c] => Cardinality({n \in Fds : ctab[c][n] = mine}) <= 1
    BY DEF PrivateSide
  <2> DEFINE mine == End(c, s, ChildIdx(s))
             theirs == End(c, s, ParentIdx(s))
  <2>1. ParentSide /\ Kid(c) /\ \A d \in Children : Kid(d)
    BY DEF Inv, Kids
  <2>2. ASSUME \A o \in Objs : child[o] = c => obj[o] # "making", NEW n \in Fds, ptab[n] = mine PROVE FALSE
    <3>1. Claimed(n)
      BY <2>1, <2>2, StreamFacts, EndFacts DEF ParentSide, Ledger
    <3>2. ~\E o \in Objs, t \in Streams : buf[o][t] = n
      BY <2>1, <2>2, StreamFacts, EndFacts, FdFacts DEF ParentSide, Owns
    <3>3. at # "idle" /\ child[cur] = c
      BY <2>1, <2>2, <3>1, <3>2, EndFacts DEF ParentSide, Claimed, PipesMade
    <3> QED
      BY <2>1, <2>2, <3>3 DEF ParentSide, Constructing
  <2>3. ASSUME NEW d \in Children \ {c}, NEW n \in Fds, ctab[d][n] = mine PROVE FALSE
    BY <2>1, <2>3, StreamFacts DEF Kid, Foreign
  <2>4. state[c] = "running" => Unwired(c) = {}
    BY <2>1, NothingToDo DEF Kid, Stage, Unwired
  <2>5. ASSUME state[c] = "running", NEW n \in Fds, ctab[c][n] = theirs PROVE FALSE
    BY <2>1, <2>4, <2>5 DEF Kid, Theirs
  <2>6. ASSUME state[c] = "running", ~bare[c] PROVE Cardinality({n \in Fds : ctab[c][n] = mine}) <= 1
    <3> DEFINE held == {n \in Fds : ctab[c][n] = mine}
    <3>1. \A n \in held : n = FILENO[s]
      BY <2>1, <2>4, <2>6 DEF Kid, Standards
    <3>2. held = {} \/ held = {FILENO[s]}
      BY <3>1
    <3> HIDE DEF held
    <3>3. Cardinality(held) = 0 \/ Cardinality(held) = 1
      BY <3>2, FS_EmptySet, FS_Singleton
    <3>4. Cardinality(held) <= 1
      BY <3>3
    <3> QED
      BY <3>4 DEF held
  <2> QED
    BY <2>2, <2>3, <2>5, <2>6 DEF Holds
<1> QED
  BY Always, <1>1, PTL

(* A child runs with its pipes on its standard descriptors, and the        *)
(* streams of an object that was not moved are those of its child.         *)
THEOREM ChildrenWired == Spec => []ChildWired
<1>1. Inv => ChildWired
  <2> SUFFICES ASSUME Inv PROVE ChildWired
    OBVIOUS
  <2>1. ASSUME NEW c \in Children, state[c] = "running", ~bare[c], NEW s \in Streams
        PROVE  ctab[c][FILENO[s]] = IF s \in redir[c] THEN End(c, s, ChildIdx(s)) ELSE Standard(FILENO[s])
    <3>1. Kid(c)
      BY DEF Inv, Kids
    <3>2. Unwired(c) = {}
      BY <2>1, <3>1, NothingToDo DEF Kid, Stage, Unwired
    <3> QED
      BY <2>1, <3>1, <3>2 DEF Kid, Standards
  <2> QED
    BY <2>1 DEF Inv, StreamsWired, ChildWired
<1> QED
  BY Always, <1>1, PTL

=============================================================================
