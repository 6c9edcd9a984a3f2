-------------------------- MODULE FunctionsProofs --------------------------
(***************************************************************************)
(* Proofs about the functions of Values, for every input and every bound:  *)
(* the overloads of tern, the exit code of a command, the inputs of a      *)
(* module, optional, the search of a directory and its modification,       *)
(* lines, sockets, polls and streams, the parsing of options, and the      *)
(* tags of XML.                                                            *)
(***************************************************************************)
EXTENDS Values, FiniteSetTheorems, SequenceTheorems, WellFoundedInduction, TLAPS

----------------------------------------------------------------------------
(* Tern: the overloads agree with each other and with Kleene's logic.      *)

(* All overloads of && and ||, for two terns, a tern and a bool, and a     *)
(* tern and the constant, are minimum and maximum of the values; and !     *)
(* exchanges one for the other.                                            *)
THEOREM OverloadsAgree ==
  ASSUME NEW x \in Operands, NEW y \in Operands, "tern" \in {x.type, y.type}
  PROVE  /\ And(x, y) = tern(Least(x.value, y.value))
         /\ Or(x, y) = tern(Greatest(x.value, y.value))
         /\ Not(And(x, y)) = Or(Not(x), Not(y))
         /\ Not(Or(x, y)) = And(Not(x), Not(y))
<1> USE DEF tern, false_value, true_value, uncertain_value
<1>1. /\ x = [type |-> x.type, value |-> x.value] /\ y = [type |-> y.type, value |-> y.value]
      /\ {x.type, y.type} \subseteq {"tern", "bool", "uncertain_t"}
      /\ {x.value, y.value} \subseteq {"false", "true", "uncertain"}
      /\ x.type = "bool" => x.value # "uncertain"
      /\ y.type = "bool" => y.value # "uncertain"
      /\ x.type = "uncertain_t" => x.value = "uncertain"
      /\ y.type = "uncertain_t" => y.value = "uncertain"
  BY DEF Operands, Values
<1>2. And(x, y) = tern(Least(x.value, y.value))
  BY <1>1 DEF And, Least, Rank
<1>3. Or(x, y) = tern(Greatest(x.value, y.value))
  BY <1>1 DEF Or, Greatest, Rank
<1>4. Not(And(x, y)) = Or(Not(x), Not(y))
  BY <1>1, <1>2 DEF Or, Not, Least, Rank
<1>5. Not(Or(x, y)) = And(Not(x), Not(y))
  BY <1>1, <1>3 DEF And, Not, Greatest, Rank
<1> QED
  BY <1>2, <1>3, <1>4, <1>5

----------------------------------------------------------------------------
(* ExitStatus: what execute says of a command.                             *)

(* execute() returns the exit status or the signal of the command, with or *)
(* without a core dump, and throws if there was no child; a shell that     *)
(* could not be started it takes for a command that exits with 127.        *)
THEOREM StatusDecoded ==
  ASSUME NEW e \in Endings
  PROVE  /\ e.kind = "exit" => execute(system(e)) = [kind |-> "exit", n |-> e.n]
         /\ e.kind \in {"signal", "core"} => execute(system(e)) = [kind |-> "term", n |-> e.n]
         /\ e.kind = "no_child" => execute(system(e)) = Throws
         /\ e.kind = "no_shell" => execute(system(e)) = [kind |-> "exit", n |-> 127]
<1>1. CASE e.kind = "exit"
  <2>1. e.n \in 0 .. 255 /\ system(e) = e.n * 256
    BY <1>1 DEF Endings, system
  <2>2. system(e) \in Nat \ {127} /\ system(e) % 128 = 0 /\ (system(e) \div 256) % 256 = e.n
    BY <2>1
  <2>3. execute(system(e)) = [kind |-> "exit", n |-> e.n]
    BY <2>2 DEF execute, WIFEXITED, WEXITSTATUS
  <2> QED
    BY <1>1, <2>3
<1>2. CASE e.kind \in {"signal", "core"}
  <2>1. e.n \in 1 .. 64 /\ system(e) \in {e.n, e.n + 128}
    BY <1>2 DEF Endings, system
  <2>2. system(e) \in Nat \ {127} /\ system(e) % 128 = e.n /\ e.n \notin {0, 127}
    BY <2>1
  <2>3. execute(system(e)) = [kind |-> "term", n |-> e.n]
    BY <2>2 DEF execute, WIFEXITED, WIFSIGNALED, WTERMSIG
  <2> QED
    BY <1>2, <2>3
<1>3. CASE e.kind = "no_child"
  BY <1>3 DEF execute, system
<1>4. CASE e.kind = "no_shell"
  <2>1. system(e) = 127 * 256
    BY <1>4 DEF system
  <2>2. system(e) \notin {-1, 127} /\ system(e) % 128 = 0 /\ (system(e) \div 256) % 256 = 127
    BY <2>1
  <2>3. execute(system(e)) = [kind |-> "exit", n |-> 127]
    BY <2>2 DEF execute, WIFEXITED, WEXITSTATUS
  <2> QED
    BY <1>4, <2>3
<1>5. e.kind \in {"exit", "signal", "core", "no_child", "no_shell"}
  BY DEF Endings
<1> QED
  BY <1>1, <1>2, <1>3, <1>4, <1>5

----------------------------------------------------------------------------
(* HeiInput: inputs are told apart, however wide an unsigned is.           *)

LEMMA Division ==
  ASSUME NEW n \in Nat
  PROVE  /\ n \div 8 \in Nat /\ n % 8 \in 0 .. 7
         /\ 8 * (n \div 8) + (n % 8) = n
OBVIOUS

LEMMA Fits ==
  ASSUME NEW n \in 0 .. MaxUnsigned
  PROVE  Unsigned(n) = n
BY MaxUnsignedAssumption DEF Unsigned

(* read_input of a module that packs its inputs into bytes from offset on: *)
(* an input that the module has reads as on exactly if it is on.  None is  *)
(* taken for a neighbour, in its own byte or another, and no address wraps *)
(* round as long as the memory itself does not.                            *)
THEOREM InputsKeptApart ==
  ASSUME NEW offset \in Nat, NEW size \in Nat, NEW on,
         offset + size <= MaxUnsigned + 1,
         NEW input \in 1 .. MaxUnsigned, input <= 8 * size
  PROVE  read_input(Packed(on, offset, size), offset, input) <=> input \in on
<1> DEFINE n == input - 1
           a == offset + n \div 8
<1>1. n \in 0 .. MaxUnsigned /\ Unsigned(n) = n
  BY Fits, MaxUnsignedAssumption
<1>2. n \div 8 \in Nat /\ n % 8 \in 0 .. 7 /\ 8 * (n \div 8) + (n % 8) = n
  BY <1>1, Division
<1>3. a \in offset .. offset + size - 1
  BY <1>2
<1>4. Unsigned(a) = a
  BY <1>3, Fits, MaxUnsignedAssumption
<1>5. Packed(on, offset, size)[a] = {b \in 0 .. 7 : 8 * (a - offset) + b + 1 \in on}
  BY <1>3 DEF Packed
<1>6. 8 * (a - offset) + (n % 8) + 1 = input
  BY <1>2, <1>3
<1>7. n % 8 \in Packed(on, offset, size)[a] <=> input \in on
  BY <1>2, <1>5, <1>6
<1> QED
  BY <1>1, <1>4, <1>7 DEF read_input
----------------------------------------------------------------------------
(* Folds over sequences, by induction on their length.                     *)

(* Induction: < is well-founded on Nat. *)
LEMMA Induction ==
  ASSUME NEW T, 0 \in T, \A n \in Nat : n \in T => n + 1 \in T
  PROVE  Nat \subseteq T
<1> DEFINE B == Nat \ T
<1> SUFFICES ASSUME B # {} PROVE FALSE
  OBVIOUS
<1>1. PICK m \in B : \A y \in B : <<y, m>> \notin OpToRel(<, Nat)
  <2> HIDE DEF B
  <2>1. B \subseteq Nat
    BY DEF B
  <2> QED
    BY Zenon, <2>1, NatLessThanWellFounded, WFMin
<1>2. \A y \in B : ~(y < m)
  BY <1>1 DEF OpToRel
<1>3. m - 1 \in Nat /\ m - 1 \notin B
  BY <1>2
<1> QED
  BY <1>3

(* The largest of some indices. *)
LEMMA Largest ==
  ASSUME NEW n \in Nat, NEW s \in SUBSET (1 .. n), s # {}
  PROVE  Max(s) \in s /\ \A y \in s : y <= Max(s)
<1> DEFINE T == {k \in Nat : \A z \in SUBSET (1 .. k) : z # {} => \E x \in z : \A y \in z : y <= x}
<1>1. 0 \in T
  <2>1. 1 .. 0 = {}
    OBVIOUS
  <2> QED
    BY <2>1
<1>2. ASSUME NEW k \in Nat, k \in T PROVE k + 1 \in T
  <2> SUFFICES ASSUME NEW z \in SUBSET (1 .. k + 1), z # {} PROVE \E x \in z : \A y \in z : y <= x
    OBVIOUS
  <2>1. CASE k + 1 \in z
    BY <2>1
  <2>2. CASE k + 1 \notin z
    <3>1. z \in SUBSET (1 .. k)
      BY <2>2
    <3> QED
      BY <1>2, <3>1
  <2> QED
    BY <2>1, <2>2
<1>3. n \in T
  <2> HIDE DEF T
  <2> QED
    BY <1>1, <1>2, Induction
<1>4. PICK x \in s : \A y \in s : y <= x
  BY <1>3
<1>5. \A y \in s : x >= y
  BY <1>4
<1>6. Max(s) \in s /\ \A y \in s : Max(s) >= y
  BY <1>5 DEF Max
<1> QED
  BY <1>6

(* The first indices. *)
LEMMA UpTo ==
  ASSUME NEW k \in Nat \ {0}
  PROVE  Max(1 .. k) = k /\ (1 .. k) \ {k} = 1 .. k - 1
<1>1. 1 .. k \in SUBSET (1 .. k) /\ 1 .. k # {} /\ k \in 1 .. k /\ k \in Nat
  OBVIOUS
<1>2. Max(1 .. k) \in 1 .. k /\ k <= Max(1 .. k)
  BY <1>1, Largest
<1> QED
  BY <1>2

(* The functions a fold defines by recursion over sets of indices: base,   *)
(* and from there one step f for each element of q.  There is one if a     *)
(* step leads from a state to a state.                                     *)
Foldings(T, base, f, q) ==
  {g \in [SUBSET (1 .. Len(q)) -> T] :
     \A s \in SUBSET (1 .. Len(q)) :
       g[s] = IF s = {} THEN base ELSE f[<<g[s \ {Max(s)}], q[Max(s)]>>]}

LEMMA FoldExists ==
  ASSUME NEW T, NEW D, NEW base \in T, NEW f \in [T \X D -> T], NEW q \in Seq(D)
  PROVE  Foldings(T, base, f, q) # {}
<1> DEFINE Fs(k) == {g \in [SUBSET (1 .. k) -> T] :
                      \A s \in SUBSET (1 .. k) :
                        g[s] = IF s = {} THEN base ELSE f[<<g[s \ {Max(s)}], q[Max(s)]>>]}
           K == {k \in Nat : k <= Len(q) => Fs(k) # {}}
<1>1. Len(q) \in Nat
  BY LenProperties
<1>2. 0 \in K
  <2> DEFINE g == [s \in SUBSET (1 .. 0) |-> base]
  <2>1. 1 .. 0 = {}
    OBVIOUS
  <2>2. g \in Fs(0)
    BY <2>1
  <2> QED
    BY <2>2
<1>3. ASSUME NEW k \in Nat, k \in K PROVE k + 1 \in K
  <2> SUFFICES ASSUME k + 1 <= Len(q) PROVE Fs(k + 1) # {}
    <3> HIDE DEF Fs
    <3> QED
      OBVIOUS
  <2>1. PICK g : g \in Fs(k)
    <3> HIDE DEF Fs
    <3>1. k <= Len(q)
      BY <1>1
    <3> QED
      BY <1>3, <3>1
  <2> DEFINE h == [s \in SUBSET (1 .. k + 1) |->
                     IF k + 1 \in s THEN f[<<g[s \ {k + 1}], q[k + 1]>>] ELSE g[s]]
  <2>2. q[k + 1] \in D
    BY ElementOfSeq
  <2>3. ASSUME NEW s \in SUBSET (1 .. k + 1), k + 1 \in s
        PROVE  /\ s \ {k + 1} \in SUBSET (1 .. k) /\ Max(s) = k + 1
               /\ h[s] \in T /\ h[s] = f[<<h[s \ {k + 1}], q[k + 1]>>]
    <3>1. s \ {k + 1} \in SUBSET (1 .. k) /\ s \ {k + 1} \in SUBSET (1 .. k + 1)
      OBVIOUS
    <3>2. Max(s) = k + 1
      <4>1. k + 1 \in Nat /\ s # {}
        BY <2>3
      <4>2. Max(s) \in s /\ k + 1 <= Max(s)
        BY <2>3, <4>1, Largest
      <4>3. Max(s) \in 1 .. k + 1
        BY <4>2
      <4> QED
        BY <4>2, <4>3
    <3>3. h[s \ {k + 1}] = g[s \ {k + 1}] /\ g[s \ {k + 1}] \in T
      BY <2>1, <3>1
    <3>4. h[s] = f[<<g[s \ {k + 1}], q[k + 1]>>]
      BY <2>3
    <3> QED
      BY <2>2, <3>1, <3>2, <3>3, <3>4
  <2>4. ASSUME NEW s \in SUBSET (1 .. k + 1), k + 1 \notin s
        PROVE  h[s] \in T /\ h[s] = IF s = {} THEN base ELSE f[<<h[s \ {Max(s)}], q[Max(s)]>>]
    <3>0. \A y \in s : y \in 1 .. k
      BY <2>4
    <3>1. s \in SUBSET (1 .. k) /\ s \ {Max(s)} \in SUBSET (1 .. k)
      BY <3>0
    <3>2. h[s] = g[s] /\ h[s \ {Max(s)}] = g[s \ {Max(s)}]
      BY <3>1
    <3> QED
      BY <2>1, <3>1, <3>2
  <2>5. h \in [SUBSET (1 .. k + 1) -> T]
    <3>1. \A s \in SUBSET (1 .. k + 1) : h[s] \in T
      BY <2>3, <2>4
    <3> QED
      BY <3>1
  <2>6. \A s \in SUBSET (1 .. k + 1) :
          h[s] = IF s = {} THEN base ELSE f[<<h[s \ {Max(s)}], q[Max(s)]>>]
    <3> SUFFICES ASSUME NEW s \in SUBSET (1 .. k + 1)
                 PROVE  h[s] = IF s = {} THEN base ELSE f[<<h[s \ {Max(s)}], q[Max(s)]>>]
      OBVIOUS
    <3> HIDE DEF h
    <3>1. CASE k + 1 \in s
      BY <2>3, <3>1
    <3>2. CASE k + 1 \notin s
      BY <2>4, <3>2
    <3> QED
      BY <3>1, <3>2
  <2> QED
    BY <2>5, <2>6
<1>4. Len(q) \in K
  <2> HIDE DEF K
  <2> QED
    BY <1>2, <1>3, <1>1, Induction
<1>5. Fs(Len(q)) # {}
  <2> HIDE DEF Fs
  <2> QED
    BY <1>4, <1>1
<1> QED
  BY <1>5 DEF Foldings

(* What the recursion of a fold defines: a value for every set of indices. *)
Folding(T, D, base, f, q) ==
  {g \in [SUBSET (DOMAIN q) -> T] :
     /\ g[{}] = base
     /\ \A s \in SUBSET (DOMAIN q) : s # {} =>
          /\ g[s \ {Max(s)}] \in T /\ q[Max(s)] \in D
          /\ g[s] = f[<<g[s \ {Max(s)}], q[Max(s)]>>]}

(* What is defined by such a recursion as far as f goes.                    *)
Recursive(T, base, f, q, iter) ==
  /\ iter[{}] = base
  /\ \A s \in SUBSET (DOMAIN q) :
       s # {} /\ iter[s \ {Max(s)}] \in T => iter[s] = f[<<iter[s \ {Max(s)}], q[Max(s)]>>]

(* Its steps, from the front of the sequence to its end.                   *)
Stepping(T, D, base, f, q, iter) ==
  {h \in [0 .. Len(q) -> T] :
     /\ h[0] = base /\ h[Len(q)] = iter[DOMAIN q]
     /\ \A k \in 1 .. Len(q) : q[k] \in D /\ h[k - 1] \in T /\ h[k] = f[<<h[k - 1], q[k]>>]}

LEMMA Folds ==
  ASSUME NEW T, NEW D, NEW base \in T, NEW f \in [T \X D -> T], NEW q \in Seq(D)
  PROVE  Folding(T, D, base, f, q) # {}
<1>1. PICK g : g \in Foldings(T, base, f, q)
  BY FoldExists
<1>2. DOMAIN q = 1 .. Len(q) /\ Len(q) \in Nat
  BY LenProperties
<1>3. /\ g \in [SUBSET (DOMAIN q) -> T]
      /\ \A s \in SUBSET (DOMAIN q) :
           g[s] = IF s = {} THEN base ELSE f[<<g[s \ {Max(s)}], q[Max(s)]>>]
  BY <1>1, <1>2 DEF Foldings
<1>4. ASSUME NEW s \in SUBSET (DOMAIN q), s # {}
      PROVE  g[s \ {Max(s)}] \in T /\ q[Max(s)] \in D
  <2>1. Max(s) \in 1 .. Len(q) /\ s \ {Max(s)} \in SUBSET (DOMAIN q)
    BY <1>2, <1>4, Largest
  <2> QED
    BY <1>3, <2>1, ElementOfSeq
<1> QED
  BY <1>3, <1>4 DEF Folding

LEMMA FoldSteps ==
  ASSUME NEW T, NEW D, NEW base \in T, NEW f \in [T \X D -> T], NEW q \in Seq(D), NEW iter,
         Recursive(T, base, f, q, iter)
  PROVE  Stepping(T, D, base, f, q, iter) # {}
<1> DEFINE n == Len(q)
           h == [k \in 0 .. n |-> iter[1 .. k]]
           K == {k \in Nat : k <= n => iter[1 .. k] \in T}
<1>1. n \in Nat /\ DOMAIN q = 1 .. n
  BY LenProperties
<1>2. iter[1 .. 0] = base
  <2>1. 1 .. 0 = {}
    OBVIOUS
  <2> QED
    BY <2>1 DEF Recursive
<1>3. ASSUME NEW k \in 1 .. n, iter[1 .. k - 1] \in T
      PROVE  q[k] \in D /\ iter[1 .. k] = f[<<iter[1 .. k - 1], q[k]>>] /\ iter[1 .. k] \in T
  <2>1. 1 .. k \in SUBSET (DOMAIN q) /\ k \in 1 .. k
    BY <1>1
  <2>2. Max(1 .. k) = k /\ (1 .. k) \ {k} = 1 .. k - 1
    BY <1>1, UpTo
  <2>3. q[k] \in D
    BY <1>1, ElementOfSeq
  <2>4. iter[1 .. k] = f[<<iter[1 .. k - 1], q[k]>>]
    BY <1>3, <2>1, <2>2 DEF Recursive
  <2> QED
    BY <1>3, <2>3, <2>4
<1>4. Nat \subseteq K
  <2>1. 0 \in K
    BY <1>2
  <2>2. ASSUME NEW k \in Nat, k \in K PROVE k + 1 \in K
    <3> SUFFICES ASSUME k + 1 <= n PROVE iter[1 .. k + 1] \in T
      OBVIOUS
    <3>1. (k + 1) - 1 = k /\ k + 1 \in 1 .. n /\ k <= n
      BY <1>1
    <3>2. iter[1 .. k] \in T
      BY <2>2, <3>1
    <3> HIDE DEF n, h
    <3> QED
      BY <1>3, <3>1, <3>2
  <2> HIDE DEF K
  <2> QED
    BY <2>1, <2>2, Induction
<1>5. \A k \in 0 .. n : iter[1 .. k] \in T /\ h[k] = iter[1 .. k]
  BY <1>1, <1>4
<1>6. h \in [0 .. n -> T]
  BY <1>5
<1>7. \A k \in 1 .. n : q[k] \in D /\ h[k - 1] \in T /\ h[k] = f[<<h[k - 1], q[k]>>]
  <2> SUFFICES ASSUME NEW k \in 1 .. n
               PROVE  q[k] \in D /\ h[k - 1] \in T /\ h[k] = f[<<h[k - 1], q[k]>>]
    OBVIOUS
  <2>1. k - 1 \in 0 .. n /\ k \in 0 .. n
    BY <1>1
  <2> HIDE DEF h
  <2> QED
    BY <1>3, <1>5, <2>1
<1>8. h[0] = base /\ h[n] = iter[DOMAIN q]
  <2>1. 0 \in 0 .. n /\ n \in 0 .. n
    BY <1>1
  <2> HIDE DEF h
  <2> QED
    BY <1>1, <1>2, <1>5, <2>1
<1> HIDE DEF h
<1> QED
  BY <1>6, <1>7, <1>8 DEF Stepping

----------------------------------------------------------------------------
(* Sequences: put together, taken apart.                                  *)

(* Putting sequences together, one after the other. *)
LEMMA Flattened ==
  ASSUME NEW S, NEW seqs \in Seq(Seq(S))
  PROVE  \E h \in [0 .. Len(seqs) -> Seq(S)] :
           /\ h[0] = <<>>
           /\ \A k \in 1 .. Len(seqs) : h[k] = h[k - 1] \o seqs[k]
           /\ FlattenSeq(seqs) = h[Len(seqs)]
<1> DEFINE n == Len(seqs)
           T == Seq(S)
           base == <<>>
           f == [z \in T \X T |-> z[1] \o z[2]]
           Body(w) == [i \in 1 .. n |-> IF i = 1 THEN seqs[i] ELSE w[i - 1] \o seqs[i]]
           flatten == CHOOSE w : w = Body(w)
<1>1. n \in Nat /\ DOMAIN seqs = 1 .. n
  BY LenProperties
<1>2. base \in T
  OBVIOUS
<1>2a. \A a, b \in T : a \o b \in T
  BY ConcatProperties
<1> HIDE DEF base, T
<1>2b. f \in [T \X T -> T]
  BY <1>2a
<1>2c. \A a, b \in T : f[<<a, b>>] = a \o b
  OBVIOUS
<1>2d. seqs \in Seq(T)
  BY DEF T
<1>3. \E h \in [0 .. n -> T] :
        h[0] = base /\ \A k \in 1 .. n : seqs[k] \in T /\ h[k - 1] \in T /\ h[k] = f[<<h[k - 1], seqs[k]>>]
  <2> HIDE DEF T, f, n
  <2>1. PICK g : g \in Folding(T, T, base, f, seqs)
    BY <1>2, <1>2b, <1>2d, Folds
  <2>2. Recursive(T, base, f, seqs, g)
    BY <2>1 DEF Folding, Recursive
  <2>3. PICK h : h \in Stepping(T, T, base, f, seqs, g)
    BY <1>2, <1>2b, <1>2d, <2>2, FoldSteps
  <2> QED
    BY <2>3 DEF n, Stepping
<1>4. PICK h \in [0 .. n -> T] :
         h[0] = base /\ \A k \in 1 .. n : seqs[k] \in T /\ h[k - 1] \in T /\ h[k] = h[k - 1] \o seqs[k]
  <2> HIDE DEF T, f, n
  <2>1. PICK h \in [0 .. n -> T] :
          h[0] = base /\ \A k \in 1 .. n : seqs[k] \in T /\ h[k - 1] \in T /\ h[k] = f[<<h[k - 1], seqs[k]>>]
    BY <1>3
  <2>2. \A k \in 1 .. n : h[k] = h[k - 1] \o seqs[k]
    BY <1>2c, <2>1
  <2> QED
    BY <2>1, <2>2
<1> DEFINE w == [i \in 1 .. n |-> h[i]]
<1>5. w = Body(w)
  <2>1. ASSUME NEW i \in 1 .. n PROVE h[i] = IF i = 1 THEN seqs[i] ELSE w[i - 1] \o seqs[i]
    <3>0. h[i] = h[i - 1] \o seqs[i] /\ seqs[i] \in Seq(S)
      BY <1>4 DEF T
    <3>1. i = 1 => h[i] = seqs[i]
      <4> SUFFICES ASSUME i = 1 PROVE h[i] = seqs[i]
        OBVIOUS
      <4>1. h[i - 1] = <<>>
        BY <1>4 DEF base
      <4> QED
        BY <3>0, <4>1, ConcatEmptySeq
    <3>2. i # 1 => i - 1 \in 1 .. n
      BY <1>1
    <3> QED
      BY <1>4, <3>1, <3>2
  <2> QED
    BY <2>1
<1> HIDE DEF w
<1>6. flatten = Body(flatten)
  BY ZenonT(40), <1>5
<1>6a. \A i \in 1 .. n : flatten[i] = IF i = 1 THEN seqs[i] ELSE flatten[i - 1] \o seqs[i]
  BY Zenon, <1>6
<1> HIDE DEF flatten
<1> DEFINE K == {k \in Nat : k \in 1 .. n => flatten[k] = h[k]}
<1>7. n \in K
  <2>1. 0 \in K
    OBVIOUS
  <2>2. ASSUME NEW k \in Nat, k \in K PROVE k + 1 \in K
    <3> SUFFICES ASSUME k + 1 \in 1 .. n PROVE flatten[k + 1] = h[k + 1]
      OBVIOUS
    <3>1. (k + 1) - 1 = k /\ (k # 0 => k \in 1 .. n)
      BY <1>1
    <3>2. flatten[k + 1] = IF k + 1 = 1 THEN seqs[k + 1] ELSE flatten[(k + 1) - 1] \o seqs[k + 1]
      BY <1>6a
    <3>3. h[k + 1] = h[k] \o seqs[k + 1] /\ seqs[k + 1] \in Seq(S)
      BY <1>4, <3>1 DEF T
    <3>4. CASE k = 0
      <4>1. flatten[k + 1] = seqs[k + 1] /\ h[k] = <<>>
        BY <1>4, <3>2, <3>4 DEF base
      <4> QED
        BY <3>3, <4>1, ConcatEmptySeq
    <3>5. CASE k # 0
      <4>1. flatten[k + 1] = flatten[k] \o seqs[k + 1] /\ flatten[k] = h[k]
        <5>1. k + 1 # 1 /\ (k + 1) - 1 = k /\ k \in 1 .. n
          BY <3>1, <3>5
        <5> QED
          BY <2>2, <3>2, <5>1
      <4> QED
        BY <3>3, <4>1
    <3> QED
      BY <3>4, <3>5
  <2> HIDE DEF K
  <2> QED
    BY <1>1, <2>1, <2>2, Induction
<1>8. FlattenSeq(seqs) = h[n]
  <2>1. CASE n = 0
    <3>1. seqs = <<>> /\ FlattenSeq(seqs) = seqs
      BY <2>1, EmptySeq DEF FlattenSeq
    <3> QED
      BY <1>4, <2>1, <3>1 DEF base
  <2>2. CASE n # 0
    <3>1. FlattenSeq(seqs) = flatten[n]
      BY <2>2 DEF FlattenSeq, flatten
    <3> QED
      BY <1>1, <1>7, <2>2, <3>1
  <2> QED
    BY <2>1, <2>2
<1> QED
  BY <1>4, <1>8 DEF T, base

(* One more of them goes behind the others. *)
LEMMA FlattenAppend ==
  ASSUME NEW S, NEW seqs \in Seq(Seq(S)), NEW x \in Seq(S)
  PROVE  /\ FlattenSeq(<<>>) = <<>> /\ FlattenSeq(seqs) \in Seq(S)
         /\ FlattenSeq(Append(seqs, x)) = FlattenSeq(seqs) \o x
<1> DEFINE n == Len(seqs)
           more == Append(seqs, x)
           m == n + 1
<1>1. n \in Nat /\ more \in Seq(Seq(S)) /\ Len(more) = n + 1 /\ more[n + 1] = x
      /\ \A k \in 1 .. n : more[k] = seqs[k]
  BY LenProperties, AppendProperties
<1> HIDE DEF more
<1>2. PICK h \in [0 .. n -> Seq(S)] :
           /\ h[0] = <<>>
           /\ \A k \in 1 .. n : h[k] = h[k - 1] \o seqs[k]
           /\ FlattenSeq(seqs) = h[n]
  BY Flattened
<1>3. PICK w \in [0 .. Len(more) -> Seq(S)] :
           /\ w[0] = <<>>
           /\ \A k \in 1 .. Len(more) : w[k] = w[k - 1] \o more[k]
           /\ FlattenSeq(more) = w[Len(more)]
  BY <1>1, Flattened
<1> DEFINE K == {k \in Nat : k <= n => h[k] = w[k]}
<1>4. n \in K
  <2>1. 0 \in K
    BY <1>2, <1>3
  <2>2. ASSUME NEW k \in Nat, k \in K PROVE k + 1 \in K
    <3> SUFFICES ASSUME k + 1 <= n PROVE h[k + 1] = w[k + 1]
      OBVIOUS
    <3>1. (k + 1) - 1 = k /\ k + 1 \in 1 .. n /\ k + 1 \in 1 .. n + 1 /\ k <= n
      BY <1>1
    <3>2. h[k + 1] = h[k] \o seqs[k + 1]
      BY <1>2, <3>1
    <3>3. w[k + 1] = w[k] \o more[k + 1]
      BY <1>1, <1>3, <3>1
    <3> QED
      BY <1>1, <2>2, <3>1, <3>2, <3>3
  <2> HIDE DEF K
  <2> QED
    BY <1>1, <2>1, <2>2, Induction
<1>5. FlattenSeq(more) = FlattenSeq(seqs) \o x
  <2>1. w[n + 1] = w[n] \o more[n + 1]
    <3>1. n + 1 \in 1 .. Len(more) /\ (n + 1) - 1 = n
      BY <1>1
    <3>2. w[n + 1] = w[(n + 1) - 1] \o more[n + 1]
      BY <1>3, <3>1
    <3> QED
      BY <3>1, <3>2
  <2>2. w[n] = h[n]
    BY <1>1, <1>4
  <2> QED
    BY <1>1, <1>2, <1>3, <2>1, <2>2
<1>6. FlattenSeq(<<>>) = <<>>
  BY DEF FlattenSeq
<1>7. FlattenSeq(seqs) \in Seq(S)
  <2>1. n \in 0 .. n
    BY <1>1
  <2> HIDE DEF n
  <2> QED
    BY <1>2, <2>1
<1> QED
  BY <1>5, <1>6, <1>7 DEF more

(* The least of some numbers. *)
LEMMA Smallest ==
  ASSUME NEW s \in SUBSET Nat, s # {}
  PROVE  \E x \in s : \A y \in s : x <= y
<1>1. PICK x \in s : \A y \in s : <<y, x>> \notin OpToRel(<, Nat)
  BY Zenon, NatLessThanWellFounded, WFMin
<1>2. \A y \in s : ~(y < x)
  BY <1>1 DEF OpToRel
<1> QED
  BY <1>2

(* A part of a sequence. *)
LEMMA Part ==
  ASSUME NEW S, NEW q \in Seq(S), NEW m \in 1 .. Len(q) + 1, NEW n \in 0 .. Len(q)
  PROVE  /\ SubSeq(q, m, n) \in Seq(S)
         /\ Len(SubSeq(q, m, n)) = IF m <= n THEN n - m + 1 ELSE 0
         /\ \A i \in 1 .. n - m + 1 : SubSeq(q, m, n)[i] = q[m + i - 1]
<1>1. Len(q) \in Nat
  BY LenProperties
<1>2. m \in Int /\ n \in Int /\ \A i \in m .. n : i \in 1 .. Len(q)
  BY <1>1
<1>3. \A i \in m .. n : q[i] \in S
  BY <1>2, ElementOfSeq
<1> QED
  BY <1>2, <1>3, SubSeqProperties

(* A sequence is what is in front of an element, the element and the rest. *)
LEMMA Cut ==
  ASSUME NEW S, NEW q \in Seq(S), NEW k \in 1 .. Len(q)
  PROVE  /\ SubSeq(q, 1, k - 1) \in Seq(S) /\ Len(SubSeq(q, 1, k - 1)) = k - 1
         /\ SubSeq(q, k + 1, Len(q)) \in Seq(S) /\ Len(SubSeq(q, k + 1, Len(q))) = Len(q) - k
         /\ q = Append(SubSeq(q, 1, k - 1), q[k]) \o SubSeq(q, k + 1, Len(q))
<1> DEFINE n == Len(q)
           front == SubSeq(q, 1, k - 1)
           rest == SubSeq(q, k + 1, n)
<1>1. n \in Nat /\ k \in 1 .. n /\ q[k] \in S
  BY LenProperties, ElementOfSeq
<1> HIDE DEF n
<1>2. 1 \in 1 .. n + 1 /\ k - 1 \in 0 .. n /\ k + 1 \in 1 .. n + 1 /\ n \in 0 .. n
  BY <1>1
<1>3. front \in Seq(S) /\ Len(front) = (IF 1 <= k - 1 THEN (k - 1) - 1 + 1 ELSE 0)
      /\ \A i \in 1 .. (k - 1) - 1 + 1 : front[i] = q[1 + i - 1]
  BY <1>2, Part DEF n
<1>4. rest \in Seq(S) /\ Len(rest) = (IF k + 1 <= n THEN n - (k + 1) + 1 ELSE 0)
      /\ \A i \in 1 .. n - (k + 1) + 1 : rest[i] = q[(k + 1) + i - 1]
  BY <1>2, Part DEF n
<1> HIDE DEF front, rest
<1>5. /\ Len(front) = k - 1 /\ Len(rest) = n - k
      /\ \A i \in 1 .. k - 1 : front[i] = q[i]
      /\ \A i \in 1 .. n - k : rest[i] = q[k + i]
  <2>1. Len(front) = k - 1 /\ Len(rest) = n - k
    BY <1>1, <1>3, <1>4
  <2>2. ASSUME NEW i \in 1 .. k - 1 PROVE front[i] = q[i]
    <3>1. i \in 1 .. (k - 1) - 1 + 1 /\ 1 + i - 1 = i
      BY <1>1
    <3> QED
      BY <1>3, <3>1
  <2>3. ASSUME NEW i \in 1 .. n - k PROVE rest[i] = q[k + i]
    <3>1. i \in 1 .. n - (k + 1) + 1 /\ (k + 1) + i - 1 = k + i
      BY <1>1
    <3> QED
      BY <1>4, <3>1
  <2> QED
    BY <2>1, <2>2, <2>3
<1> DEFINE line == Append(front, q[k])
<1>6. line \in Seq(S) /\ Len(line) = k /\ line[k] = q[k] /\ \A i \in 1 .. k - 1 : line[i] = q[i]
  BY <1>1, <1>3, <1>5, AppendProperties
<1> HIDE DEF line
<1> DEFINE whole == line \o rest
<1>7. whole \in Seq(S) /\ Len(whole) = Len(line) + Len(rest)
      /\ \A i \in 1 .. Len(line) + Len(rest) :
            whole[i] = IF i <= Len(line) THEN line[i] ELSE rest[i - Len(line)]
  BY <1>4, <1>6, ConcatProperties
<1> HIDE DEF whole
<1>8. ASSUME NEW i \in 1 .. n PROVE whole[i] = q[i]
  <2>1. CASE i < k
    <3>1. i \in 1 .. k - 1 /\ i \in 1 .. Len(line) + Len(rest) /\ i <= Len(line)
      BY <1>1, <1>5, <1>6, <2>1
    <3>2. whole[i] = line[i]
      BY <1>7, <3>1
    <3>3. line[i] = q[i]
      BY <1>6, <3>1
    <3> QED
      BY <3>2, <3>3
  <2>2. CASE i = k
    BY <1>1, <1>5, <1>6, <1>7, <2>2
  <2>3. CASE i > k
    <3>1. i - k \in 1 .. n - k /\ k + (i - k) = i /\ i \in 1 .. Len(line) + Len(rest) /\ ~(i <= Len(line))
      BY <1>1, <1>5, <1>6, <2>3
    <3>2. whole[i] = rest[i - k]
      BY <1>6, <1>7, <3>1
    <3>3. rest[i - k] = q[k + (i - k)]
      BY <1>5, <3>1
    <3> QED
      BY <3>1, <3>2, <3>3
  <2> QED
    BY <1>1, <2>1, <2>2, <2>3
<1>9. q = whole
  <2>1. Len(whole) = Len(q)
    BY <1>1, <1>5, <1>6, <1>7 DEF n
  <2> QED
    BY <1>7, <1>8, <2>1, SeqEqual DEF n
<1> QED
  BY <1>3, <1>4, <1>5, <1>9 DEF n, front, rest, line, whole


LEMMA Bounded ==
  ASSUME NEW S, NEW n \in Nat, NEW q \in BoundedSeq(S, n)
  PROVE  q \in Seq(S) /\ Len(q) <= n
<1>1. PICK m \in 0 .. n : q \in [1 .. m -> S]
  BY Zenon DEF BoundedSeq, SeqOf
<1>2. m \in Nat
  OBVIOUS
<1> QED
  BY <1>1, <1>2


----------------------------------------------------------------------------
(* Optional: a chain of steps, of any length.                              *)

TwoOptionals == [1 .. 2 -> [value : {"junk", "0", "1", "2", "moved"}, none : BOOLEAN]]
TwoValues == [1 .. 2 -> {"none", "1", "2", "moved"}]

(* What one step does to two optionals, and to what they should hold.      *)
LEMMA OptionalStep ==
  ASSUME NEW step \in O!OptionalSteps
  PROVE  /\ \A s \in TwoOptionals : O!Run(s, step) \in TwoOptionals
         /\ \A w \in TwoValues : O!Stored(w, step) \in TwoValues
         /\ \A s \in TwoOptionals, w \in TwoValues :
              (\A i \in 1 .. 2 : w[i] = O!Shown(s[i])) =>
                \A i \in 1 .. 2 : O!Stored(w, step)[i] = O!Shown(O!Run(s, step)[i])
<1> SUFFICES ASSUME NEW s \in TwoOptionals, NEW w \in TwoValues
             PROVE  /\ O!Run(s, step) \in TwoOptionals /\ O!Stored(w, step) \in TwoValues
                    /\ (\A i \in 1 .. 2 : w[i] = O!Shown(s[i])) =>
                         \A i \in 1 .. 2 : O!Stored(w, step)[i] = O!Shown(O!Run(s, step)[i])
  <2>1. TwoOptionals # {} /\ TwoValues # {}
    <3>1. [i \in 1 .. 2 |-> [value |-> "0", none |-> TRUE]] \in TwoOptionals
      BY DEF TwoOptionals
    <3>2. [i \in 1 .. 2 |-> "none"] \in TwoValues
      BY DEF TwoValues
    <3> QED
      BY <3>1, <3>2
  <2> QED
    BY <2>1
<1> DEFINE x == step.on
           y == 3 - step.on
<1>1. x \in 1 .. 2 /\ y \in 1 .. 2 /\ x # y /\ \A i \in 1 .. 2 : i = x \/ i = y
  BY DEF O!OptionalSteps
<1>2. /\ s[x] \in [value : {"junk", "0", "1", "2", "moved"}, none : BOOLEAN]
      /\ s[y] \in [value : {"junk", "0", "1", "2", "moved"}, none : BOOLEAN]
      /\ w[x] \in {"none", "1", "2", "moved"} /\ w[y] \in {"none", "1", "2", "moved"}
  BY <1>1 DEF TwoOptionals, TwoValues
<1>3. CASE step.op \in {"copy", "swap_value"}
  <2>1. /\ O!Run(s, step) = [s EXCEPT ![x] = [value |-> step.v, none |-> FALSE]]
        /\ O!Stored(w, step) = [w EXCEPT ![x] = step.v]
        /\ step.v \in {"1", "2"}
    BY <1>3 DEF O!Run, O!Stored, O!copy, O!swap_value, O!OptionalSteps
  <2>2. O!Run(s, step) \in TwoOptionals /\ O!Stored(w, step) \in TwoValues
    BY <1>1, <2>1 DEF TwoOptionals, TwoValues
  <2>3. /\ O!Run(s, step)[x] = [value |-> step.v, none |-> FALSE] /\ O!Run(s, step)[y] = s[y]
        /\ O!Stored(w, step)[x] = step.v /\ O!Stored(w, step)[y] = w[y]
    BY <1>1, <2>1 DEF TwoOptionals, TwoValues
  <2> QED
    BY <1>1, <2>2, <2>3 DEF O!Shown
<1>4. CASE step.op = "clear"
  <2>1. /\ O!Run(s, step) = [s EXCEPT ![x] = [value |-> "0", none |-> TRUE]]
        /\ O!Stored(w, step) = [w EXCEPT ![x] = "none"]
    BY <1>4 DEF O!Run, O!Stored, O!clear
  <2>2. O!Run(s, step) \in TwoOptionals /\ O!Stored(w, step) \in TwoValues
    BY <1>1, <2>1 DEF TwoOptionals, TwoValues
  <2>3. /\ O!Run(s, step)[x] = [value |-> "0", none |-> TRUE] /\ O!Run(s, step)[y] = s[y]
        /\ O!Stored(w, step)[x] = "none" /\ O!Stored(w, step)[y] = w[y]
    BY <1>1, <2>1 DEF TwoOptionals, TwoValues
  <2> QED
    BY <1>1, <2>2, <2>3 DEF O!Shown
<1>5. CASE step.op = "assign"
  <2>1. O!Run(s, step) = [s EXCEPT ![x] = s[y]] /\ O!Stored(w, step) = [w EXCEPT ![x] = w[y]]
    BY <1>5 DEF O!Run, O!Stored
  <2>2. O!Run(s, step) \in TwoOptionals /\ O!Stored(w, step) \in TwoValues
    BY <1>1, <1>2, <2>1 DEF TwoOptionals, TwoValues
  <2>3. /\ O!Run(s, step)[x] = s[y] /\ O!Run(s, step)[y] = s[y]
        /\ O!Stored(w, step)[x] = w[y] /\ O!Stored(w, step)[y] = w[y]
    BY <1>1, <2>1 DEF TwoOptionals, TwoValues
  <2> QED
    BY <1>1, <2>2, <2>3 DEF O!Shown
<1>6. CASE step.op = "move"
  <2> DEFINE left == [s[y] EXCEPT !.value = O!moved(@)]
             kept == IF w[y] = "none" THEN w[y] ELSE "moved"
  <2>1. /\ O!Run(s, step) = [s EXCEPT ![x] = s[y], ![y] = left]
        /\ O!Stored(w, step) = [w EXCEPT ![x] = w[y], ![y] = kept]
    <3>1. [s EXCEPT ![x] = s[y]][y] = s[y] /\ [w EXCEPT ![x] = w[y]][y] = w[y]
      BY <1>1 DEF TwoOptionals, TwoValues
    <3> QED
      BY <1>6, <3>1 DEF O!Run, O!Stored
  <2>2. /\ left \in [value : {"junk", "0", "1", "2", "moved"}, none : BOOLEAN]
        /\ kept \in {"none", "1", "2", "moved"}
        /\ w[y] = O!Shown(s[y]) => kept = O!Shown(left)
    BY <1>2 DEF O!moved, O!Shown
  <2> HIDE DEF left, kept
  <2>3. O!Run(s, step) \in TwoOptionals /\ O!Stored(w, step) \in TwoValues
    BY <1>1, <1>2, <2>1, <2>2 DEF TwoOptionals, TwoValues
  <2>4. /\ O!Run(s, step)[x] = s[y] /\ O!Run(s, step)[y] = left
        /\ O!Stored(w, step)[x] = w[y] /\ O!Stored(w, step)[y] = kept
    BY <1>1, <2>1 DEF TwoOptionals, TwoValues
  <2> QED
    BY <1>1, <2>2, <2>3, <2>4
<1>7. CASE step.op = "swap"
  <2>1. /\ O!Run(s, step) = [s EXCEPT ![x] = s[y], ![y] = s[x]]
        /\ O!Stored(w, step) = <<w[2], w[1]>>
    BY <1>7 DEF O!Run, O!Stored
  <2>2. O!Run(s, step) \in TwoOptionals
    BY <1>1, <1>2, <2>1 DEF TwoOptionals
  <2>3. O!Stored(w, step) \in TwoValues
    BY <2>1 DEF TwoValues
  <2>4. O!Run(s, step)[x] = s[y] /\ O!Run(s, step)[y] = s[x]
    BY <1>1, <2>1 DEF TwoOptionals
  <2>5. O!Stored(w, step)[x] = w[y] /\ O!Stored(w, step)[y] = w[x]
    <3>1. O!Stored(w, step)[1] = w[2] /\ O!Stored(w, step)[2] = w[1]
      BY <2>1
    <3>2. (x = 1 /\ y = 2) \/ (x = 2 /\ y = 1)
      BY <1>1
    <3> QED
      BY <3>1, <3>2
  <2> QED
    BY <1>1, <2>2, <2>3, <2>4, <2>5
<1>8. step.op \in {"copy", "swap_value", "clear", "assign", "move", "swap"}
  BY DEF O!OptionalSteps
<1> QED
  BY <1>3, <1>4, <1>5, <1>6, <1>7, <1>8

(* The Max of a module and of the one it is taken from. *)
LEMMA SameMax ==
  ASSUME NEW s
  PROVE  O!Max(s) = Max(s)
BY DEF O!Max, Max

(* A chain of steps goes from state to state. *)
LEMMA RanFold ==
  ASSUME NEW steps \in Seq(O!OptionalSteps)
  PROVE  \E h : /\ h[0] = <<O!Fresh, O!Fresh>>
                /\ \A k \in 1 .. Len(steps) : h[k] = O!Run(h[k - 1], steps[k])
                /\ O!Ran(steps) = h[Len(steps)]
<1> DEFINE n == Len(steps)
           base == <<O!Fresh, O!Fresh>>
           Body(g) == [s \in SUBSET (DOMAIN steps) |->
                         IF s = {} THEN base
                         ELSE O!Run(g[s \ {O!Max(s)}], steps[O!Max(s)])]
           iter == CHOOSE g : g = Body(g)
           f == [z \in TwoOptionals \X O!OptionalSteps |-> O!Run(z[1], z[2])]
<1>1. O!Ran(steps) = iter[DOMAIN steps]
  BY DEF O!Ran, O!FoldLeft, O!MapThenFoldSet
<1>2. n \in Nat /\ DOMAIN steps = 1 .. n
  BY LenProperties
<1>3. \A k \in 1 .. n : steps[k] \in O!OptionalSteps
  BY ElementOfSeq
<1>4. base \in TwoOptionals
  <2>1. O!Fresh \in [value : {"junk", "0", "1", "2", "moved"}, none : BOOLEAN]
    BY DEF O!Fresh
  <2> QED
    BY <2>1 DEF TwoOptionals
<1>5. f \in [TwoOptionals \X O!OptionalSteps -> TwoOptionals]
  BY OptionalStep
<1>6. \A s \in TwoOptionals, step \in O!OptionalSteps : f[<<s, step>>] = O!Run(s, step)
  OBVIOUS
<1> HIDE DEF f
<1>7. PICK g : g \in Foldings(TwoOptionals, base, f, steps)
  <2> HIDE DEF base
  <2> QED
    BY <1>4, <1>5, FoldExists
<1>8. /\ g \in [SUBSET (1 .. n) -> TwoOptionals]
      /\ \A s \in SUBSET (1 .. n) :
           g[s] = IF s = {} THEN base ELSE f[<<g[s \ {Max(s)}], steps[Max(s)]>>]
  BY <1>7 DEF Foldings
<1>9. ASSUME NEW s \in SUBSET (1 .. n)
      PROVE  g[s] = IF s = {} THEN base ELSE O!Run(g[s \ {O!Max(s)}], steps[O!Max(s)])
  <2>1. CASE s = {}
    BY <1>8, <2>1
  <2>2. CASE s # {}
    <3>1. Max(s) \in 1 .. n /\ s \ {Max(s)} \in SUBSET (1 .. n)
      BY <1>2, <2>2, Largest
    <3>2. g[s \ {Max(s)}] \in TwoOptionals /\ steps[Max(s)] \in O!OptionalSteps
      BY <1>3, <1>8, <3>1
    <3> QED
      BY <1>6, <1>8, <2>2, <3>2, SameMax
  <2> QED
    BY <2>1, <2>2
<1>10. g = Body(g)
  <2> HIDE DEF base
  <2> QED
    BY <1>2, <1>8, <1>9
<1>11. iter = Body(iter)
  BY <1>10
<1> HIDE DEF iter
<1> DEFINE h == [k \in 0 .. n |-> iter[1 .. k]]
<1>12. h[0] = base
  <2>1. 1 .. 0 = {} /\ {} \in SUBSET (DOMAIN steps) /\ 0 \in 0 .. n
    BY <1>2
  <2>2. iter[{}] = base
    BY <1>11, <2>1
  <2> QED
    BY <2>1, <2>2
<1>13. ASSUME NEW k \in 1 .. n PROVE h[k] = O!Run(h[k - 1], steps[k])
  <2>1. 1 .. k \in SUBSET (DOMAIN steps) /\ 1 .. k # {} /\ k \in 0 .. n /\ k - 1 \in 0 .. n
    BY SMTT(40), <1>2
  <2>2. O!Max(1 .. k) = k /\ (1 .. k) \ {k} = 1 .. k - 1
    BY <1>2, UpTo, SameMax
  <2>3. iter[1 .. k] = O!Run(iter[(1 .. k) \ {O!Max(1 .. k)}], steps[O!Max(1 .. k)])
    BY <1>11, <2>1
  <2> QED
    BY <2>1, <2>2, <2>3
<1>14. h[n] = O!Ran(steps)
  BY <1>1, <1>2
<1> QED
  BY <1>12, <1>13, <1>14

(* And so do the values that were stored last. *)
LEMMA StoredFold ==
  ASSUME NEW steps \in Seq(O!OptionalSteps)
  PROVE  \E h : /\ h[0] = <<"none", "none">>
                /\ \A k \in 1 .. Len(steps) : h[k] = O!Stored(h[k - 1], steps[k])
                /\ O!StoredLast(steps) = h[Len(steps)]
<1> DEFINE n == Len(steps)
           base == <<"none", "none">>
           Body(g) == [s \in SUBSET (DOMAIN steps) |->
                         IF s = {} THEN base
                         ELSE O!Stored(g[s \ {O!Max(s)}], steps[O!Max(s)])]
           iter == CHOOSE g : g = Body(g)
           f == [z \in TwoValues \X O!OptionalSteps |-> O!Stored(z[1], z[2])]
<1>1. O!StoredLast(steps) = iter[DOMAIN steps]
  BY DEF O!StoredLast, O!FoldLeft, O!MapThenFoldSet
<1>2. n \in Nat /\ DOMAIN steps = 1 .. n
  BY LenProperties
<1>3. \A k \in 1 .. n : steps[k] \in O!OptionalSteps
  BY ElementOfSeq
<1>4. base \in TwoValues
  BY DEF TwoValues
<1>5. f \in [TwoValues \X O!OptionalSteps -> TwoValues]
  BY OptionalStep
<1>6. \A s \in TwoValues, step \in O!OptionalSteps : f[<<s, step>>] = O!Stored(s, step)
  OBVIOUS
<1> HIDE DEF f
<1>7. PICK g : g \in Foldings(TwoValues, base, f, steps)
  <2> HIDE DEF base
  <2> QED
    BY <1>4, <1>5, FoldExists
<1>8. /\ g \in [SUBSET (1 .. n) -> TwoValues]
      /\ \A s \in SUBSET (1 .. n) :
           g[s] = IF s = {} THEN base ELSE f[<<g[s \ {Max(s)}], steps[Max(s)]>>]
  BY <1>7 DEF Foldings
<1>9. ASSUME NEW s \in SUBSET (1 .. n)
      PROVE  g[s] = IF s = {} THEN base ELSE O!Stored(g[s \ {O!Max(s)}], steps[O!Max(s)])
  <2>1. CASE s = {}
    BY <1>8, <2>1
  <2>2. CASE s # {}
    <3>1. Max(s) \in 1 .. n /\ s \ {Max(s)} \in SUBSET (1 .. n)
      BY <1>2, <2>2, Largest
    <3>2. g[s \ {Max(s)}] \in TwoValues /\ steps[Max(s)] \in O!OptionalSteps
      BY <1>3, <1>8, <3>1
    <3> QED
      BY <1>6, <1>8, <2>2, <3>2, SameMax
  <2> QED
    BY <2>1, <2>2
<1>10. g = Body(g)
  <2> HIDE DEF base
  <2> QED
    BY <1>2, <1>8, <1>9
<1>11. iter = Body(iter)
  BY <1>10
<1> HIDE DEF iter
<1> DEFINE h == [k \in 0 .. n |-> iter[1 .. k]]
<1>12. h[0] = base
  <2>1. 1 .. 0 = {} /\ {} \in SUBSET (DOMAIN steps) /\ 0 \in 0 .. n
    BY <1>2
  <2>2. iter[{}] = base
    BY <1>11, <2>1
  <2> QED
    BY <2>1, <2>2
<1>13. ASSUME NEW k \in 1 .. n PROVE h[k] = O!Stored(h[k - 1], steps[k])
  <2>1. 1 .. k \in SUBSET (DOMAIN steps) /\ 1 .. k # {} /\ k \in 0 .. n /\ k - 1 \in 0 .. n
    BY <1>2
  <2>2. O!Max(1 .. k) = k /\ (1 .. k) \ {k} = 1 .. k - 1
    BY <1>2, UpTo, SameMax
  <2>3. iter[1 .. k] = O!Stored(iter[(1 .. k) \ {O!Max(1 .. k)}], steps[O!Max(1 .. k)])
    BY <1>11, <2>1
  <2> QED
    BY <2>1, <2>2, <2>3
<1>14. h[n] = O!StoredLast(steps)
  BY <1>1, <1>2
<1> QED
  BY <1>12, <1>13, <1>14

(* Through any chain of assignments, moves and swaps of two optionals, an  *)
(* optional holds what was stored in it last, or nothing: a value that was *)
(* never initialised does not show, one that has been moved from is as     *)
(* full as before, and two of them are equal when they hold the same.      *)
THEOREM OptionalsHold ==
  ASSUME NEW steps \in Seq(O!OptionalSteps), NEW ran, NEW stored,
         ran = O!Ran(steps), stored = O!StoredLast(steps)
  PROVE  /\ \A i \in 1 .. 2 : stored[i] = O!Shown(ran[i]) /\ O!Shown(ran[i]) # "junk"
         /\ O!equal(ran[1], ran[2]) <=> stored[1] = stored[2]
<1> DEFINE n == Len(steps)
<1>1. PICK h : /\ h[0] = <<O!Fresh, O!Fresh>>
               /\ \A k \in 1 .. n : h[k] = O!Run(h[k - 1], steps[k])
               /\ O!Ran(steps) = h[n]
  BY RanFold
<1>2. PICK w : /\ w[0] = <<"none", "none">>
               /\ \A k \in 1 .. n : w[k] = O!Stored(w[k - 1], steps[k])
               /\ O!StoredLast(steps) = w[n]
  BY StoredFold
<1>3. n \in Nat /\ \A k \in 1 .. n : steps[k] \in O!OptionalSteps
  BY LenProperties, ElementOfSeq
<1> DEFINE Right(k) == /\ h[k] \in TwoOptionals /\ w[k] \in TwoValues
                       /\ \A i \in 1 .. 2 : w[k][i] = O!Shown(h[k][i])
           K == {k \in Nat : k <= n => Right(k)}
<1>4. 0 \in K
  <2>1. O!Fresh \in [value : {"junk", "0", "1", "2", "moved"}, none : BOOLEAN]
    BY DEF O!Fresh
  <2>2. h[0] \in TwoOptionals /\ w[0] \in TwoValues
    BY <1>1, <1>2, <2>1 DEF TwoOptionals, TwoValues
  <2>3. h[0][1] = O!Fresh /\ h[0][2] = O!Fresh /\ w[0][1] = "none" /\ w[0][2] = "none"
    BY <1>1, <1>2
  <2>4. \A i \in 1 .. 2 : i = 1 \/ i = 2
    OBVIOUS
  <2>5. \A i \in 1 .. 2 : w[0][i] = O!Shown(h[0][i])
    BY <2>3, <2>4 DEF O!Shown, O!Fresh
  <2> QED
    BY <2>2, <2>5
<1>5. ASSUME NEW k \in Nat, k \in K PROVE k + 1 \in K
  <2> SUFFICES ASSUME k + 1 <= n PROVE Right(k + 1)
    OBVIOUS
  <2>1. k + 1 \in 1 .. n /\ (k + 1) - 1 = k
    BY <1>3
  <2>2. Right(k)
    BY <1>3, <1>5, <2>1
  <2>3. h[k + 1] = O!Run(h[k], steps[k + 1]) /\ w[k + 1] = O!Stored(w[k], steps[k + 1])
    BY <1>1, <1>2, <2>1
  <2>4. steps[k + 1] \in O!OptionalSteps
    BY <1>3, <2>1
  <2> QED
    BY <2>2, <2>3, <2>4, OptionalStep
<1>6. Right(n)
  <2> HIDE DEF Right
  <2>1. n \in K
    <3> HIDE DEF K
    <3> QED
      BY <1>3, <1>4, <1>5, Induction
  <2> QED
    BY <1>3, <2>1
<1>7. /\ h[n][1] \in [value : {"junk", "0", "1", "2", "moved"}, none : BOOLEAN]
      /\ h[n][2] \in [value : {"junk", "0", "1", "2", "moved"}, none : BOOLEAN]
      /\ w[n][1] \in {"none", "1", "2", "moved"} /\ w[n][2] \in {"none", "1", "2", "moved"}
  BY <1>6 DEF TwoOptionals, TwoValues
<1>8. w[n][1] = O!Shown(h[n][1]) /\ w[n][2] = O!Shown(h[n][2])
  BY <1>6
<1>9. O!equal(h[n][1], h[n][2]) <=> w[n][1] = w[n][2]
  BY <1>7, <1>8 DEF O!Shown, O!equal
<1>10. \A i \in 1 .. 2 : O!Shown(h[n][i]) # "junk"
  BY <1>6 DEF TwoValues
<1> QED
  BY <1>1, <1>2, <1>6, <1>9, <1>10

----------------------------------------------------------------------------
(* Slap: a search of any number of entries.                                *)

SearchOrders == {"none", "le", "lt"}

(* What the orders say of two entries. *)
LEMMA OrdersOf ==
  ASSUME NEW x, NEW y, NEW order \in SearchOrders
  PROVE  /\ order = "none" => /\ L!func(order, x, y)
                              /\ L!InOrder(order, x, y) <=> x.dn < y.dn
         /\ order = "le" =>
              /\ L!func(order, x, y) <=> x.key <= y.key
              /\ L!InOrder(order, x, y) <=> IF x.key = y.key THEN x.dn < y.dn ELSE x.key < y.key
         /\ order = "lt" =>
              /\ L!func(order, x, y) <=> x.key < y.key
              /\ L!InOrder(order, x, y) <=> IF x.key = y.key THEN ~(x.dn < y.dn) ELSE x.key < y.key
<1>1. CASE order = "none"
  BY <1>1 DEF L!func, L!InOrder
<1>2. CASE order = "le"
  BY <1>2 DEF L!func, L!InOrder
<1>3. CASE order = "lt"
  BY <1>3 DEF L!func, L!InOrder
<1> QED
  BY <1>1, <1>2, <1>3 DEF SearchOrders

(* There is a place: behind the last entry that the order puts in front.   *)
LEMMA PlaceFound ==
  ASSUME NEW S, NEW found \in Seq(S), NEW e, NEW order
  PROVE  LET p == L!place(found, e, order)
         IN  /\ p \in 0 .. Len(found)
             /\ p > 0 => L!func(order, found[p], e)
             /\ \A i \in p + 1 .. Len(found) : ~L!func(order, found[i], e)
<1> DEFINE P(k) == /\ k > 0 => L!func(order, found[k], e)
                   /\ \A i \in k + 1 .. Len(found) : ~L!func(order, found[i], e)
           front == {i \in 1 .. Len(found) : L!func(order, found[i], e)}
<1>1. Len(found) \in Nat
  BY LenProperties
<1>2. \E k \in 0 .. Len(found) : P(k)
  <2>1. CASE front = {}
    <3>1. P(0)
      BY <2>1
    <3> QED
      BY <1>1, <3>1
  <2>2. CASE front # {}
    <3>1. front \in SUBSET (1 .. Len(found))
      OBVIOUS
    <3>2. Max(front) \in front /\ \A y \in front : y <= Max(front)
      <4> HIDE DEF front
      <4> QED
        BY <1>1, <2>2, <3>1, Largest
    <3> DEFINE k == Max(front)
    <3>3. k \in 1 .. Len(found) /\ L!func(order, found[k], e)
      BY <3>2
    <3>4. ASSUME NEW i \in k + 1 .. Len(found) PROVE ~L!func(order, found[i], e)
      <4>1. i \in 1 .. Len(found) /\ ~(i <= k)
        BY <1>1, <3>3
      <4> QED
        BY <3>2, <4>1
    <3>5. k \in 0 .. Len(found) /\ P(k)
      BY <3>3, <3>4
    <3> QED
      BY <3>5
  <2> QED
    BY <2>1, <2>2
<1>3. L!place(found, e, order) = CHOOSE k \in 0 .. Len(found) : P(k)
  BY DEF L!place
<1> HIDE DEF P
<1>4. L!place(found, e, order) \in 0 .. Len(found) /\ P(L!place(found, e, order))
  BY <1>2, <1>3
<1> QED
  BY <1>4 DEF P

(* What InsertAt makes of a sequence: r is behind its first p elements.    *)
Insertion(found, p, r, new) ==
  /\ Len(new) = Len(found) + 1 /\ new[p + 1] = r
  /\ \A i \in 1 .. p : new[i] = found[i]
  /\ \A i \in p + 2 .. Len(found) + 1 : new[i] = found[i - 1]

LEMMA Inserted ==
  ASSUME NEW S, NEW found \in Seq(S), NEW r \in S, NEW p \in 0 .. Len(found)
  PROVE  /\ L!InsertAt(found, p + 1, r) \in Seq(S)
         /\ Insertion(found, p, r, L!InsertAt(found, p + 1, r))
<1> DEFINE front == SubSeq(found, 1, p)
           back == SubSeq(found, p + 1, Len(found))
           half == front \o <<r>>
           new == L!InsertAt(found, p + 1, r)
<1>1. Len(found) \in Nat /\ p \in Nat /\ p <= Len(found)
  BY LenProperties
<1>2. new = half \o back
  <2>1. (p + 1) - 1 = p
    BY <1>1
  <2>2. new = SubSeq(found, 1, (p + 1) - 1) \o <<r>> \o SubSeq(found, p + 1, Len(found))
    BY Zenon DEF L!InsertAt
  <2> QED
    BY <2>1, <2>2, Zenon
<1> HIDE DEF new
<1>3. \A i \in 1 .. Len(found) : found[i] \in S
  BY ElementOfSeq
<1>4. front \in Seq(S) /\ Len(front) = p /\ \A i \in 1 .. p : front[i] = found[i]
  BY <1>1, <1>3, SubSeqProperties
<1>5. /\ back \in Seq(S) /\ Len(back) = Len(found) - p
      /\ \A i \in 1 .. Len(found) - p : back[i] = found[p + i]
  BY <1>1, <1>3, SubSeqProperties
<1> HIDE DEF front, back
<1>6. <<r>> \in Seq(S) /\ Len(<<r>>) = 1 /\ <<r>>[1] = r
  OBVIOUS
<1>7. /\ half \in Seq(S) /\ Len(half) = p + 1 /\ half[p + 1] = r
      /\ \A i \in 1 .. p : half[i] = found[i]
  BY <1>1, <1>4, <1>6, ConcatProperties
<1> HIDE DEF half
<1>8. /\ new \in Seq(S) /\ Len(new) = Len(found) + 1
      /\ \A i \in 1 .. p + 1 : new[i] = half[i]
      /\ \A i \in p + 2 .. Len(found) + 1 : new[i] = back[i - (p + 1)]
  <2>1. /\ half \o back \in Seq(S) /\ Len(half \o back) = Len(found) + 1
        /\ \A i \in 1 .. p + 1 : (half \o back)[i] = half[i]
        /\ \A i \in p + 2 .. Len(found) + 1 : (half \o back)[i] = back[i - (p + 1)]
    BY <1>1, <1>5, <1>7, ConcatProperties
  <2> QED
    BY <1>2, <2>1, Zenon
<1>9. ASSUME NEW i \in p + 2 .. Len(found) + 1 PROVE new[i] = found[i - 1]
  <2>1. i - (p + 1) \in 1 .. Len(found) - p /\ p + (i - (p + 1)) = i - 1
    BY <1>1
  <2> QED
    BY <1>5, <1>8, <2>1
<1>10. new[p + 1] = r
  BY <1>1, <1>7, <1>8
<1>11. ASSUME NEW i \in 1 .. p PROVE new[i] = found[i]
  <2>1. i \in 1 .. p + 1
    BY <1>1
  <2> QED
    BY <1>7, <1>8, <2>1
<1>12. Insertion(found, p, r, new)
  BY <1>8, <1>9, <1>10, <1>11 DEF Insertion
<1> QED
  BY <1>8, <1>12 DEF new

(* An entry that is put in its place keeps the others in order, if it was  *)
(* sent after them.                                                        *)
LEMMA OrderKept ==
  ASSUME NEW S, \A x \in S : x.dn \in Nat /\ x.key \in Int,
         NEW found \in Seq(S), NEW r \in S, NEW e, e.key = r.key,
         NEW order \in SearchOrders, L!Ordered(order, found),
         \A i \in 1 .. Len(found) : found[i].dn < r.dn
  PROVE  L!Ordered(order, L!InsertAt(found, L!place(found, e, order) + 1, r))
<1> DEFINE p == L!place(found, e, order)
           new == L!InsertAt(found, p + 1, r)
           n == Len(found)
<1>1. /\ p \in 0 .. n
      /\ p > 0 => L!func(order, found[p], e)
      /\ \A i \in p + 1 .. n : ~L!func(order, found[i], e)
  BY PlaceFound
<1>2. new \in Seq(S) /\ Insertion(found, p, r, new)
  <2> HIDE DEF p
  <2>1. p \in 0 .. Len(found)
    BY <1>1
  <2> QED
    BY <2>1, Inserted
<1> HIDE DEF p, new
<1>3. /\ Len(new) = n + 1 /\ new[p + 1] = r
      /\ \A i \in 1 .. p : new[i] = found[i]
      /\ \A i \in p + 2 .. n + 1 : new[i] = found[i - 1]
  BY <1>2 DEF Insertion
<1>4. n \in Nat /\ DOMAIN found = 1 .. n /\ \A i \in 1 .. n : found[i] \in S
  BY LenProperties, ElementOfSeq
<1>5. \A i, j \in 1 .. n : i < j => L!InOrder(order, found[i], found[j])
  BY <1>4 DEF L!Ordered
<1>6. ASSUME NEW i \in 1 .. p PROVE L!InOrder(order, found[i], r)
  <2>1. i \in 1 .. n /\ p \in 1 .. n
    BY <1>1, <1>4
  <2>2. L!func(order, found[p], e) /\ found[i] \in S /\ found[p] \in S /\ found[i].dn < r.dn
    BY <1>1, <1>4, <2>1
  <2>3. i < p => L!InOrder(order, found[i], found[p])
    BY <1>5, <2>1
  <2>4. i = p \/ i < p
    BY <2>1
  <2>5. CASE order = "none"
    BY <2>2, <2>5, OrdersOf
  <2>6. CASE order # "none"
    <3>1. found[i].key <= found[p].key
      BY <2>2, <2>3, <2>4, <2>6, OrdersOf DEF SearchOrders
    <3> QED
      BY <2>2, <2>6, <3>1, OrdersOf DEF SearchOrders
  <2> QED
    BY <2>5, <2>6
<1>7. ASSUME NEW i \in p + 1 .. n PROVE L!InOrder(order, r, found[i])
  <2>1. i \in 1 .. n /\ found[i] \in S /\ found[i].dn < r.dn /\ ~L!func(order, found[i], e)
    BY <1>1, <1>4
  <2> QED
    BY <2>1, OrdersOf DEF SearchOrders
<1>8. ASSUME NEW i \in 1 .. n + 1, NEW j \in 1 .. n + 1, i < j
      PROVE  L!InOrder(order, new[i], new[j])
  <2>1. CASE j <= p
    <3>1. i \in 1 .. p /\ j \in 1 .. p /\ i \in 1 .. n /\ j \in 1 .. n
      BY <1>1, <1>4, <1>8, <2>1
    <3> QED
      BY <1>3, <1>5, <1>8, <3>1
  <2>2. CASE i <= p /\ j = p + 1
    <3>1. i \in 1 .. p
      BY <1>1, <2>2
    <3> QED
      BY <1>3, <1>6, <2>2, <3>1
  <2>3. CASE i <= p /\ j > p + 1
    <3>1. i \in 1 .. p /\ j \in p + 2 .. n + 1 /\ i \in 1 .. n /\ j - 1 \in 1 .. n /\ i < j - 1
      BY <1>1, <1>4, <2>3
    <3>2. new[i] = found[i] /\ new[j] = found[j - 1]
      BY <1>3, <3>1
    <3> QED
      BY <1>5, <3>1, <3>2
  <2>4. CASE i = p + 1
    <3>1. j \in p + 2 .. n + 1 /\ j - 1 \in p + 1 .. n
      BY <1>1, <1>4, <1>8, <2>4
    <3>2. new[i] = r
      BY <1>3, <2>4
    <3>3. new[j] = found[j - 1]
      BY <1>3, <3>1
    <3> QED
      BY <1>7, <3>1, <3>2, <3>3
  <2>5. CASE i > p + 1
    <3>1. /\ i \in p + 2 .. n + 1 /\ j \in p + 2 .. n + 1
          /\ i - 1 \in 1 .. n /\ j - 1 \in 1 .. n /\ i - 1 < j - 1
      BY <1>1, <1>4, <1>8, <2>5
    <3>2. new[i] = found[i - 1] /\ new[j] = found[j - 1]
      BY <1>3, <3>1
    <3> QED
      BY <1>5, <3>1, <3>2
  <2> QED
    BY <1>1, <1>4, <2>1, <2>2, <2>3, <2>4, <2>5
<1>9. DOMAIN new = 1 .. n + 1
  BY <1>2, <1>3, LenProperties
<1> QED
  BY <1>8, <1>9 DEF L!Ordered, new, p

(* What a search does with one entry it is sent. *)
Put(found, e, order) == L!InsertAt(found, L!place(found, e, order) + 1, L!Read(e))

LEMMA PutIn ==
  ASSUME NEW S, NEW found \in Seq(S), NEW e, L!Read(e) \in S, NEW order
  PROVE  /\ Put(found, e, order) \in Seq(S)
         /\ Insertion(found, L!place(found, e, order), L!Read(e), Put(found, e, order))
<1> DEFINE p == L!place(found, e, order)
           r == L!Read(e)
<1>1. p \in 0 .. Len(found)
  BY PlaceFound
<1>2. r \in S
  OBVIOUS
<1> HIDE DEF p, r
<1>3. L!InsertAt(found, p + 1, r) \in Seq(S) /\ Insertion(found, p, r, L!InsertAt(found, p + 1, r))
  BY <1>1, <1>2, Inserted
<1> QED
  BY <1>3, Zenon DEF Put, p, r

(* A search goes from sequence to sequence. *)
LEMMA SearchFold ==
  ASSUME NEW S, NEW entries \in Seq(S), NEW order, NEW names, NEW get_value,
         NEW q, q = L!Sent(entries, names, get_value)
  PROVE  \E h : /\ h[0] = <<>>
                /\ \A k \in 1 .. Len(entries) : h[k] = Put(h[k - 1], q[k], order)
                /\ L!search(entries, order, names, get_value) = h[Len(entries)]
<1> DEFINE n == Len(entries)
           base == <<>>
           Es == {q[i] : i \in 1 .. n}
           Out == {L!Read(e) : e \in Es}
           Body(g) == [s \in SUBSET (DOMAIN q) |->
                         IF s = {} THEN base
                         ELSE Put(g[s \ {L!Max(s)}], q[L!Max(s)], order)]
           iter == CHOOSE g : g = Body(g)
           f == [z \in Seq(Out) \X Es |-> Put(z[1], z[2], order)]
<1>1. L!search(entries, order, names, get_value) = iter[DOMAIN q]
  BY DEF L!search, L!FoldLeft, L!MapThenFoldSet, Put
<1>2. n \in Nat /\ DOMAIN entries = 1 .. n
  BY LenProperties
<1>3. DOMAIN q = 1 .. n /\ q = [i \in 1 .. n |-> q[i]]
  BY <1>2 DEF L!Sent
<1>4. q \in Seq(Es) /\ Len(q) = n
  BY <1>2, <1>3
<1>5. base \in Seq(Out)
  OBVIOUS
<1>6. \A s \in Seq(Out), e \in Es : Put(s, e, order) \in Seq(Out)
  <2> SUFFICES ASSUME NEW s \in Seq(Out), NEW e \in Es PROVE Put(s, e, order) \in Seq(Out)
    OBVIOUS
  <2>1. L!Read(e) \in Out
    OBVIOUS
  <2> HIDE DEF Out
  <2> QED
    BY <2>1, PutIn
<1> HIDE DEF Es, Out, base
<1>7. f \in [Seq(Out) \X Es -> Seq(Out)]
  BY <1>6
<1>8. \A s \in Seq(Out), e \in Es : f[<<s, e>>] = Put(s, e, order)
  OBVIOUS
<1>9. \A i \in 1 .. n : q[i] \in Es
  BY DEF Es
<1> HIDE DEF f
<1>10. PICK g : g \in Foldings(Seq(Out), base, f, q)
  <2> DEFINE T == Seq(Out)
  <2>1. base \in T /\ f \in [T \X Es -> T]
    BY <1>5, <1>7
  <2> HIDE DEF T
  <2>2. Foldings(T, base, f, q) # {}
    BY <1>4, <2>1, FoldExists
  <2> QED
    BY <2>2 DEF T
<1>11. /\ g \in [SUBSET (1 .. n) -> Seq(Out)]
       /\ \A s \in SUBSET (1 .. n) :
            g[s] = IF s = {} THEN base ELSE f[<<g[s \ {Max(s)}], q[Max(s)]>>]
  BY <1>4, <1>10 DEF Foldings
<1>12. \A s : L!Max(s) = Max(s)
  BY DEF L!Max, Max
<1>13. ASSUME NEW s \in SUBSET (1 .. n)
       PROVE  g[s] = IF s = {} THEN base ELSE Put(g[s \ {L!Max(s)}], q[L!Max(s)], order)
  <2>1. CASE s = {}
    BY <1>11, <2>1
  <2>2. CASE s # {}
    <3>1. Max(s) \in 1 .. n /\ s \ {Max(s)} \in SUBSET (1 .. n)
      BY <1>2, <2>2, Largest
    <3>2. g[s \ {Max(s)}] \in Seq(Out) /\ q[Max(s)] \in Es
      BY <1>9, <1>11, <3>1
    <3> QED
      BY <1>8, <1>11, <2>2, <3>2, <1>12
  <2> QED
    BY <2>1, <2>2
<1>14. g = Body(g)
  BY <1>3, <1>11, <1>13
<1>15. iter = Body(iter)
  BY <1>14
<1> HIDE DEF iter
<1> DEFINE h == [k \in 0 .. n |-> iter[1 .. k]]
<1>16. h[0] = base
  <2>1. 1 .. 0 = {} /\ {} \in SUBSET (DOMAIN q) /\ 0 \in 0 .. n
    BY <1>2
  <2>2. iter[{}] = base
    BY <1>15, <2>1
  <2> QED
    BY <2>1, <2>2
<1>17. ASSUME NEW k \in 1 .. n PROVE h[k] = Put(h[k - 1], q[k], order)
  <2>1. 1 .. k \in SUBSET (DOMAIN q) /\ 1 .. k # {} /\ k \in 0 .. n /\ k - 1 \in 0 .. n
    BY <1>2, <1>3
  <2>2. L!Max(1 .. k) = k /\ (1 .. k) \ {k} = 1 .. k - 1
    BY <1>2, UpTo, <1>12
  <2>3. iter[1 .. k] = Put(iter[(1 .. k) \ {L!Max(1 .. k)}], q[L!Max(1 .. k)], order)
    BY <1>15, <2>1
  <2> QED
    BY <2>1, <2>2, <2>3
<1>18. h[n] = L!search(entries, order, names, get_value)
  BY <1>1, <1>2, <1>3
<1> QED
  BY <1>16, <1>17, <1>18 DEF base

(* What a server may hold. *)
Sendable == [dn : Nat, key : Int, values : [L!Names -> Seq(L!LdapValues)]]

(* Of an entry that is sent are read the attributes asked for that have    *)
(* values.                                                                 *)
LEMMA ReadWhole ==
  ASSUME NEW S, NEW entries \in Seq(Sendable), NEW names \in SUBSET L!Names,
         NEW get_value \in BOOLEAN, NEW i \in 1 .. Len(entries),
         NEW q, q = L!Sent(entries, names, get_value)
  PROVE  /\ q[i].key = entries[i].key
         /\ L!Read(q[i]).dn = entries[i].dn /\ L!Read(q[i]).key = entries[i].key
         /\ L!Whole(entries[i], names, get_value, L!Read(q[i]))
<1> DEFINE e == entries[i]
           v == [x \in {y \in DOMAIN e.values : names = {} \/ y \in names} |->
                   IF get_value THEN e.values[x] ELSE <<>>]
<1>1. e \in Sendable /\ DOMAIN entries = 1 .. Len(entries)
  BY LenProperties, ElementOfSeq
<1>2. DOMAIN e.values = L!Names
  BY <1>1 DEF Sendable
<1>3. q[i] = [e EXCEPT !.values = v]
  BY <1>1 DEF L!Sent
<1>4. q[i].values = v /\ q[i].dn = e.dn /\ q[i].key = e.key
  BY <1>1, <1>3 DEF Sendable
<1>5. L!Read(q[i]).dn = e.dn /\ L!Read(q[i]).key = e.key
  BY <1>4 DEF L!Read
<1>6. L!Read(q[i]).attributes = {L!Attribute(x, "add", v[x]) : x \in {y \in DOMAIN v : v[y] # <<>>}}
  BY <1>4 DEF L!Read
<1>7. {y \in DOMAIN v : v[y] # <<>>} =
        {y \in L!Names : get_value /\ (names = {} \/ y \in names) /\ e.values[y] # <<>>}
  BY <1>2
<1>8. \A x \in {y \in DOMAIN v : v[y] # <<>>} : v[x] = e.values[x]
  OBVIOUS
<1>9. L!Read(q[i]).attributes =
        {L!Attribute(x, "add", e.values[x]) :
           x \in {y \in L!Names : get_value /\ (names = {} \/ y \in names) /\ e.values[y] # <<>>}}
  <2> HIDE DEF v
  <2> QED
    BY <1>6, <1>7, <1>8
<1> QED
  BY <1>4, <1>5, <1>9 DEF L!Whole

(* A search of any number of entries finds each once, with the attributes  *)
(* asked for that have values, in the order asked for.                     *)
THEOREM SearchFinds ==
  ASSUME NEW entries \in Seq(Sendable), \A i \in 1 .. Len(entries) : entries[i].dn = i,
         NEW order \in SearchOrders, NEW names \in SUBSET L!Names, NEW get_value \in BOOLEAN
  PROVE  LET found == L!search(entries, order, names, get_value)
         IN  /\ Len(found) = Len(entries)
             /\ L!EachOnce(entries, found) /\ L!Ordered(order, found)
             /\ \A i \in DOMAIN found : L!Whole(entries[found[i].dn], names, get_value, found[i])
<1> DEFINE n == Len(entries)
           q == L!Sent(entries, names, get_value)
           R(i) == L!Read(q[i])
           Out == {R(i) : i \in 1 .. n}
<1>1. n \in Nat /\ DOMAIN entries = 1 .. n /\ \A i \in 1 .. n : entries[i] \in Sendable
  BY LenProperties, ElementOfSeq
<1>2. ASSUME NEW i \in 1 .. n
      PROVE  /\ q[i].key = R(i).key /\ R(i).dn = i /\ R(i).key \in Int /\ R(i) \in Out
             /\ L!Whole(entries[i], names, get_value, R(i))
  <2>1. /\ q[i].key = entries[i].key
        /\ L!Read(q[i]).dn = entries[i].dn /\ L!Read(q[i]).key = entries[i].key
        /\ L!Whole(entries[i], names, get_value, L!Read(q[i]))
    <3> HIDE DEF q
    <3>1. q = L!Sent(entries, names, get_value)
      BY DEF q
    <3> QED
      BY <3>1, ReadWhole
  <2>2. entries[i].key \in Int
    BY <1>1 DEF Sendable
  <2> HIDE DEF q
  <2> QED
    BY <2>1, <2>2
<1>3. PICK h : /\ h[0] = <<>>
               /\ \A k \in 1 .. n : h[k] = Put(h[k - 1], q[k], order)
               /\ L!search(entries, order, names, get_value) = h[n]
  <2> HIDE DEF q
  <2>1. q = L!Sent(entries, names, get_value)
    BY DEF q
  <2> QED
    BY <2>1, SearchFold
<1> HIDE DEF q
<1>4. \A x \in Out : x.dn \in 1 .. n /\ x = R(x.dn) /\ x.key \in Int
  BY <1>2
<1> HIDE DEF R, Out
<1> DEFINE Found(k) == /\ h[k] \in Seq(Out) /\ Len(h[k]) = k
                       /\ \A i \in 1 .. k : h[k][i].dn \in 1 .. k
                       /\ \A d \in 1 .. k : \E i \in 1 .. k : h[k][i].dn = d
                       /\ \A i, j \in 1 .. k : h[k][i].dn = h[k][j].dn => i = j
                       /\ L!Ordered(order, h[k])
           K == {k \in Nat : k <= n => Found(k)}
<1>5. 0 \in K
  <2>1. h[0] \in Seq(Out) /\ Len(h[0]) = 0 /\ DOMAIN h[0] = {}
    BY <1>3
  <2>2. L!Ordered(order, h[0])
    BY <2>1 DEF L!Ordered
  <2> QED
    BY <2>1, <2>2
<1>6. ASSUME NEW k \in Nat, k \in K PROVE k + 1 \in K
  <2> SUFFICES ASSUME k + 1 <= n PROVE Found(k + 1)
    <3> HIDE DEF Found
    <3> QED
      OBVIOUS
  <2> DEFINE found == h[k]
             new == h[k + 1]
             e == q[k + 1]
             r == R(k + 1)
             p == L!place(found, e, order)
  <2>1. k + 1 \in 1 .. n /\ (k + 1) - 1 = k
    BY <1>1
  <2>2. Found(k)
    <3>1. k <= n
      BY <1>1
    <3> HIDE DEF Found
    <3> QED
      BY <1>6, <3>1
  <2>3. new = Put(found, e, order)
    BY <1>3, <2>1
  <2>4. r \in Out /\ r = L!Read(e) /\ r.dn = k + 1 /\ e.key = r.key
    BY <1>2, <2>1 DEF R
  <2>5. /\ found \in Seq(Out) /\ Len(found) = k
        /\ \A i \in 1 .. k : found[i].dn \in 1 .. k
        /\ \A d \in 1 .. k : \E i \in 1 .. k : found[i].dn = d
        /\ \A i, j \in 1 .. k : found[i].dn = found[j].dn => i = j
        /\ L!Ordered(order, found)
    BY <2>2
  <2>6. p \in 0 .. k
    BY <2>5, PlaceFound
  <2> HIDE DEF Found, found, new, e, r, p
  <2>7. new \in Seq(Out) /\ Insertion(found, p, r, new)
    BY <2>3, <2>4, <2>5, PutIn DEF p
  <2>8. /\ Len(new) = k + 1 /\ new[p + 1] = r
        /\ \A i \in 1 .. p : new[i] = found[i]
        /\ \A i \in p + 2 .. k + 1 : new[i] = found[i - 1]
    BY <2>5, <2>7 DEF Insertion
  <2>9. L!Ordered(order, new)
    <3>1. \A x \in Out : x.dn \in Nat /\ x.key \in Int
      BY <1>4
    <3>2. \A i \in 1 .. Len(found) : found[i].dn < r.dn
      BY <2>4, <2>5
    <3>3. L!Ordered(order, L!InsertAt(found, L!place(found, e, order) + 1, r))
      BY <2>4, <2>5, <3>1, <3>2, OrderKept
    <3> QED
      BY <2>3, <2>4, <3>3 DEF Put
  <2>10. ASSUME NEW i \in 1 .. k + 1
         PROVE  \/ i = p + 1
                \/ i \in 1 .. p /\ i \in 1 .. k
                \/ i \in p + 2 .. k + 1 /\ i - 1 \in 1 .. k
    BY <2>6
  <2>11. ASSUME NEW i \in 1 .. k + 1 PROVE new[i].dn \in 1 .. k + 1
    <3>1. CASE i = p + 1
      BY <2>4, <2>8, <3>1
    <3>2. CASE i \in 1 .. p /\ i \in 1 .. k
      BY <2>5, <2>8, <3>2
    <3>3. CASE i \in p + 2 .. k + 1 /\ i - 1 \in 1 .. k
      BY <2>5, <2>8, <3>3
    <3> QED
      BY <2>10, <3>1, <3>2, <3>3
  <2>12. ASSUME NEW d \in 1 .. k + 1 PROVE \E i \in 1 .. k + 1 : new[i].dn = d
    <3>1. CASE d = k + 1
      <4>1. p + 1 \in 1 .. k + 1
        BY <2>6
      <4> QED
        BY <2>4, <2>8, <3>1, <4>1
    <3>2. CASE d \in 1 .. k
      <4>1. PICK i \in 1 .. k : found[i].dn = d
        BY <2>5, <3>2
      <4>2. CASE i <= p
        <5>1. i \in 1 .. p /\ i \in 1 .. k + 1
          BY <2>6, <4>2
        <5> QED
          BY <2>8, <4>1, <5>1
      <4>3. CASE ~(i <= p)
        <5>1. i + 1 \in p + 2 .. k + 1 /\ i + 1 \in 1 .. k + 1 /\ (i + 1) - 1 = i
          BY <2>6, <4>3
        <5> QED
          BY <2>8, <4>1, <5>1
      <4> QED
        BY <4>2, <4>3
    <3> QED
      BY <3>1, <3>2
  <2>13. ASSUME NEW i \in 1 .. k + 1, NEW j \in 1 .. k + 1, new[i].dn = new[j].dn PROVE i = j
    <3>1. \A x \in 1 .. k + 1 : x # p + 1 => new[x].dn \in 1 .. k
      BY <2>5, <2>8, <2>10
    <3>2. CASE i = p + 1 \/ j = p + 1
      BY <2>4, <2>8, <2>13, <3>1, <3>2
    <3>3. CASE i # p + 1 /\ j # p + 1
      <4> DEFINE from(x) == IF x <= p THEN x ELSE x - 1
      <4>1. ASSUME NEW x \in 1 .. k + 1, x # p + 1
            PROVE  from(x) \in 1 .. k /\ new[x] = found[from(x)]
        <5>1. CASE x \in 1 .. p /\ x \in 1 .. k
          BY <2>6, <2>8, <5>1
        <5>2. CASE x \in p + 2 .. k + 1 /\ x - 1 \in 1 .. k
          BY <2>6, <2>8, <5>2
        <5> QED
          BY <2>10, <4>1, <5>1, <5>2
      <4>2. from(i) = from(j)
        <5>1. from(i) \in 1 .. k /\ new[i] = found[from(i)]
          BY <3>3, <4>1
        <5>2. from(j) \in 1 .. k /\ new[j] = found[from(j)]
          BY <3>3, <4>1
        <5> HIDE DEF from
        <5> QED
          BY <2>5, <2>13, <5>1, <5>2
      <4> QED
        BY <2>6, <3>3, <4>2
    <3> QED
      BY <3>2, <3>3
  <2> QED
    BY <2>7, <2>8, <2>9, <2>11, <2>12, <2>13 DEF Found, new
<1>7. Found(n)
  <2> HIDE DEF Found
  <2>1. n \in K
    <3> HIDE DEF K
    <3> QED
      BY <1>1, <1>5, <1>6, Induction
  <2> QED
    BY <1>1, <2>1
<1>8. DOMAIN h[n] = 1 .. n
  BY <1>1, <1>7, LenProperties
<1>9. L!EachOnce(entries, h[n])
  <2>1. {h[n][i].dn : i \in 1 .. n} = 1 .. n
    <3>1. /\ \A i \in 1 .. n : h[n][i].dn \in 1 .. n
          /\ \A d \in 1 .. n : \E i \in 1 .. n : h[n][i].dn = d
      BY <1>7
    <3> HIDE DEF n
    <3> QED
      BY <3>1
  <2> QED
    BY <1>1, <1>7, <1>8, <2>1 DEF L!EachOnce
<1>10. ASSUME NEW i \in DOMAIN h[n] PROVE L!Whole(entries[h[n][i].dn], names, get_value, h[n][i])
  <2>1. h[n][i] \in Out
    BY <1>1, <1>7, <1>8, ElementOfSeq
  <2>2. h[n][i].dn \in 1 .. n /\ h[n][i] = R(h[n][i].dn)
    BY <1>4, <2>1
  <2> QED
    BY <1>2, <2>2
<1> QED
  BY <1>3, <1>7, <1>9, <1>10
----------------------------------------------------------------------------
(* The calls of Values.                                                    *)

(* A call, and what it returned. *)
Asking == call \in ReadingCalls \cup DataCalls
Answered == returned => result = Evaluate(call)

LEMMA Kinds ==
  ASSUME Asking
  PROVE  /\ call.fn \in {"and", "or"} =>
              /\ call.x \in Operands /\ call.y \in Operands /\ "tern" \in {call.x.type, call.y.type}
              /\ call = [fn |-> call.fn, x |-> call.x, y |-> call.y]
         /\ call.fn = "execute" => call \in [fn : {"execute"}, how : Endings]
         /\ call.fn = "read_input" =>
              call \in [fn : {"read_input"}, on : {{i} : i \in Inputs}, offset : Offsets, input : Inputs]
         /\ call.fn = "lines" => call.input \in BoundedSeq({"c", "nl"}, MaxInput)
         /\ call.fn = "address" => call \in [fn : {"address"}, host : {0, 258, 256 * 256 * 5, C!loopback}]
BY SMTT(40) DEF Asking, ReadingCalls, DataCalls

LEMMA Evaluates ==
         /\ call.fn = "and" => Evaluate(call) = And(call.x, call.y)
         /\ call.fn = "or" => Evaluate(call) = Or(call.x, call.y)
         /\ call.fn = "execute" => Evaluate(call) = execute(system(call.how))
         /\ call.fn = "lines" => Evaluate(call) = Lines(call.input)
         /\ call.fn = "address" => Evaluate(call) = C!address(call.host)
         /\ call.fn = "search" => Evaluate(call) =
              L!search([i \in DOMAIN call.sent |-> [call.sent[i] EXCEPT !.dn = i]],
                       call.order, call.names, call.get_value)
BY DEF Evaluate

LEMMA KleeneHolds ==
  ASSUME Asking, Answered, returned
  PROVE  KleeneLogic
<1>1. CASE call.fn = "and"
  <2>1. /\ call.x \in Operands /\ call.y \in Operands /\ "tern" \in {call.x.type, call.y.type}
        /\ result = And(call.x, call.y)
    BY <1>1, Kinds, Evaluates DEF Answered
  <2>2. /\ result = tern(Least(call.x.value, call.y.value))
        /\ Not(result) = Or(Not(call.x), Not(call.y))
    BY <2>1, OverloadsAgree
  <2> DEFINE dual == [fn |-> "or", x |-> Not(call.x), y |-> Not(call.y)]
  <2>3. Evaluate(dual) = Or(Not(call.x), Not(call.y))
    BY DEF Evaluate
  <2> QED
    BY <1>1, <2>2, <2>3 DEF KleeneLogic, Returned
<1>2. CASE call.fn = "or"
  <2>1. /\ call.x \in Operands /\ call.y \in Operands /\ "tern" \in {call.x.type, call.y.type}
        /\ result = Or(call.x, call.y)
    BY <1>2, Kinds, Evaluates DEF Answered
  <2>2. /\ result = tern(Greatest(call.x.value, call.y.value))
        /\ Not(result) = And(Not(call.x), Not(call.y))
    BY <2>1, OverloadsAgree
  <2> DEFINE dual == [fn |-> "and", x |-> Not(call.x), y |-> Not(call.y)]
  <2>3. Evaluate(dual) = And(Not(call.x), Not(call.y))
    BY DEF Evaluate
  <2> QED
    BY <1>2, <2>2, <2>3 DEF KleeneLogic, Returned
<1>3. CASE call.fn \notin {"and", "or"}
  BY <1>3 DEF KleeneLogic, Returned
<1> QED
  BY <1>1, <1>2, <1>3


----------------------------------------------------------------------------
(* Transfer: the lines of a file, polling, streams, waiting.               *)

Input == Seq({"c", "nl"})
Taking == [lines : Seq(Input), rest : Input]

(* The first delimiter, or the end. *)
LEMMA StopFound ==
  ASSUME NEW input \in Input
  PROVE  /\ Stop(input) \in 1 .. Len(input) + 1
         /\ Stop(input) <= Len(input) => input[Stop(input)] = "nl"
         /\ \A i \in 1 .. Stop(input) - 1 : input[i] # "nl"
<1> DEFINE n == Len(input)
           N == {i \in 1 .. n : input[i] = "nl"}
           P(k) == /\ k <= Len(input) => input[k] = "nl"
                   /\ \A i \in 1 .. k - 1 : input[i] # "nl"
<1>1. n \in Nat
  BY LenProperties DEF Input
<1>2. \E k \in 1 .. n + 1 : P(k)
  <2>1. CASE N = {}
    <3>1. n + 1 \in 1 .. n + 1 /\ \A i \in 1 .. n : input[i] # "nl"
      BY <1>1, <2>1
    <3>2. P(n + 1)
      BY <1>1, <3>1
    <3> QED
      BY <3>1, <3>2
  <2>2. CASE N # {}
    <3>0. N \in SUBSET Nat
      BY <1>1
    <3>1. PICK k \in N : \A y \in N : k <= y
      <4> HIDE DEF N
      <4> QED
        BY <2>2, <3>0, Smallest
    <3>2. P(k) /\ k \in 1 .. n + 1
      BY <1>1, <3>1
    <3> QED
      BY <3>2
  <2> QED
    BY <2>1, <2>2
<1> HIDE DEF P
<1>3. Stop(input) \in 1 .. n + 1 /\ P(Stop(input))
  BY <1>2 DEF Stop, P
<1> QED
  BY <1>3 DEF P

(* One call of getline. *)
LEMMA LineTaken ==
  ASSUME NEW s \in Taking
  PROVE  /\ Taken(s) \in Taking
         /\ s.rest = <<>> => Taken(s) = s
         /\ s.rest # <<>> =>
              /\ Len(Taken(s).rest) < Len(s.rest)
              /\ \/ \E line \in Input : /\ Taken(s).lines = Append(s.lines, line)
                                        /\ s.rest = Append(line, "nl") \o Taken(s).rest
                 \/ Taken(s).lines = Append(s.lines, s.rest) /\ Taken(s).rest = <<>>
<1> DEFINE q == s.rest
           n == Len(q)
           k == Stop(q)
           string == SubSeq(q, 1, k - 1)
           rest == SubSeq(q, k + 1, n)
           t == [lines |-> Append(s.lines, string), rest |-> rest]
<1>1. q \in Input /\ s.lines \in Seq(Input) /\ s = [lines |-> s.lines, rest |-> q]
  BY DEF Taking
<1>2. n \in Nat /\ DOMAIN q = 1 .. n /\ q \in Seq({"c", "nl"})
  BY <1>1, LenProperties DEF Input
<1>3. k \in 1 .. n + 1 /\ (k <= n => q[k] = "nl")
  BY <1>1, StopFound
<1> HIDE DEF q, n, k
<1>4. k <= n => /\ string \in Input /\ rest \in Input /\ Len(rest) = n - k
                /\ q = Append(string, "nl") \o rest
  <2> SUFFICES ASSUME k <= n
               PROVE  /\ string \in Input /\ rest \in Input /\ Len(rest) = n - k
                      /\ q = Append(string, "nl") \o rest
    OBVIOUS
  <2>1. k \in 1 .. Len(q) /\ q[k] = "nl"
    BY <1>2, <1>3 DEF n
  <2>2. /\ SubSeq(q, 1, k - 1) \in Input
        /\ SubSeq(q, k + 1, Len(q)) \in Input /\ Len(SubSeq(q, k + 1, Len(q))) = Len(q) - k
        /\ q = Append(SubSeq(q, 1, k - 1), q[k]) \o SubSeq(q, k + 1, Len(q))
    BY <1>2, <2>1, Cut DEF Input
  <2> QED
    BY <2>1, <2>2 DEF n
<1>5. k > n => string = q /\ rest = <<>>
  <2> SUFFICES ASSUME k > n PROVE string = q /\ rest = <<>>
    OBVIOUS
  <2>1. k - 1 = n /\ n < k + 1 /\ k + 1 \in Int /\ n \in Int
    BY <1>2, <1>3
  <2>2. SubSeq(q, 1, n) = q
    BY <1>2, SubSeqFull DEF n
  <2>3. SubSeq(q, k + 1, n) = <<>>
    BY <2>1, SubSeqEmpty
  <2> QED
    BY <2>1, <2>2, <2>3
<1>6. Taken(s) = IF k <= n \/ k > 1 THEN t ELSE s
  BY DEF Taken, getline, q, n, k
<1> HIDE DEF string, rest
<1>7. t \in Taking
  <2>1. string \in Input /\ rest \in Input
    <3>1. <<>> \in Input
      BY DEF Input
    <3> QED
      BY <1>1, <1>2, <1>3, <1>4, <1>5, <3>1
  <2>2. Append(s.lines, string) \in Seq(Input)
    BY <1>1, <2>1, AppendProperties
  <2> QED
    BY <2>1, <2>2 DEF Taking
<1>8. CASE q = <<>>
  <2>1. n = 0 /\ k = 1
    BY <1>2, <1>3, <1>8, EmptySeq DEF n
  <2>2. Taken(s) = s
    BY <1>6, <2>1
  <2> QED
    BY <1>8, <2>2 DEF q
<1>9. CASE q # <<>>
  <2>1. n > 0
    BY <1>2, <1>9, EmptySeq DEF n
  <2>2. Taken(s) = t
    BY <1>2, <1>3, <1>6, <2>1
  <2>3. CASE k <= n
    <3>1. Len(t.rest) < n /\ q = Append(string, "nl") \o t.rest /\ t.lines = Append(s.lines, string)
      <4>1. t.rest = rest /\ t.lines = Append(s.lines, string)
        OBVIOUS
      <4>2. Len(rest) = n - k /\ q = Append(string, "nl") \o rest
        BY <1>4, <2>3
      <4>3. n - k < n
        BY <1>2, <1>3
      <4> HIDE DEF t
      <4> QED
        BY <4>1, <4>2, <4>3
    <3> QED
      BY <1>4, <1>7, <1>9, <2>2, <2>3, <3>1 DEF q, n
  <2>4. CASE k > n
    <3>1. t.rest = <<>> /\ t.lines = Append(s.lines, q) /\ Len(t.rest) < n
      BY <1>5, <2>1, <2>4, EmptySeq
    <3> QED
      BY <1>7, <1>9, <2>2, <3>1 DEF q, n
  <2>5. k <= n \/ k > n
    BY <1>2, <1>3
  <2> HIDE DEF t
  <2> QED
    BY <2>3, <2>4, <2>5
<1> QED
  BY <1>8, <1>9

(* The calls of getline that read an input, the state behind each.         *)
Getlines(input) ==
  {h \in [0 .. Len(input) -> Taking] :
     /\ h[0] = [lines |-> <<>>, rest |-> input]
     /\ \A k \in 1 .. Len(input) : h[k] = Taken(h[k - 1])
     /\ Lines(input) = h[Len(input)].lines}

LEMMA LinesFold ==
  ASSUME NEW input \in Input
  PROVE  Getlines(input) # {}
<1> DEFINE D == {"c", "nl"}
           base == [lines |-> <<>>, rest |-> input]
           f == [z \in Taking \X D |-> Taken(z[1])]
           Body(g) == [s \in SUBSET (DOMAIN input) |->
                         IF s = {} THEN base ELSE Taken(g[s \ {Max(s)}])]
           iter == CHOOSE g : g = Body(g)
<1>1. Lines(input) = iter[DOMAIN input].lines
  BY DEF Lines, FoldLeft, MapThenFoldSet
<1>2. base \in Taking
  <2>1. <<>> \in Seq(Input)
    OBVIOUS
  <2> QED
    BY <2>1 DEF Taking
<1>3. f \in [Taking \X D -> Taking]
  BY LineTaken
<1>4. \A s \in Taking, c \in D : f[<<s, c>>] = Taken(s)
  OBVIOUS
<1>5. input \in Seq(D)
  BY DEF Input
<1> HIDE DEF base, f, D
<1>6. PICK g : g \in Folding(Taking, D, base, f, input)
  BY <1>2, <1>3, <1>5, Folds
<1>7. g = Body(g)
  <2>1. g \in [SUBSET (DOMAIN input) -> Taking] /\ g[{}] = base
    BY <1>6 DEF Folding
  <2>2. \A s \in SUBSET (DOMAIN input) : s # {} => g[s] = Taken(g[s \ {Max(s)}])
    BY <1>4, <1>6 DEF Folding
  <2> QED
    BY <2>1, <2>2
<1>8. iter = Body(iter)
  BY <1>7
<1> HIDE DEF iter
<1>9. Recursive(Taking, base, f, input, iter)
  <2>1. iter[{}] = base
    BY <1>8
  <2>2. ASSUME NEW s \in SUBSET (DOMAIN input), s # {}, iter[s \ {Max(s)}] \in Taking
        PROVE  iter[s] = f[<<iter[s \ {Max(s)}], input[Max(s)]>>]
    <3>1. input[Max(s)] \in D
      BY <1>6, <2>2 DEF Folding
    <3>2. iter[s] = Taken(iter[s \ {Max(s)}])
      BY <1>8, <2>2
    <3> QED
      BY <1>4, <2>2, <3>1, <3>2
  <2> QED
    BY <2>1, <2>2 DEF Recursive
<1>10. PICK h : h \in Stepping(Taking, D, base, f, input, iter)
  BY <1>2, <1>3, <1>5, <1>9, FoldSteps
<1>11. h \in Getlines(input)
  <2>1. \A k \in 1 .. Len(input) : h[k] = Taken(h[k - 1])
    BY <1>4, <1>10 DEF Stepping
  <2>2. h \in [0 .. Len(input) -> Taking] /\ h[0] = base /\ h[Len(input)] = iter[DOMAIN input]
    BY <1>10 DEF Stepping
  <2> QED
    BY <1>1, <2>1, <2>2 DEF Getlines, base
<1> QED
  BY <1>11

(* The lines as they were, each with its delimiter.                        *)
Terminated(lines) == FlattenSeq([i \in DOMAIN lines |-> Append(lines[i], "nl")])

LEMMA OneMoreLine ==
  ASSUME NEW lines \in Seq(Input), NEW line \in Input
  PROVE  /\ Terminated(<<>>) = <<>> /\ Terminated(lines) \in Input
         /\ Append(lines, line) \in Seq(Input)
         /\ Terminated(Append(lines, line)) = Terminated(lines) \o Append(line, "nl")
<1> DEFINE D == {"c", "nl"}
           seqs == [i \in DOMAIN lines |-> Append(lines[i], "nl")]
           more == Append(lines, line)
           x == Append(line, "nl")
<1>1. \A l \in Input : Append(l, "nl") \in Input
  BY AppendProperties DEF Input
<1>2. /\ more \in Seq(Input) /\ Len(more) = Len(lines) + 1 /\ more[Len(lines) + 1] = line
      /\ \A i \in 1 .. Len(lines) : more[i] = lines[i]
  BY AppendProperties
<1>3. Len(lines) \in Nat /\ DOMAIN lines = 1 .. Len(lines) /\ DOMAIN more = 1 .. Len(lines) + 1
  BY <1>2, LenProperties
<1>4. seqs \in Seq(Input) /\ Len(seqs) = Len(lines)
  <2>1. \A i \in 1 .. Len(lines) : Append(lines[i], "nl") \in Input
    BY <1>1, ElementOfSeq
  <2> QED
    BY <1>3, <2>1
<1>5. x \in Input
  BY <1>1
<1> DEFINE all == [i \in DOMAIN more |-> Append(more[i], "nl")]
<1> HIDE DEF more
<1>6. all = Append(seqs, x)
  <2>1. Append(seqs, x) \in Seq(Input) /\ Len(Append(seqs, x)) = Len(lines) + 1
        /\ Append(seqs, x)[Len(lines) + 1] = x
        /\ \A i \in 1 .. Len(lines) : Append(seqs, x)[i] = seqs[i]
    <3> HIDE DEF seqs, x
    <3> QED
      BY <1>4, <1>5, AppendProperties
  <2>2. DOMAIN Append(seqs, x) = 1 .. Len(lines) + 1
    BY <2>1, LenProperties
  <2>3. all = [i \in 1 .. Len(lines) + 1 |-> Append(more[i], "nl")]
    BY <1>3
  <2>4. Append(seqs, x) = [i \in 1 .. Len(lines) + 1 |-> Append(seqs, x)[i]]
    BY <2>1, <2>2
  <2>5. ASSUME NEW i \in 1 .. Len(lines) + 1 PROVE Append(seqs, x)[i] = Append(more[i], "nl")
    <3>1. CASE i = Len(lines) + 1
      BY <1>2, <2>1, <3>1
    <3>2. CASE i # Len(lines) + 1
      <4>1. i \in 1 .. Len(lines)
        BY <1>3, <3>2
      <4> QED
        BY <1>2, <1>3, <2>1, <4>1
    <3> QED
      BY <3>1, <3>2
  <2> HIDE DEF all, seqs, x
  <2> QED
    BY <2>3, <2>4, <2>5
<1>7. /\ FlattenSeq(<<>>) = <<>> /\ FlattenSeq(seqs) \in Input
      /\ FlattenSeq(Append(seqs, x)) = FlattenSeq(seqs) \o x
  <2>1. seqs \in Seq(Seq(D)) /\ x \in Seq(D)
    BY <1>4, <1>5 DEF Input
  <2> HIDE DEF seqs, x, D
  <2>2. /\ FlattenSeq(<<>>) = <<>> /\ FlattenSeq(seqs) \in Seq(D)
        /\ FlattenSeq(Append(seqs, x)) = FlattenSeq(seqs) \o x
    BY <2>1, FlattenAppend
  <2> QED
    BY <2>2 DEF D, Input
<1>8. Terminated(lines) = FlattenSeq(seqs) /\ Terminated(more) = FlattenSeq(all)
  BY DEF Terminated
<1>9. Terminated(<<>>) = FlattenSeq(<<>>)
  <2>1. [i \in DOMAIN <<>> |-> Append(<<>>[i], "nl")] = <<>>
    OBVIOUS
  <2> QED
    BY <2>1 DEF Terminated
<1> HIDE DEF seqs, all, x
<1> QED
  BY <1>2, <1>6, <1>7, <1>8, <1>9 DEF more, x

(* What has been read and what is left are the input.                      *)
Reading(input) ==
  {s \in Taking : \/ input = Terminated(s.lines) \o s.rest
                  \/ /\ s.rest = <<>> /\ s.lines # <<>> /\ Last(s.lines) # <<>>
                     /\ Terminated(s.lines) = Append(input, "nl")}

LEMMA ReadingStep ==
  ASSUME NEW input \in Input, NEW s \in Reading(input)
  PROVE  Taken(s) \in Reading(input)
<1> DEFINE t == Taken(s)
<1>1. s \in Taking /\ t \in Taking
  BY LineTaken DEF Reading
<1>2. s.lines \in Seq(Input) /\ s.rest \in Input
  BY <1>1 DEF Taking
<1>3. CASE s.rest = <<>>
  BY <1>1, <1>3, LineTaken
<1>4. CASE s.rest # <<>>
  <2>1. input = Terminated(s.lines) \o s.rest
    BY <1>4 DEF Reading
  <2>2. Terminated(s.lines) \in Input
    BY <1>2, OneMoreLine
  <2>3. ASSUME NEW line \in Input,
               t.lines = Append(s.lines, line), s.rest = Append(line, "nl") \o t.rest
        PROVE  t \in Reading(input)
    <3>1. Terminated(t.lines) = Terminated(s.lines) \o Append(line, "nl")
      BY <1>2, <2>3, OneMoreLine
    <3>2. Append(line, "nl") \in Input /\ t.rest \in Input
      BY <1>1, AppendProperties DEF Input, Taking
    <3> DEFINE a == Terminated(s.lines)
               b == Append(line, "nl")
               c == t.rest
    <3>3. a \o (b \o c) = (a \o b) \o c
      <4>1. a \in Seq({"c", "nl"}) /\ b \in Seq({"c", "nl"}) /\ c \in Seq({"c", "nl"})
        BY <2>2, <3>2 DEF Input
      <4> HIDE DEF a, b, c
      <4> QED
        BY SMTT(40), <4>1, ConcatAssociative
    <3>4. input = Terminated(t.lines) \o t.rest
      BY <2>1, <2>3, <3>1, <3>3
    <3> HIDE DEF t
    <3> QED
      BY <1>1, <3>4 DEF Reading
  <2>4. ASSUME t.lines = Append(s.lines, s.rest), t.rest = <<>>
        PROVE  t \in Reading(input)
    <3>1. Terminated(t.lines) = Terminated(s.lines) \o Append(s.rest, "nl")
      BY <1>2, <2>4, OneMoreLine
    <3>2. Terminated(t.lines) = Append(input, "nl")
      <4> DEFINE a == Terminated(s.lines)
                 r == s.rest
      <4>1. a \in Seq({"c", "nl"}) /\ r \in Seq({"c", "nl"})
        BY <1>2, <2>2 DEF Input
      <4>2. input = a \o r /\ Terminated(t.lines) = a \o Append(r, "nl")
        BY <2>1, <3>1
      <4> HIDE DEF a, r, t
      <4>3. a \o Append(r, "nl") = Append(a \o r, "nl")
        <5>1. a \o r \in Seq({"c", "nl"}) /\ "nl" \in {"c", "nl"} /\ <<"nl">> \in Seq({"c", "nl"})
          BY <4>1, ConcatProperties
        <5>2. Append(r, "nl") = r \o <<"nl">> /\ Append(a \o r, "nl") = (a \o r) \o <<"nl">>
          BY <4>1, <5>1, AppendIsConcat
        <5> QED
          BY <4>1, <5>1, <5>2, ConcatAssociative
      <4> QED
        BY <4>2, <4>3
    <3>3. t.lines # <<>> /\ Last(t.lines) = s.rest
      BY <1>2, <2>4 DEF Last
    <3> HIDE DEF t
    <3> QED
      BY <1>1, <1>4, <2>4, <3>2, <3>3 DEF Reading
  <2>5. \/ \E line \in Input : t.lines = Append(s.lines, line) /\ s.rest = Append(line, "nl") \o t.rest
        \/ t.lines = Append(s.lines, s.rest) /\ t.rest = <<>>
    BY <1>1, <1>4, LineTaken
  <2> HIDE DEF t
  <2> QED
    BY <2>3, <2>4, <2>5 DEF t
<1> QED
  BY <1>3, <1>4

(* Reading an input until getline returns false gives its lines.           *)
LEMMA AllLines ==
  ASSUME NEW input \in Input
  PROVE  \/ input = Terminated(Lines(input))
         \/ /\ Lines(input) # <<>> /\ Last(Lines(input)) # <<>>
            /\ input = Front(Terminated(Lines(input)))
<1> DEFINE n == Len(input)
<1>1. n \in Nat
  BY LenProperties DEF Input
<1>2. PICK h : h \in Getlines(input)
  BY LinesFold
<1>3. /\ h \in [0 .. n -> Taking] /\ h[0] = [lines |-> <<>>, rest |-> input]
      /\ \A k \in 1 .. n : h[k] = Taken(h[k - 1])
      /\ Lines(input) = h[n].lines
  BY <1>2 DEF Getlines
<1> DEFINE K == {k \in Nat : k <= n => h[k] \in Reading(input) /\ Len(h[k].rest) <= n - k}
<1>4. 0 \in K
  <2>1. Terminated(<<>>) = <<>>
    <3>1. <<>> \in Seq(Input) /\ <<>> \in Input
      BY DEF Input
    <3> QED
      BY <3>1, OneMoreLine
  <2>2. input = <<>> \o input
    BY ConcatEmptySeq DEF Input
  <2>3. h[0] \in Taking /\ h[0].lines = <<>> /\ h[0].rest = input
    BY <1>1, <1>3
  <2>4. h[0] \in Reading(input)
    BY <2>1, <2>2, <2>3 DEF Reading
  <2>5. Len(h[0].rest) <= n - 0
    BY <1>1, <2>3
  <2> HIDE DEF n
  <2> QED
    BY <2>4, <2>5
<1>5. ASSUME NEW k \in Nat, k \in K PROVE k + 1 \in K
  <2> SUFFICES ASSUME k + 1 <= n
               PROVE  h[k + 1] \in Reading(input) /\ Len(h[k + 1].rest) <= n - (k + 1)
    OBVIOUS
  <2>1. k <= n /\ k + 1 \in 1 .. n /\ (k + 1) - 1 = k
    BY <1>1
  <2>2. h[k] \in Reading(input) /\ Len(h[k].rest) <= n - k /\ h[k + 1] = Taken(h[k])
    BY <1>3, <1>5, <2>1
  <2>3. h[k + 1] \in Reading(input)
    BY <2>2, ReadingStep
  <2>4. h[k] \in Taking /\ h[k + 1] \in Taking
    BY <2>2, <2>3 DEF Reading
  <2>5. Len(h[k].rest) \in Nat /\ Len(h[k + 1].rest) \in Nat
    BY <2>4, LenProperties DEF Taking, Input
  <2>6. CASE h[k].rest = <<>>
    <3>1. Len(h[k + 1].rest) = 0
      BY <2>2, <2>4, <2>6, LineTaken, EmptySeq
    <3> QED
      BY <1>1, <2>1, <2>3, <3>1
  <2>7. CASE h[k].rest # <<>>
    <3>1. Len(h[k + 1].rest) < Len(h[k].rest)
      BY <2>2, <2>4, <2>7, LineTaken
    <3> HIDE DEF n
    <3> QED
      BY <1>1, <2>2, <2>3, <2>5, <3>1
  <2> QED
    BY <2>6, <2>7
<1>6. n \in K
  <2> HIDE DEF K
  <2> QED
    BY <1>1, <1>4, <1>5, Induction
<1>7. h[n] \in Reading(input) /\ Len(h[n].rest) <= 0
  BY <1>1, <1>6
<1> DEFINE lines == Lines(input)
<1>8. h[n] \in Taking /\ h[n].lines = lines /\ h[n].rest \in Input
  BY <1>3, <1>7 DEF Reading, Taking
<1>9. h[n].rest = <<>>
  BY <1>7, <1>8, EmptySeq, LenProperties DEF Input
<1>10. Terminated(lines) \in Input
  BY <1>8, OneMoreLine DEF Taking, Input
<1> HIDE DEF lines, n
<1>11. CASE input = Terminated(lines) \o h[n].rest
  BY <1>9, <1>10, <1>11, ConcatEmptySeq DEF Input, lines
<1>12. CASE lines # <<>> /\ Last(lines) # <<>> /\ Terminated(lines) = Append(input, "nl")
  <2>1. Front(Append(input, "nl")) = input
    <3>1. Append(input, "nl") \in Seq({"c", "nl"}) /\ Len(Append(input, "nl")) = Len(input) + 1
          /\ \A i \in 1 .. Len(input) : Append(input, "nl")[i] = input[i]
      BY AppendProperties DEF Input
    <3>2. Front(Append(input, "nl")) = SubSeq(Append(input, "nl"), 1, Len(input))
      BY <1>1, <3>1 DEF Front, n
    <3> QED
      BY <1>1, <3>1, <3>2 DEF Input, n
  <2> QED
    BY <1>12, <2>1 DEF lines
<1> QED
  BY <1>7, <1>8, <1>11, <1>12 DEF Reading

LEMMA ReadingKinds ==
  ASSUME Asking
  PROVE  /\ call.fn = "recv_from" =>
              call \in [fn : {"recv_from"}, s : States, nonblocking : BOOLEAN, wait : BOOLEAN]
         /\ call.fn = "read" =>
              call \in [fn : {"read"}, asked : States, s : States, nonblocking : BOOLEAN, wait : BOOLEAN]
         /\ call.fn = "can_read" =>
              call \in [fn : {"can_read"}, fds : BoundedSeq({"quiet", "in", "out", "err"}, MaxSteps) \ {<<>>},
                        x : -3 .. 2]
         /\ call.fn = "filebuf" =>
              call \in [fn : {"filebuf"}, access : F!Accesses, mode : SUBSET F!Flags]
BY SMTT(40) DEF Asking, ReadingCalls, DataCalls

LEMMA ReadingEvaluates ==
         /\ call.fn = "recv_from" => Evaluate(call) = recv_from(call.s, call.nonblocking, call.wait)
         /\ call.fn = "read" => Evaluate(call) = read(call.asked, call.s, call.nonblocking, call.wait)
         /\ call.fn = "can_read" => Evaluate(call) = can_poll(call.fds, call.x)
         /\ call.fn = "filebuf" => Evaluate(call) = F!open(call.access, call.mode)
BY DEF Evaluate

LEMMA Polling ==
  ASSUME NEW fds \in Seq({"quiet", "in", "out", "err"}), NEW x \in -3 .. 2, fds # <<>>
  PROVE  LET is(e) == \E i \in DOMAIN fds : fds[i] = e
             quiet == \A i \in DOMAIN fds : fds[i] = "quiet"
             told == can_poll(fds, x)
         IN  /\ told = "blocks" <=> quiet /\ x < 0
             /\ told = "true" => is("in")
             /\ told = "throws" => quiet \/ is("err")
             /\ ~is("quiet") =>
                  told = IF is("err") THEN "throws" ELSE IF is("in") THEN "true" ELSE "false"
<1> DEFINE some == {i \in DOMAIN fds : fds[i] # "quiet"}
           count == Cardinality(some)
           n == Len(fds)
<1>1. n \in Nat /\ DOMAIN fds = 1 .. n
  BY LenProperties
<1>2. IsFiniteSet(1 .. n) /\ Cardinality(1 .. n) = n
  BY <1>1, FS_Interval
<1>3. some \subseteq 1 .. n /\ IsFiniteSet(some) /\ count \in Nat /\ count <= n
  <2>1. some \subseteq 1 .. n
    BY <1>1
  <2> HIDE DEF some
  <2> QED
    BY <1>2, <2>1, FS_Subset, FS_CardinalityType
<1>4. count = 0 <=> \A i \in DOMAIN fds : fds[i] = "quiet"
  <2>1. some = {} <=> \A i \in DOMAIN fds : fds[i] = "quiet"
    OBVIOUS
  <2> HIDE DEF some
  <2> QED
    BY <1>3, <2>1, FS_EmptySet
<1>5. (\A i \in DOMAIN fds : fds[i] # "quiet") => count = n
  <2> SUFFICES ASSUME \A i \in DOMAIN fds : fds[i] # "quiet" PROVE count = n
    OBVIOUS
  <2>1. some = 1 .. n
    BY <1>1
  <2> QED
    BY <1>2, <2>1
<1>6. forever(x) <=> x < 0
  <2>1. x = -3 \/ x = -2 \/ x = -1 \/ x = 0 \/ x = 1 \/ x = 2
    OBVIOUS
  <2> QED
    BY <2>1 DEF forever
<1>7. can_poll(fds, x) = IF count = 0 /\ x < 0 THEN "blocks"
                         ELSE IF "err" \in revents(fds, count) THEN "throws"
                         ELSE IF "in" \in revents(fds, count) THEN "true" ELSE "false"
  <2> HIDE DEF some
  <2> QED
    BY <1>6 DEF can_poll, some
<1>8. count = 0 => revents(fds, count) = {"err"}
  <2> HIDE DEF some
  <2> QED
    BY DEF revents
<1>9. count # 0 => \A e : e \in revents(fds, count) <=> e # "quiet" /\ \E i \in 1 .. count : fds[i] = e
  <2> HIDE DEF some
  <2> QED
    BY DEF revents, Happened
<1>10. \A i \in 1 .. count : i \in DOMAIN fds
  <2> HIDE DEF some
  <2> QED
    BY <1>1, <1>3
<1> HIDE DEF some, count, n
<1> QED
  BY <1>1, <1>4, <1>5, <1>7, <1>8, <1>9, <1>10

(* The open mode by its flags. *)
LEMMA ModeFound ==
  ASSUME NEW mode \in SUBSET F!Flags
  PROVE  LET I == "in" \in mode
             O1 == "out" \in mode
             A == "app" \in mode
             T == "trunc" \in mode
         IN  F!get_mode(mode) = CASE ~I /\ O1 /\ ~A -> "w"
                                  [] ~I /\ A /\ ~T -> "a"
                                  [] I /\ ~O1 /\ ~A /\ ~T -> "r"
                                  [] I /\ O1 /\ ~A /\ ~T -> "r+"
                                  [] I /\ O1 /\ ~A /\ T -> "w+"
                                  [] I /\ A /\ ~T -> "a+"
                                  [] OTHER -> "none"
<1> DEFINE m == mode \ {"ate", "binary"}
           I == "in" \in mode
           O1 == "out" \in mode
           A == "app" \in mode
           T == "trunc" \in mode
           Is(s) == /\ I <=> "in" \in s
                    /\ O1 <=> "out" \in s
                    /\ A <=> "app" \in s
                    /\ T <=> "trunc" \in s
<1>1. ASSUME NEW s \in SUBSET {"in", "out", "app", "trunc"} PROVE m = s <=> Is(s)
  BY DEF F!Flags
<1>2. /\ m = {"out"} <=> ~I /\ O1 /\ ~A /\ ~T
      /\ m = {"out", "trunc"} <=> ~I /\ O1 /\ ~A /\ T
      /\ m = {"out", "app"} <=> ~I /\ O1 /\ A /\ ~T
      /\ m = {"app"} <=> ~I /\ ~O1 /\ A /\ ~T
      /\ m = {"in"} <=> I /\ ~O1 /\ ~A /\ ~T
      /\ m = {"in", "out"} <=> I /\ O1 /\ ~A /\ ~T
      /\ m = {"in", "out", "trunc"} <=> I /\ O1 /\ ~A /\ T
      /\ m = {"in", "out", "app"} <=> I /\ O1 /\ A /\ ~T
      /\ m = {"in", "app"} <=> I /\ ~O1 /\ A /\ ~T
  <2>1. m = {"out"} <=> ~I /\ O1 /\ ~A /\ ~T
    <3>1. {"out"} \in SUBSET {"in", "out", "app", "trunc"} /\ (Is({"out"}) <=> ~I /\ O1 /\ ~A /\ ~T)
      OBVIOUS
    <3> HIDE DEF m, I, O1, A, T, Is
    <3> QED
      BY <1>1, <3>1
  <2>2. m = {"out", "trunc"} <=> ~I /\ O1 /\ ~A /\ T
    <3>1. {"out", "trunc"} \in SUBSET {"in", "out", "app", "trunc"} /\ (Is({"out", "trunc"}) <=> ~I /\ O1 /\ ~A /\ T)
      OBVIOUS
    <3> HIDE DEF m, I, O1, A, T, Is
    <3> QED
      BY <1>1, <3>1
  <2>3. m = {"out", "app"} <=> ~I /\ O1 /\ A /\ ~T
    <3>1. {"out", "app"} \in SUBSET {"in", "out", "app", "trunc"} /\ (Is({"out", "app"}) <=> ~I /\ O1 /\ A /\ ~T)
      OBVIOUS
    <3> HIDE DEF m, I, O1, A, T, Is
    <3> QED
      BY <1>1, <3>1
  <2>4. m = {"app"} <=> ~I /\ ~O1 /\ A /\ ~T
    <3>1. {"app"} \in SUBSET {"in", "out", "app", "trunc"} /\ (Is({"app"}) <=> ~I /\ ~O1 /\ A /\ ~T)
      OBVIOUS
    <3> HIDE DEF m, I, O1, A, T, Is
    <3> QED
      BY <1>1, <3>1
  <2>5. m = {"in"} <=> I /\ ~O1 /\ ~A /\ ~T
    <3>1. {"in"} \in SUBSET {"in", "out", "app", "trunc"} /\ (Is({"in"}) <=> I /\ ~O1 /\ ~A /\ ~T)
      OBVIOUS
    <3> HIDE DEF m, I, O1, A, T, Is
    <3> QED
      BY <1>1, <3>1
  <2>6. m = {"in", "out"} <=> I /\ O1 /\ ~A /\ ~T
    <3>1. {"in", "out"} \in SUBSET {"in", "out", "app", "trunc"} /\ (Is({"in", "out"}) <=> I /\ O1 /\ ~A /\ ~T)
      OBVIOUS
    <3> HIDE DEF m, I, O1, A, T, Is
    <3> QED
      BY <1>1, <3>1
  <2>7. m = {"in", "out", "trunc"} <=> I /\ O1 /\ ~A /\ T
    <3>1. /\ {"in", "out", "trunc"} \in SUBSET {"in", "out", "app", "trunc"}
          /\ (Is({"in", "out", "trunc"}) <=> I /\ O1 /\ ~A /\ T)
      OBVIOUS
    <3> HIDE DEF m, I, O1, A, T, Is
    <3> QED
      BY <1>1, <3>1
  <2>8. m = {"in", "out", "app"} <=> I /\ O1 /\ A /\ ~T
    <3>1. /\ {"in", "out", "app"} \in SUBSET {"in", "out", "app", "trunc"}
          /\ (Is({"in", "out", "app"}) <=> I /\ O1 /\ A /\ ~T)
      OBVIOUS
    <3> HIDE DEF m, I, O1, A, T, Is
    <3> QED
      BY <1>1, <3>1
  <2>9. m = {"in", "app"} <=> I /\ ~O1 /\ A /\ ~T
    <3>1. {"in", "app"} \in SUBSET {"in", "out", "app", "trunc"} /\ (Is({"in", "app"}) <=> I /\ ~O1 /\ A /\ ~T)
      OBVIOUS
    <3> HIDE DEF m, I, O1, A, T, Is
    <3> QED
      BY <1>1, <3>1
  <2> QED
    BY <2>1, <2>2, <2>3, <2>4, <2>5, <2>6, <2>7, <2>8, <2>9
<1>3. F!get_mode(mode) = CASE m \in {{"out"}, {"out", "trunc"}} -> "w"
                           [] m \in {{"out", "app"}, {"app"}} -> "a"
                           [] m = {"in"} -> "r"
                           [] m = {"in", "out"} -> "r+"
                           [] m = {"in", "out", "trunc"} -> "w+"
                           [] m \in {{"in", "out", "app"}, {"in", "app"}} -> "a+"
                           [] OTHER -> "none"
  BY DEF F!get_mode
<1> HIDE DEF m, I, O1, A, T
<1>4. /\ m \in {{"out"}, {"out", "trunc"}} <=> ~I /\ O1 /\ ~A
      /\ m \in {{"out", "app"}, {"app"}} <=> ~I /\ A /\ ~T
      /\ m \in {{"in", "out", "app"}, {"in", "app"}} <=> I /\ A /\ ~T
  BY <1>2
<1>5. F!get_mode(mode) = CASE ~I /\ O1 /\ ~A -> "w"
                           [] ~I /\ A /\ ~T -> "a"
                           [] I /\ ~O1 /\ ~A /\ ~T -> "r"
                           [] I /\ O1 /\ ~A /\ ~T -> "r+"
                           [] I /\ O1 /\ ~A /\ T -> "w+"
                           [] I /\ A /\ ~T -> "a+"
                           [] OTHER -> "none"
  BY <1>2, <1>3, <1>4
<1> QED
  BY <1>5 DEF I, O1, A, T

LEMMA Streaming ==
  ASSUME NEW access \in F!Accesses, NEW mode \in SUBSET F!Flags
  PROVE  LET stream == F!open(access, mode)
             md == F!get_mode(mode)
             may == F!Allows(access)
             writes == mode \cap {"out", "app"} # {}
         IN  /\ stream.returned <=> /\ mode \cap {"in", "out", "app"} # {}
                                    /\ "trunc" \in mode => "out" \in mode /\ "app" \notin mode
             /\ stream.returned =>
                  /\ "read" \in F!Needs(md) <=> "in" \in mode
                  /\ "write" \in F!Needs(md) <=> writes
                  /\ md \in {"a", "a+"} <=> "app" \in mode
                  /\ ~stream.file => /\ access # "both"
                                     /\ ~("in" \in mode => "read" \in may) \/ ~(writes => "write" \in may)
<1> DEFINE stream == F!open(access, mode)
           md == F!get_mode(mode)
           may == F!Allows(access)
           writes == mode \cap {"out", "app"} # {}
           I == "in" \in mode
           O1 == "out" \in mode
           A == "app" \in mode
           T == "trunc" \in mode
<1>1. md = CASE ~I /\ O1 /\ ~A -> "w"
             [] ~I /\ A /\ ~T -> "a"
             [] I /\ ~O1 /\ ~A /\ ~T -> "r"
             [] I /\ O1 /\ ~A /\ ~T -> "r+"
             [] I /\ O1 /\ ~A /\ T -> "w+"
             [] I /\ A /\ ~T -> "a+"
             [] OTHER -> "none"
  BY ModeFound
<1>2. stream.returned = (md # "none") /\ stream.file = (md # "none" /\ F!Needs(md) \subseteq may)
  BY DEF F!open
<1>3. /\ "read" \in F!Needs(md) <=> md \in {"r", "r+", "w+", "a+"}
      /\ "write" \in F!Needs(md) <=> md # "r"
      /\ \A x \in F!Needs(md) : x \in {"read", "write"}
  BY DEF F!Needs
<1>4. writes <=> (O1 \/ A)
  OBVIOUS
<1>5. (mode \cap {"in", "out", "app"} # {}) <=> (I \/ O1 \/ A)
  OBVIOUS
<1>6. access = "both" => may = {"read", "write"}
  BY DEF F!Allows
<1> HIDE DEF stream, md, may, writes, I, O1, A, T
<1>7. /\ md \in {"r", "r+", "w+", "a+"} <=> I /\ (T => O1 /\ ~A)
      /\ md # "none" <=> (I \/ O1 \/ A) /\ (T => O1 /\ ~A)
      /\ md # "none" => (md # "r" <=> O1 \/ A)
      /\ md # "none" => (md \in {"a", "a+"} <=> A)
  BY <1>1
<1>8. /\ stream.returned <=> (I \/ O1 \/ A) /\ (T => O1 /\ ~A)
      /\ stream.returned =>
           /\ "read" \in F!Needs(md) <=> I
           /\ "write" \in F!Needs(md) <=> writes
           /\ md \in {"a", "a+"} <=> A
           /\ ~stream.file => /\ access # "both"
                              /\ ~(I => "read" \in may) \/ ~(writes => "write" \in may)
  BY <1>2, <1>3, <1>4, <1>6, <1>7
<1> QED
  BY <1>5, <1>8 DEF stream, md, may, writes, I, O1, A, T

LEMMA ReadingTells ==
  ASSUME Asking, Answered, returned
  PROVE  ReadsTell
<1>1. WaitHonoured
  <2>1. CASE call.fn = "recv_from"
    <3>1. /\ call.s \in States /\ call.nonblocking \in BOOLEAN /\ call.wait \in BOOLEAN
          /\ result = recv_from(call.s, call.nonblocking, call.wait)
      BY <2>1, ReadingKinds, ReadingEvaluates DEF Answered
    <3> QED
      BY <2>1, <3>1 DEF WaitHonoured, Returned, recv_from, transfer, Kernel, States, Count, Again, Blocks, Raises
  <2>2. CASE call.fn = "read"
    <3>1. /\ call.s \in States /\ call.asked \in States /\ call.nonblocking \in BOOLEAN /\ call.wait \in BOOLEAN
          /\ result = read(call.asked, call.s, call.nonblocking, call.wait)
      BY <2>2, ReadingKinds, ReadingEvaluates DEF Answered
    <3> QED
      BY <2>2, <3>1 DEF WaitHonoured, Returned, read, can_read, Kernel, States, Count, Again, Blocks, Raises
  <2> QED
    BY <2>1, <2>2 DEF WaitHonoured, Returned
<1>2. LinesWhole
  <2>1. CASE call.fn = "lines"
    <3>1. call.input \in BoundedSeq({"c", "nl"}, MaxInput) /\ result = Lines(call.input)
      BY <2>1, Kinds, Evaluates DEF Answered
    <3>2. call.input \in Input
      <4>1. MaxInput \in Nat
        BY MaxInputAssumption
      <4> QED
        BY <3>1, <4>1, Bounded DEF Input
    <3>3. \/ call.input = Terminated(result)
          \/ result # <<>> /\ Last(result) # <<>> /\ call.input = Front(Terminated(result))
      BY <3>1, <3>2, AllLines
    <3> QED
      BY <3>3 DEF LinesWhole, Terminated
  <2> QED
    BY <2>1 DEF LinesWhole, Returned
<1>3. PollTells
  <2>1. CASE call.fn = "can_read"
    <3>1. /\ call.fds \in BoundedSeq({"quiet", "in", "out", "err"}, MaxSteps) /\ call.fds # <<>>
          /\ call.x \in -3 .. 2 /\ result = can_poll(call.fds, call.x)
      BY <2>1, ReadingKinds, ReadingEvaluates DEF Answered
    <3>2. call.fds \in Seq({"quiet", "in", "out", "err"})
      <4>1. MaxSteps \in Nat
        BY MaxInputAssumption
      <4> QED
        BY <3>1, <4>1, Bounded
    <3> QED
      BY <3>1, <3>2, Polling DEF PollTells
  <2> QED
    BY <2>1 DEF PollTells, Returned
<1>4. StreamAsAsked
  <2>1. CASE call.fn = "filebuf"
    <3>1. call.access \in F!Accesses /\ call.mode \in SUBSET F!Flags /\ result = F!open(call.access, call.mode)
      BY <2>1, ReadingKinds, ReadingEvaluates DEF Answered
    <3> QED
      BY <3>1, Streaming DEF StreamAsAsked
  <2> QED
    BY <2>1 DEF StreamAsAsked, Returned
<1> QED
  BY <1>1, <1>2, <1>3, <1>4 DEF ReadsTell

----------------------------------------------------------------------------
(* Slap: what is asked of the directory and what it answers.               *)

LEMMA Counting ==
  ASSUME NEW S PROVE L!Cardinality(S) = Cardinality(S)
BY DEF L!Cardinality, Cardinality

LEMMA Pair ==
  ASSUME NEW T, NEW a \in T, NEW b \in T PROVE <<a, b>> \in [1 .. 2 -> T]
<1>1. <<a, b>> \in Seq(T) /\ Len(<<a, b>>) = 2
  OBVIOUS
<1> QED
  BY <1>1, LenProperties

LEMMA DataKinds ==
  ASSUME Asking
  PROVE  /\ call.fn = "search" =>
              /\ call.sent \in BoundedSeq(SentEntries, MaxSteps) /\ call.order \in {"none", "le", "lt"}
              /\ call.names \in SUBSET L!Names /\ call.get_value \in BOOLEAN
         /\ call.fn \in {"add", "modify"} => call.changes \in BoundedSeq(Changes, MaxSteps)
         /\ call.fn = "attribute" =>
              call \in [fn : {"attribute"}, entry : {{}} \cup {{a} : a \in Attributes}, n : 0 .. 2,
                        type : {"bool", "int", "string"}]
BY DEF Asking, ReadingCalls, DataCalls

LEMMA DataEvaluates ==
         /\ call.fn = "search" =>
              Evaluate(call) = L!search([i \in DOMAIN call.sent |-> [call.sent[i] EXCEPT !.dn = i]],
                                        call.order, call.names, call.get_value)
         /\ call.fn = "add" => Evaluate(call) = L!add(FoldLeft(L!insert, {}, call.changes))
         /\ call.fn = "modify" => Evaluate(call) = L!modify(Held, FoldLeft(L!insert, {}, call.changes))
         /\ call.fn = "attribute" =>
              Evaluate(call) = [to |-> L!attribute_to(call.entry, 1, call.n, call.type),
                                optional |-> L!attribute_to_optional(call.entry, 1, call.n, call.type),
                                get |-> L!attribute_get(call.entry, 1, call.n, call.type)]
BY DEF Evaluate

LEMMA Searching ==
  ASSUME Asking, Answered, returned
  PROVE  SearchOrdered
<1> SUFFICES ASSUME call.fn = "search"
             PROVE  /\ Len(result) = Len(call.sent)
                    /\ L!EachOnce(call.sent, result)
                    /\ \A i \in DOMAIN result :
                         L!Whole(call.sent[result[i].dn], call.names, call.get_value, result[i])
                    /\ L!Ordered(call.order, result)
  BY DEF SearchOrdered, Returned
<1> DEFINE sent == call.sent
           n == Len(sent)
           entries == [i \in DOMAIN sent |-> [sent[i] EXCEPT !.dn = i]]
<1>1. /\ sent \in BoundedSeq(SentEntries, MaxSteps) /\ call.order \in SearchOrders
      /\ call.names \in SUBSET L!Names /\ call.get_value \in BOOLEAN
      /\ result = L!search(entries, call.order, call.names, call.get_value)
  BY DataKinds, DataEvaluates DEF Answered, SearchOrders
<1>2. sent \in Seq(SentEntries)
  <2>1. MaxSteps \in Nat
    BY MaxInputAssumption
  <2> HIDE DEF sent
  <2> QED
    BY <1>1, <2>1, Bounded
<1>3. n \in Nat /\ DOMAIN sent = 1 .. n
  BY <1>2, LenProperties
<1>4. ASSUME NEW i \in 1 .. n
      PROVE  entries[i] \in Sendable /\ entries[i].dn = i /\ entries[i].values = sent[i].values
  <2>1. sent[i] \in SentEntries /\ entries[i] = [sent[i] EXCEPT !.dn = i]
    BY <1>2, <1>3, ElementOfSeq
  <2>2. entries[i].dn = i /\ entries[i].values = sent[i].values
        /\ entries[i] = [dn |-> i, key |-> sent[i].key, values |-> sent[i].values]
    BY <2>1 DEF SentEntries
  <2>3. \A v \in {<< <<"7">>, <<>> >>, << <<>>, <<"7", "word">> >>} : v \in [L!Names -> Seq(L!LdapValues)]
    <3>1. <<>> \in Seq(L!LdapValues) /\ <<"7">> \in Seq(L!LdapValues) /\ <<"7", "word">> \in Seq(L!LdapValues)
      BY DEF L!LdapValues
    <3> DEFINE T == Seq(L!LdapValues)
               a == <<>>
               b == <<"7">>
               c == <<"7", "word">>
    <3>2. a \in T /\ b \in T /\ c \in T
      BY <3>1
    <3> HIDE DEF T, a, b, c
    <3>3. <<b, a>> \in [1 .. 2 -> T] /\ <<a, c>> \in [1 .. 2 -> T]
      BY <3>2, Pair
    <3> QED
      BY <3>3 DEF L!Names, T, a, b, c
  <2>4. sent[i].key \in Int /\ sent[i].values \in [L!Names -> Seq(L!LdapValues)]
    <3>1. sent[i].key \in 1 .. 2 /\ sent[i].values \in {<< <<"7">>, <<>> >>, << <<>>, <<"7", "word">> >>}
      BY <2>1 DEF SentEntries
    <3> DEFINE Vs == {<< <<"7">>, <<>> >>, << <<>>, <<"7", "word">> >>}
               v == sent[i].values
               T == [L!Names -> Seq(L!LdapValues)]
    <3>2. v \in Vs /\ \A w \in Vs : w \in T
      BY <2>3, <3>1
    <3>3. v \in T
      <4> HIDE DEF Vs, v, T
      <4> QED
        BY <3>2
    <3> QED
      BY <3>1, <3>3
  <2> QED
    <3>1. \A d \in Nat, x \in Int, v \in [L!Names -> Seq(L!LdapValues)] :
             [dn |-> d, key |-> x, values |-> v] \in Sendable
      BY DEF Sendable
    <3>2. i \in Nat
      BY <1>3
    <3> HIDE DEF entries, sent
    <3> QED
      BY <2>2, <2>4, <3>1, <3>2
<1>5. entries \in Seq(Sendable) /\ Len(entries) = n /\ DOMAIN entries = DOMAIN sent
  <2>1. entries = [i \in 1 .. n |-> entries[i]]
    BY <1>3
  <2>2. DOMAIN entries = 1 .. n
    BY <1>3
  <2> HIDE DEF entries, n, sent
  <2> QED
    BY <1>3, <1>4, <2>1, <2>2
<1> HIDE DEF entries, n, sent
<1>6. /\ Len(result) = n /\ L!EachOnce(entries, result) /\ L!Ordered(call.order, result)
      /\ \A i \in DOMAIN result : L!Whole(entries[result[i].dn], call.names, call.get_value, result[i])
  <2>1. \A i \in 1 .. Len(entries) : entries[i].dn = i
    BY <1>4, <1>5
  <2> QED
    BY <1>1, <1>5, <2>1, SearchFinds
<1>7. L!EachOnce(sent, result)
  BY <1>5, <1>6 DEF L!EachOnce
<1>8. ASSUME NEW i \in DOMAIN result
      PROVE  L!Whole(sent[result[i].dn], call.names, call.get_value, result[i])
  <2>1. result[i].dn \in 1 .. n
    BY <1>3, <1>5, <1>6 DEF L!EachOnce
  <2> QED
    BY <1>4, <1>6, <2>1 DEF L!Whole
<1> QED
  BY <1>6, <1>7, <1>8 DEF sent, n

(* Reading the attribute an entry has, or has not. *)
LEMMA AttributeRead ==
  ASSUME Asking, Answered, returned, call.fn = "attribute"
  PROVE  /\ result.get.is \in {"value", "unchanged"} /\ (result.get.is = "value" => result.get = result.to)
         /\ result.to # result.optional <=> call.entry = {}
         /\ \A a \in call.entry :
              L!get(a, call.n, call.type).is = "terminates" <=> call.n >= Len(a.values)
<1> DEFINE there == L!attribute_to(call.entry, 1, call.n, call.type)
<1>1. /\ call.entry \in {{}} \cup {{a} : a \in Attributes} /\ call.n \in 0 .. 2
      /\ call.type \in {"bool", "int", "string"}
      /\ result.to = there
      /\ result.optional = L!attribute_to_optional(call.entry, 1, call.n, call.type)
      /\ result.get = L!attribute_get(call.entry, 1, call.n, call.type)
  BY DataKinds, DataEvaluates DEF Answered
<1>2. ASSUME NEW a \in Attributes
      PROVE  /\ L!to(a, call.n, call.type).is \in {"value", "out_of_range", "invalid_argument"}
             /\ L!to(a, call.n, call.type).is = "out_of_range" <=> call.n >= Len(a.values)
             /\ L!get(a, call.n, call.type).is = "terminates" <=> call.n >= Len(a.values)
  <2>1. a.values \in Seq(L!LdapValues)
    BY Bounded DEF Attributes
  <2>2. Len(a.values) \in Nat
    BY <2>1, LenProperties
  <2>3. CASE call.n >= Len(a.values)
    <3>1. L!value(a, call.n) = L!Throws("out_of_range")
      BY <1>1, <2>2, <2>3 DEF L!value
    <3>2. L!to(a, call.n, call.type) = L!Throws("out_of_range")
      BY <1>1, <3>1 DEF L!to, L!Throws
    <3> QED
      BY <2>3, <3>2 DEF L!get, L!Throws
  <2>4. CASE call.n < Len(a.values)
    <3>1. L!value(a, call.n) = L!Value(a.values[call.n + 1])
      BY <1>1, <2>2, <2>4 DEF L!value
    <3>2. L!to(a, call.n, call.type).is \in {"value", "invalid_argument"}
      BY <1>1, <3>1 DEF L!to, L!Throws, L!Value
    <3>3. L!get(a, call.n, call.type).is \in {"value", "unchanged"}
      BY <3>2 DEF L!get, L!Throws
    <3> QED
      BY <1>1, <2>2, <2>4, <3>2, <3>3
  <2> QED
    BY <1>1, <2>2, <2>3, <2>4
<1>3. CASE call.entry = {}
  <2>1. L!count(call.entry, 1) = 0
    <3>1. {x \in call.entry : x.name = 1} = {}
      BY <1>3
    <3> QED
      BY <3>1, FS_EmptySet, Counting DEF L!count
  <2>2. result.to = L!Throws("out_of_range") /\ result.optional = L!Throws("none")
    BY <1>1, <2>1 DEF L!attribute_to, L!attribute_to_optional
  <2>3. result.get = L!Throws("unchanged")
    BY <1>1, <2>2 DEF L!attribute_get, L!Throws
  <2> QED
    BY <1>3, <2>2, <2>3 DEF L!Throws
<1>4. CASE call.entry # {}
  <2>1. PICK a \in Attributes : call.entry = {a}
    BY <1>1, <1>4
  <2>2. L!count(call.entry, 1) = 1
    <3>1. {x \in call.entry : x.name = 1} = {a}
      BY <2>1 DEF Attributes
    <3> QED
      BY <3>1, FS_Singleton, Counting DEF L!count
  <2>3. L!find(call.entry, 1) = a
    BY <2>1 DEF L!find, Attributes
  <2>4. result.to = L!to(a, call.n, call.type) /\ result.optional = L!to(a, call.n, call.type)
    BY <1>1, <2>2, <2>3 DEF L!attribute_to, L!attribute_to_optional
  <2>5. result.get = IF result.to.is = "value" THEN result.to ELSE L!Throws("unchanged")
    BY <1>1 DEF L!attribute_get
  <2> QED
    BY <1>2, <1>4, <2>1, <2>4, <2>5 DEF L!Throws
<1> QED
  BY <1>3, <1>4

(* A caller's changes, and what they make of an entry: the first change of *)
(* every attribute.                                                        *)
FirstOf(changes, i) == \A j \in 1 .. i - 1 : changes[j].name # changes[i].name
Kept(changes) == FlattenSeq([i \in DOMAIN changes |-> IF FirstOf(changes, i) THEN <<changes[i]>> ELSE <<>>])

(* Entries in steps. *)
Inserting(changes) ==
  {h \in [0 .. Len(changes) -> SUBSET Changes] :
     /\ h[0] = {}
     /\ \A k \in 1 .. Len(changes) : h[k] = L!insert(h[k - 1], changes[k])
     /\ FoldLeft(L!insert, {}, changes) = h[Len(changes)]}

LEMMA InsertFold ==
  ASSUME NEW changes \in Seq(Changes)
  PROVE  Inserting(changes) # {}
<1> DEFINE D == Changes
           T == SUBSET D
           base == {}
           f == [z \in T \X D |-> L!insert(z[1], z[2])]
           Body(g) == [s \in SUBSET (DOMAIN changes) |->
                         IF s = {} THEN base ELSE L!insert(g[s \ {Max(s)}], changes[Max(s)])]
           iter == CHOOSE g : g = Body(g)
<1>1. FoldLeft(L!insert, {}, changes) = iter[DOMAIN changes]
  BY DEF FoldLeft, MapThenFoldSet
<1>2. base \in T
  OBVIOUS
<1>3. f \in [T \X D -> T]
  BY DEF L!insert
<1>4. \A s \in T, c \in D : f[<<s, c>>] = L!insert(s, c)
  OBVIOUS
<1> HIDE DEF base, f, D, T
<1>5. changes \in Seq(D)
  BY DEF D
<1>6. PICK g : g \in Folding(T, D, base, f, changes)
  BY <1>2, <1>3, <1>5, Folds
<1>7. g = Body(g)
  <2>1. g \in [SUBSET (DOMAIN changes) -> T] /\ g[{}] = base
    BY <1>6 DEF Folding
  <2>2. \A s \in SUBSET (DOMAIN changes) : s # {} => g[s] = L!insert(g[s \ {Max(s)}], changes[Max(s)])
    BY <1>4, <1>6 DEF Folding
  <2> QED
    BY <2>1, <2>2
<1>8. iter = Body(iter)
  BY <1>7
<1> HIDE DEF iter
<1>9. Recursive(T, base, f, changes, iter)
  <2>1. iter[{}] = base
    BY <1>8
  <2>2. ASSUME NEW s \in SUBSET (DOMAIN changes), s # {}, iter[s \ {Max(s)}] \in T
        PROVE  iter[s] = f[<<iter[s \ {Max(s)}], changes[Max(s)]>>]
    <3>1. changes[Max(s)] \in D
      BY <1>6, <2>2 DEF Folding
    <3>2. iter[s] = L!insert(iter[s \ {Max(s)}], changes[Max(s)])
      BY <1>8, <2>2
    <3> QED
      BY <1>4, <2>2, <3>1, <3>2
  <2> QED
    BY <2>1, <2>2 DEF Recursive
<1>10. PICK h : h \in Stepping(T, D, base, f, changes, iter)
  BY <1>2, <1>3, <1>5, <1>9, FoldSteps
<1>11. h \in Inserting(changes)
  <2>1. \A k \in 1 .. Len(changes) : h[k] = L!insert(h[k - 1], changes[k])
    BY <1>4, <1>10 DEF Stepping
  <2>2. h \in [0 .. Len(changes) -> T] /\ h[0] = base /\ h[Len(changes)] = iter[DOMAIN changes]
    BY <1>10 DEF Stepping
  <2> QED
    BY <1>1, <2>1, <2>2 DEF Inserting, base, T, D
<1> QED
  BY <1>11

(* The entry has the first change of every attribute, and nothing else.    *)
Distinct(kept) == \A i, j \in DOMAIN kept : kept[i].name = kept[j].name => i = j

LEMMA FirstKept ==
  ASSUME NEW changes \in Seq(Changes)
  PROVE  /\ Kept(changes) \in Seq(Changes) /\ Distinct(Kept(changes))
         /\ FoldLeft(L!insert, {}, changes) = {Kept(changes)[i] : i \in DOMAIN Kept(changes)}
<1> DEFINE n == Len(changes)
           seqs == [i \in DOMAIN changes |-> IF FirstOf(changes, i) THEN <<changes[i]>> ELSE <<>>]
<1>1. n \in Nat /\ DOMAIN changes = 1 .. n
  BY LenProperties
<1>2. \A i \in 1 .. n : changes[i] \in Changes
  BY ElementOfSeq
<1>3. seqs \in Seq(Seq(Changes)) /\ Len(seqs) = n
  <2>1. \A i \in 1 .. n : <<changes[i]>> \in Seq(Changes) /\ <<>> \in Seq(Changes)
    BY <1>2
  <2>2. \A i \in 1 .. n : (IF FirstOf(changes, i) THEN <<changes[i]>> ELSE <<>>) \in Seq(Changes)
    BY <2>1
  <2> QED
    BY <1>1, <2>2
<1>3a. \A i \in 1 .. n : seqs[i] = IF FirstOf(changes, i) THEN <<changes[i]>> ELSE <<>>
  BY <1>1
<1>3b. Kept(changes) = FlattenSeq(seqs)
  BY DEF Kept
<1> HIDE DEF seqs
<1>4. PICK h \in [0 .. n -> Seq(Changes)] :
           /\ h[0] = <<>>
           /\ \A k \in 1 .. n : h[k] = h[k - 1] \o seqs[k]
           /\ FlattenSeq(seqs) = h[n]
  <2> HIDE DEF n
  <2>1. \E h \in [0 .. Len(seqs) -> Seq(Changes)] :
           /\ h[0] = <<>>
           /\ \A k \in 1 .. Len(seqs) : h[k] = h[k - 1] \o seqs[k]
           /\ FlattenSeq(seqs) = h[Len(seqs)]
    BY <1>3, Flattened
  <2> QED
    BY <1>3, <2>1
<1>5. PICK g : g \in Inserting(changes)
  BY InsertFold
<1>6. /\ g \in [0 .. n -> SUBSET Changes] /\ g[0] = {}
      /\ \A k \in 1 .. n : g[k] = L!insert(g[k - 1], changes[k])
      /\ FoldLeft(L!insert, {}, changes) = g[n]
  BY <1>5 DEF Inserting
<1> DEFINE Same(k) == /\ Distinct(h[k]) /\ g[k] = {h[k][i] : i \in 1 .. Len(h[k])}
                      /\ \A x : (\E i \in 1 .. Len(h[k]) : h[k][i].name = x) <=>
                                  \E j \in 1 .. k : changes[j].name = x
           K == {k \in Nat : k <= n => Same(k)}
<1>7. 0 \in K
  <2>1. h[0] = <<>> /\ Len(h[0]) = 0 /\ DOMAIN h[0] = {} /\ 1 .. 0 = {}
    BY <1>4
  <2> QED
    BY <1>6, <2>1 DEF Distinct
<1>8. ASSUME NEW k \in Nat, k \in K PROVE k + 1 \in K
  <2> SUFFICES ASSUME k + 1 <= n PROVE Same(k + 1)
    <3> HIDE DEF Same
    <3> QED
      OBVIOUS
  <2> DEFINE q == h[k]
             m == Len(q)
             new == h[k + 1]
             c == changes[k + 1]
  <2>1. k <= n /\ k \in 0 .. n /\ k + 1 \in 1 .. n /\ k + 1 \in 0 .. n /\ (k + 1) - 1 = k
    BY <1>1
  <2>2. Same(k)
    <3> HIDE DEF Same
    <3> QED
      BY <1>8, <2>1
  <2>3. q \in Seq(Changes) /\ new \in Seq(Changes) /\ c \in Changes
    BY <1>2, <1>4, <2>1
  <2>4. m \in Nat /\ DOMAIN q = 1 .. m
    BY <2>3, LenProperties
  <2>5. new = q \o seqs[k + 1] /\ g[k + 1] = L!insert(g[k], c)
    BY <1>4, <1>6, <2>1
  <2>6. seqs[k + 1] = IF FirstOf(changes, k + 1) THEN <<c>> ELSE <<>>
    BY <1>3a, <2>1
  <2>7. FirstOf(changes, k + 1) <=> ~\E j \in 1 .. k : changes[j].name = c.name
    BY <2>1 DEF FirstOf
  <2>7a. (\E y \in g[k] : y.name = c.name) <=> \E i \in 1 .. m : q[i].name = c.name
    BY <2>2
  <2>7b. (\E i \in 1 .. m : q[i].name = c.name) <=> \E j \in 1 .. k : changes[j].name = c.name
    BY <2>2
  <2>8. CASE FirstOf(changes, k + 1)
    <3>1. new = Append(q, c)
      BY <2>3, <2>5, <2>6, <2>8, AppendIsConcat
    <3>2. /\ Len(new) = m + 1 /\ new[m + 1] = c
          /\ \A i \in 1 .. m : new[i] = q[i]
      BY <2>3, <3>1, AppendProperties
    <3>3. g[k + 1] = g[k] \cup {c}
      BY <2>5, <2>7, <2>7a, <2>7b, <2>8 DEF L!insert
    <3>4. DOMAIN new = 1 .. m + 1
      BY <2>3, <3>2, LenProperties
    <3>5. \A i \in 1 .. m + 1 : i = m + 1 \/ i \in 1 .. m
      <4> HIDE DEF m
      <4> QED
        BY <2>4
    <3>6. m + 1 \in 1 .. m + 1 /\ \A i \in 1 .. m : i \in 1 .. m + 1
      BY <2>4
    <3>7. \A i \in 1 .. m : q[i].name # c.name
      BY <2>7, <2>7b, <2>8
    <3>8. /\ Distinct(q) /\ g[k] = {q[i] : i \in 1 .. m}
          /\ \A x : (\E i \in 1 .. m : q[i].name = x) <=> \E j \in 1 .. k : changes[j].name = x
      BY <2>2
    <3> HIDE DEF q, m, new, c, Same
    <3>9. Distinct(new)
      <4>1. \A i, j \in 1 .. m : q[i].name = q[j].name => i = j
        BY <2>4, <3>8 DEF Distinct
      <4>2. ASSUME NEW i \in 1 .. m + 1, NEW j \in 1 .. m + 1, new[i].name = new[j].name PROVE i = j
        BY <3>2, <3>5, <3>7, <4>1, <4>2
      <4> QED
        BY <3>4, <4>2 DEF Distinct
    <3>10. g[k + 1] = {new[i] : i \in 1 .. m + 1}
      <4>1. \A y \in g[k + 1] : \E i \in 1 .. m + 1 : y = new[i]
        BY <3>2, <3>3, <3>6, <3>8
      <4>2. \A i \in 1 .. m + 1 : new[i] \in g[k + 1]
        BY <3>2, <3>3, <3>5, <3>8
      <4> QED
        BY <4>1, <4>2
    <3>11. ASSUME NEW x
           PROVE  (\E i \in 1 .. m + 1 : new[i].name = x) <=> \E j \in 1 .. k + 1 : changes[j].name = x
      <4>1. (\E i \in 1 .. m + 1 : new[i].name = x) <=> (\E i \in 1 .. m : q[i].name = x) \/ c.name = x
        BY <3>2, <3>5, <3>6
      <4>2. (\E j \in 1 .. k + 1 : changes[j].name = x) <=>
              (\E j \in 1 .. k : changes[j].name = x) \/ changes[k + 1].name = x
        <5>1. \A j \in 1 .. k + 1 : j = k + 1 \/ j \in 1 .. k
          BY <2>1
        <5>2. k + 1 \in 1 .. k + 1 /\ \A j \in 1 .. k : j \in 1 .. k + 1
          BY <2>1
        <5> QED
          BY <5>1, <5>2
      <4> QED
        BY <3>8, <4>1, <4>2 DEF c
    <3> QED
      BY <3>2, <3>9, <3>10, <3>11 DEF Same, new
  <2>9. CASE ~FirstOf(changes, k + 1)
    <3>1. new = q
      BY <2>3, <2>5, <2>6, <2>9, ConcatEmptySeq
    <3>2. g[k + 1] = g[k]
      BY <2>5, <2>7, <2>7a, <2>7b, <2>9 DEF L!insert
    <3>3. ASSUME NEW x
          PROVE  (\E j \in 1 .. k : changes[j].name = x) <=> \E j \in 1 .. k + 1 : changes[j].name = x
      <4>1. \A j \in 1 .. k + 1 : j = k + 1 \/ j \in 1 .. k
        BY <2>1
      <4>2. \A j \in 1 .. k : j \in 1 .. k + 1
        BY <2>1
      <4> QED
        BY <2>7, <2>9, <4>1, <4>2
    <3>4. /\ Distinct(q) /\ g[k] = {q[i] : i \in 1 .. m}
          /\ \A x : (\E i \in 1 .. m : q[i].name = x) <=> \E j \in 1 .. k : changes[j].name = x
      BY <2>2
    <3>5. \A x : (\E i \in 1 .. m : q[i].name = x) <=> \E j \in 1 .. k + 1 : changes[j].name = x
      <4> HIDE DEF q, m
      <4> QED
        BY <3>3, <3>4
    <3> HIDE DEF q, new
    <3>6. Distinct(new) /\ g[k + 1] = {new[i] : i \in 1 .. Len(new)}
      BY <3>1, <3>2, <3>4
    <3>7. \A x : (\E i \in 1 .. Len(new) : new[i].name = x) <=> \E j \in 1 .. k + 1 : changes[j].name = x
      BY <3>1, <3>5
    <3> HIDE DEF Same
    <3> QED
      BY <3>6, <3>7 DEF Same, new
  <2> QED
    BY <2>8, <2>9
<1>9. Same(n)
  <2> HIDE DEF Same
  <2>1. n \in K
    <3> HIDE DEF K
    <3> QED
      BY <1>1, <1>7, <1>8, Induction
  <2> QED
    BY <1>1, <2>1
<1>10. h[n] \in Seq(Changes) /\ DOMAIN h[n] = 1 .. Len(h[n])
  BY <1>1, <1>4, LenProperties
<1> QED
  BY SMTT(40), <1>3b, <1>4, <1>6, <1>9, <1>10

(* What the server may hold, and what it makes of one change.              *)
Clean == [L!Names -> SUBSET L!LdapValues]
Holdings == Clean \cup {L!Refused}
Refuses(old, x) ==
  \/ x.operation = "add" /\ L!Range(x.values) \cap old # {}
  \/ x.operation = "remove" /\ x.values # <<>> /\ ~(L!Range(x.values) \subseteq old)
Made(old, x) ==
  CASE x.operation = "add" -> old \cup L!Range(x.values)
    [] x.operation = "replace" -> L!Range(x.values)
    [] x.operation = "remove" -> IF x.values = <<>> THEN {} ELSE old \ L!Range(x.values)

LEMMA ChangeType ==
  ASSUME NEW x \in Changes
  PROVE  /\ x.name \in L!Names /\ x.operation \in {"add", "remove", "replace"}
         /\ L!Range(x.values) \subseteq L!LdapValues
<1>1. x.name \in L!Names /\ x.operation \in {"add", "remove", "replace"}
      /\ x.values \in {<<>>, <<"7">>, <<"word">>}
  BY DEF Changes, L!Operations
<1>2. x.values \in Seq(L!LdapValues)
  <2>1. <<>> \in Seq(L!LdapValues) /\ <<"7">> \in Seq(L!LdapValues) /\ <<"word">> \in Seq(L!LdapValues)
    BY DEF L!LdapValues
  <2> QED
    BY <1>1, <2>1
<1>3. L!Range(x.values) \subseteq L!LdapValues
  <2>1. \A i \in DOMAIN x.values : x.values[i] \in L!LdapValues
    BY <1>2, LenProperties, ElementOfSeq
  <2> QED
    BY <2>1 DEF L!Range
<1> QED
  BY <1>1, <1>3

LEMMA OneModified ==
  ASSUME NEW x \in Changes
  PROVE  /\ L!Modified(L!Refused, x) = L!Refused
         /\ \A held \in Clean :
              /\ held # L!Refused
              /\ Refuses(held[x.name], x) => L!Modified(held, x) = L!Refused
              /\ ~Refuses(held[x.name], x) =>
                   /\ L!Modified(held, x) = [held EXCEPT ![x.name] = Made(held[x.name], x)]
                   /\ L!Modified(held, x) \in Clean
         /\ \A held \in Holdings : L!Modified(held, x) \in Holdings
<1>1. x.name \in L!Names /\ x.operation \in {"add", "remove", "replace"}
      /\ L!Range(x.values) \subseteq L!LdapValues
  BY ChangeType
<1>2. L!Modified(L!Refused, x) = L!Refused
  BY DEF L!Modified
<1>3. ASSUME NEW held \in Clean
      PROVE  /\ held # L!Refused
             /\ Refuses(held[x.name], x) => L!Modified(held, x) = L!Refused
             /\ ~Refuses(held[x.name], x) =>
                  /\ L!Modified(held, x) = [held EXCEPT ![x.name] = Made(held[x.name], x)]
                  /\ L!Modified(held, x) \in Clean
  <2>1. held # L!Refused
    <3>1. "refused" \notin L!LdapValues
      BY DEF L!LdapValues
    <3>2. held[x.name] \in SUBSET L!LdapValues
      BY <1>1 DEF Clean
    <3>3. L!Refused[x.name] = {"refused"}
      BY <1>1 DEF L!Refused
    <3> QED
      BY <3>1, <3>2, <3>3
  <2>2. L!Modified(held, x) =
          CASE x.operation = "add" ->
                 IF L!Range(x.values) \cap held[x.name] # {} THEN L!Refused
                 ELSE [held EXCEPT ![x.name] = held[x.name] \cup L!Range(x.values)]
            [] x.operation = "replace" -> [held EXCEPT ![x.name] = L!Range(x.values)]
            [] x.operation = "remove" ->
                 IF x.values = <<>> THEN [held EXCEPT ![x.name] = {}]
                 ELSE IF L!Range(x.values) \subseteq held[x.name]
                      THEN [held EXCEPT ![x.name] = held[x.name] \ L!Range(x.values)] ELSE L!Refused
    BY <2>1 DEF L!Modified
  <2>3. Refuses(held[x.name], x) => L!Modified(held, x) = L!Refused
    BY <1>1, <2>2 DEF Refuses
  <2>4. ~Refuses(held[x.name], x) =>
           L!Modified(held, x) = [held EXCEPT ![x.name] = Made(held[x.name], x)]
    <3>1. CASE x.operation = "add"
      BY <2>2, <3>1 DEF Refuses, Made
    <3>2. CASE x.operation = "replace"
      BY <2>2, <3>2 DEF Refuses, Made
    <3>3. CASE x.operation = "remove"
      BY <2>2, <3>3 DEF Refuses, Made
    <3> QED
      BY <1>1, <3>1, <3>2, <3>3
  <2>5. Made(held[x.name], x) \in SUBSET L!LdapValues
    <3>1. held[x.name] \in SUBSET L!LdapValues
      BY <1>1 DEF Clean
    <3> QED
      BY <1>1, <3>1 DEF Made
  <2>6. [held EXCEPT ![x.name] = Made(held[x.name], x)] \in Clean
    BY <2>5 DEF Clean
  <2> QED
    BY <2>1, <2>3, <2>4, <2>6
<1>4. ASSUME NEW held \in Holdings PROVE L!Modified(held, x) \in Holdings
  <2>1. CASE held \in Clean
    BY <1>3, <2>1 DEF Holdings
  <2>2. CASE held = L!Refused
    BY <1>2, <2>2 DEF Holdings
  <2> QED
    BY <2>1, <2>2 DEF Holdings
<1> QED
  BY <1>2, <1>3, <1>4

(* Changes of different attributes may change places. *)
LEMMA Commuting ==
  ASSUME NEW held \in Clean, NEW a \in Changes, NEW b \in Changes, a.name # b.name
  PROVE  L!Modified(L!Modified(held, a), b) = L!Modified(L!Modified(held, b), a)
<1>1. a.name \in L!Names /\ b.name \in L!Names
  BY ChangeType
<1> DEFINE ha == [held EXCEPT ![a.name] = Made(held[a.name], a)]
           hb == [held EXCEPT ![b.name] = Made(held[b.name], b)]
<1>2. ha[b.name] = held[b.name] /\ hb[a.name] = held[a.name]
  BY <1>1 DEF Clean
<1>3. [ha EXCEPT ![b.name] = Made(held[b.name], b)] = [hb EXCEPT ![a.name] = Made(held[a.name], a)]
  BY <1>1 DEF Clean
<1>4. Refuses(held[a.name], a) => L!Modified(held, a) = L!Refused
  BY OneModified
<1>5. ~Refuses(held[a.name], a) => L!Modified(held, a) = ha /\ ha \in Clean
  <2> HIDE DEF ha
  <2> QED
    BY OneModified DEF ha
<1>6. Refuses(held[b.name], b) => L!Modified(held, b) = L!Refused
  BY OneModified
<1>7. ~Refuses(held[b.name], b) => L!Modified(held, b) = hb /\ hb \in Clean
  <2> HIDE DEF hb
  <2> QED
    BY OneModified DEF hb
<1> HIDE DEF ha, hb
<1>8. L!Modified(L!Refused, a) = L!Refused /\ L!Modified(L!Refused, b) = L!Refused
  BY OneModified
<1>9. ha \in Clean => /\ Refuses(held[b.name], b) => L!Modified(ha, b) = L!Refused
                      /\ ~Refuses(held[b.name], b) =>
                           L!Modified(ha, b) = [ha EXCEPT ![b.name] = Made(held[b.name], b)]
  BY <1>2, OneModified
<1>10. hb \in Clean => /\ Refuses(held[a.name], a) => L!Modified(hb, a) = L!Refused
                       /\ ~Refuses(held[a.name], a) =>
                            L!Modified(hb, a) = [hb EXCEPT ![a.name] = Made(held[a.name], a)]
  BY <1>2, OneModified
<1> QED
  BY <1>3, <1>4, <1>5, <1>6, <1>7, <1>8, <1>9, <1>10

(* The server's steps, from the first change to the last. *)
LEMMA ModifiedFold ==
  ASSUME NEW held \in Holdings, NEW q \in Seq(Changes)
  PROVE  /\ Len(q) = 0 => L!InTurn(held, q) = held
         /\ Len(q) = 1 => L!InTurn(held, q) = L!Modified(held, q[1])
         /\ Len(q) = 2 => L!InTurn(held, q) = L!Modified(L!Modified(held, q[1]), q[2])
<1> DEFINE D == Changes
           T == Holdings
           n == Len(q)
           f == [z \in T \X D |-> L!Modified(z[1], z[2])]
           Body(g) == [s \in SUBSET (DOMAIN q) |->
                         IF s = {} THEN held ELSE L!Modified(g[s \ {L!Max(s)}], q[L!Max(s)])]
           iter == CHOOSE g : g = Body(g)
<1>1. L!InTurn(held, q) = iter[DOMAIN q]
  BY DEF L!InTurn, L!FoldLeft, L!MapThenFoldSet
<1>2. held \in T
  OBVIOUS
<1>3. f \in [T \X D -> T]
  BY OneModified
<1>4. \A s \in T, c \in D : f[<<s, c>>] = L!Modified(s, c)
  OBVIOUS
<1> HIDE DEF f, D, T
<1>5. q \in Seq(D)
  BY DEF D
<1>5a. \A s : L!Max(s) = Max(s)
  BY DEF L!Max, Max
<1>6. PICK g : g \in Folding(T, D, held, f, q)
  BY <1>2, <1>3, <1>5, Folds
<1>7. g = Body(g)
  <2>1. g \in [SUBSET (DOMAIN q) -> T] /\ g[{}] = held
    BY <1>6 DEF Folding
  <2>2. \A s \in SUBSET (DOMAIN q) : s # {} => g[s] = L!Modified(g[s \ {L!Max(s)}], q[L!Max(s)])
    BY <1>4, <1>5a, <1>6 DEF Folding
  <2> QED
    BY <2>1, <2>2
<1>8. iter = Body(iter)
  BY <1>7
<1> HIDE DEF iter
<1>9. Recursive(T, held, f, q, iter)
  <2>1. iter[{}] = held
    BY <1>8
  <2>2. ASSUME NEW s \in SUBSET (DOMAIN q), s # {}, iter[s \ {Max(s)}] \in T
        PROVE  iter[s] = f[<<iter[s \ {Max(s)}], q[Max(s)]>>]
    <3>1. q[Max(s)] \in D
      BY <1>6, <2>2 DEF Folding
    <3>2. iter[s] = L!Modified(iter[s \ {L!Max(s)}], q[L!Max(s)])
      BY <1>8, <2>2
    <3> QED
      BY <1>4, <1>5a, <2>2, <3>1, <3>2
  <2> QED
    BY <2>1, <2>2 DEF Recursive
<1>10. PICK h : h \in Stepping(T, D, held, f, q, iter)
  BY <1>2, <1>3, <1>5, <1>9, FoldSteps
<1>11. h[0] = held /\ h[n] = iter[DOMAIN q] /\ \A k \in 1 .. n : h[k] = L!Modified(h[k - 1], q[k])
  BY <1>4, <1>10 DEF Stepping
<1> QED
  BY <1>1, <1>11

LEMMA SortedTwo ==
  ASSUME NEW p \in Changes, NEW q \in Changes, p.name = 1, q.name = 2
  PROVE  L!get_mod({p, q}) = <<p, q>>
<1> DEFINE e == {p, q}
           place(x) == L!Cardinality({y \in e : y.name <= x.name})
           at(i) == CHOOSE x \in e : place(x) = i
<1>1. L!Cardinality(e) = 2
  <2>1. Cardinality({p, q}) = 2
    <3>0. q \notin {p}
      OBVIOUS
    <3>1. Cardinality({p}) = 1 /\ IsFiniteSet({p})
      BY FS_Singleton
    <3>2. {p} \cup {q} = {p, q}
      OBVIOUS
    <3> QED
      BY <3>0, <3>1, <3>2, FS_AddElement
  <2> QED
    BY <2>1, Counting
<1>2. place(p) = 1
  <2>1. {y \in e : y.name <= p.name} = {p}
    OBVIOUS
  <2> QED
    BY <2>1, Counting, FS_Singleton
<1>3. place(q) = 2
  <2>1. {y \in e : y.name <= q.name} = e
    OBVIOUS
  <2> QED
    BY <1>1, <2>1
<1> HIDE DEF place
<1>4. at(1) = p /\ at(2) = q
  BY <1>2, <1>3
<1>5. L!get_mod(e) = [i \in 1 .. L!Cardinality(e) |-> at(i)]
  BY DEF L!get_mod, place
<1> HIDE DEF at, e
<1>6. L!get_mod(e) = <<at(1), at(2)>>
  <2>1. L!get_mod(e) = [i \in 1 .. 2 |-> at(i)]
    BY <1>1, <1>5
  <2> QED
    BY <2>1
<1> QED
  BY <1>4, <1>6 DEF e

(* What the caller's entry is, given to the server by name. *)
LEMMA SortedByName ==
  ASSUME NEW kept \in Seq(Changes), Distinct(kept), NEW e, e = {kept[i] : i \in DOMAIN kept}
  PROVE  /\ L!get_mod(e) \in Seq(Changes)
         /\ \/ L!get_mod(e) = kept /\ Len(kept) \in {0, 1, 2}
            \/ Len(kept) = 2 /\ L!get_mod(e) = <<kept[2], kept[1]>>
<1> DEFINE n == Len(kept)
<1>1. n \in Nat /\ DOMAIN kept = 1 .. n
  BY LenProperties
<1>2. \A i \in 1 .. n : kept[i] \in Changes /\ kept[i].name \in {1, 2}
  <2>1. \A i \in 1 .. n : kept[i] \in Changes
    BY ElementOfSeq
  <2> QED
    BY <2>1, ChangeType DEF L!Names
<1>3. \A i, j \in 1 .. n : kept[i].name = kept[j].name => i = j
  BY <1>1 DEF Distinct
<1> HIDE DEF n
<1>4. n \in {0, 1, 2}
  <2> SUFFICES ASSUME n >= 3 PROVE FALSE
    BY <1>1
  <2>1. 1 \in 1 .. n /\ 2 \in 1 .. n /\ 3 \in 1 .. n
    BY <1>1
  <2>2. kept[1].name \in {1, 2} /\ kept[2].name \in {1, 2} /\ kept[3].name \in {1, 2}
    BY <1>2, <2>1
  <2>3. kept[1].name # kept[2].name /\ kept[1].name # kept[3].name /\ kept[2].name # kept[3].name
    BY <1>3, <2>1
  <2> QED
    BY <2>2, <2>3
<1>5. CASE n = 0
  <2>1. e = {} /\ kept = <<>>
    BY <1>1, <1>5, EmptySeq DEF n
  <2>2. L!Cardinality(e) = 0
    BY <2>1, Counting, FS_EmptySet
  <2>3. L!get_mod(e) = <<>>
    <3> DEFINE at(i) == CHOOSE z \in e : L!Cardinality({y \in e : y.name <= z.name}) = i
    <3>1. L!get_mod(e) = [i \in 1 .. 0 |-> at(i)]
      BY <2>2 DEF L!get_mod
    <3> HIDE DEF at
    <3> QED
      BY <3>1
  <2> QED
    BY <1>5, <2>1, <2>3 DEF n
<1>6. CASE n = 1
  <2>1. e = {kept[1]} /\ kept[1] \in Changes
    BY <1>1, <1>2, <1>6
  <2>2. kept = <<kept[1]>>
    <3>1. kept = [i \in 1 .. 1 |-> kept[i]]
      BY <1>1, <1>6
    <3> QED
      BY <3>1
  <2> DEFINE x == kept[1]
  <2>3. L!Cardinality({x}) = 1
    BY Counting, FS_Singleton
  <2> HIDE DEF x
  <2>4. L!get_mod({x}) = <<x>>
    <3> DEFINE at(i) == CHOOSE z \in {x} : L!Cardinality({y \in {x} : y.name <= z.name}) = i
    <3>0. x.name \in {1, 2}
      <4>1. 1 \in 1 .. n
        BY <1>6
      <4> QED
        BY <1>2, <4>1 DEF x
    <3>1. {y \in {x} : y.name <= x.name} = {x}
      BY <3>0
    <3>2. at(1) = x
      BY <2>3, <3>1
    <3>3. L!get_mod({x}) = [i \in 1 .. 1 |-> at(i)]
      BY <2>3 DEF L!get_mod
    <3> HIDE DEF at
    <3> QED
      BY <3>2, <3>3
  <2>5. L!get_mod(e) = kept
    BY <2>1, <2>2, <2>4 DEF x
  <2> QED
    BY <1>6, <2>5 DEF n
<1>7. CASE n = 2
  <2> DEFINE a == kept[1]
             b == kept[2]
  <2>1. a \in Changes /\ b \in Changes /\ a.name \in {1, 2} /\ b.name \in {1, 2} /\ a.name # b.name
    <3>1. 1 \in 1 .. n /\ 2 \in 1 .. n
      BY <1>7
    <3> QED
      BY <1>2, <1>3, <3>1
  <2>2. e = {a, b}
    <3>1. \A i \in DOMAIN kept : i = 1 \/ i = 2
      BY <1>1, <1>7
    <3>2. 1 \in DOMAIN kept /\ 2 \in DOMAIN kept
      BY <1>1, <1>7
    <3> QED
      BY <3>1, <3>2
  <2>3. kept = <<a, b>>
    <3>1. kept = [i \in 1 .. 2 |-> kept[i]]
      BY <1>1, <1>7
    <3> QED
      BY <3>1
  <2> HIDE DEF a, b
  <2>4. CASE a.name = 1
    <3>1. L!get_mod(e) = kept
      BY <2>1, <2>2, <2>3, <2>4, SortedTwo
    <3> QED
      BY <1>7, <3>1 DEF n
  <2>5. CASE a.name = 2
    <3>1. {a, b} = {b, a}
      OBVIOUS
    <3>2. L!get_mod({b, a}) = <<b, a>>
      BY <2>1, <2>5, SortedTwo
    <3>3. L!get_mod(e) = <<b, a>>
      BY <2>2, <3>1, <3>2
    <3>4. <<b, a>> \in Seq(Changes)
      BY <2>1
    <3> QED
      BY <1>7, <3>3, <3>4 DEF n, a, b
  <2> QED
    BY <2>1, <2>4, <2>5
<1> QED
  BY <1>4, <1>5, <1>6, <1>7

(* The entry, modified or added, is what its first changes make of it.     *)
LEMMA Modifying ==
  ASSUME NEW changes \in Seq(Changes), NEW e, e = FoldLeft(L!insert, {}, changes)
  PROVE  L!modify(Held, e) = L!InTurn(Held, Kept(changes))
<1> DEFINE kept == Kept(changes)
           q == L!get_mod(e)
<1>1. kept \in Seq(Changes) /\ Distinct(kept) /\ e = {kept[i] : i \in DOMAIN kept}
  BY FirstKept
<1>2. Held \in Clean /\ Held \in Holdings
  <2>1. {"7"} \in SUBSET L!LdapValues /\ {} \in SUBSET L!LdapValues
    BY DEF L!LdapValues
  <2>2. Held \in [1 .. 2 -> SUBSET L!LdapValues]
    BY <2>1, Pair DEF Held
  <2> QED
    BY <2>2 DEF Clean, Holdings, L!Names
<1> HIDE DEF kept
<1>3. /\ q \in Seq(Changes)
      /\ \/ q = kept /\ Len(kept) \in {0, 1, 2}
         \/ Len(kept) = 2 /\ q = <<kept[2], kept[1]>>
  BY <1>1, SortedByName
<1>4. L!modify(Held, e) = L!InTurn(Held, q)
  BY DEF L!modify, L!InTurn
<1> HIDE DEF q
<1>5. CASE Len(kept) = 2 /\ q = <<kept[2], kept[1]>>
  <2> DEFINE a == kept[1]
             b == kept[2]
  <2>1. a \in Changes /\ b \in Changes /\ a.name # b.name
    <3>1. 1 \in 1 .. Len(kept) /\ 2 \in 1 .. Len(kept)
      BY <1>5
    <3>2. DOMAIN kept = 1 .. Len(kept)
      BY <1>1, LenProperties
    <3> QED
      BY <1>1, <3>1, <3>2, ElementOfSeq DEF Distinct
  <2>2. L!InTurn(Held, kept) = L!Modified(L!Modified(Held, a), b)
    BY <1>1, <1>2, <1>5, ModifiedFold
  <2>3. Len(q) = 2 /\ q[1] = b /\ q[2] = a
    BY <1>5
  <2>4. L!InTurn(Held, q) = L!Modified(L!Modified(Held, b), a)
    BY <1>2, <1>3, <2>3, ModifiedFold
  <2> HIDE DEF a, b
  <2> QED
    BY <1>2, <1>4, <2>1, <2>2, <2>4, Commuting DEF kept
<1> QED
  BY <1>3, <1>4, <1>5 DEF kept

LEMMA Adding ==
  ASSUME NEW changes \in Seq(Changes), NEW e, e = FoldLeft(L!insert, {}, changes), NEW x \in L!Names
  PROVE  \/ L!add(e) = L!Refused
         \/ L!add(e)[x] = UNION {Range(Kept(changes)[i].values) :
                                   i \in {j \in DOMAIN Kept(changes) : Kept(changes)[j].name = x}}
<1> DEFINE kept == Kept(changes)
           q == L!get_mod(e)
           Of(s) == UNION {Range(s[i].values) : i \in {j \in DOMAIN s : s[j].name = x}}
<1>1. kept \in Seq(Changes) /\ Distinct(kept) /\ e = {kept[i] : i \in DOMAIN kept}
  BY FirstKept
<1> HIDE DEF kept
<1>2. \/ q = kept
      \/ Len(kept) = 2 /\ q = <<kept[2], kept[1]>>
  BY <1>1, SortedByName
<1>3. L!add(e) = L!Refused \/ L!add(e) = L!Added(q)
  BY DEF L!add
<1>4. L!Added(q)[x] = Of(q)
  <2> HIDE DEF q
  <2> QED
    BY DEF L!Added, L!Range, Range
<1> HIDE DEF q
<1>5. Of(q) = Of(kept)
  <2>1. CASE Len(kept) = 2 /\ q = <<kept[2], kept[1]>>
    <3>1. DOMAIN kept = {1, 2}
      <4>1. DOMAIN kept = 1 .. 2 /\ 1 .. 2 = {1, 2}
        BY <1>1, <2>1, LenProperties
      <4> QED
        BY <4>1
    <3>2. DOMAIN q = {1, 2} /\ q[1] = kept[2] /\ q[2] = kept[1]
      <4>1. DOMAIN <<kept[2], kept[1]>> = 1 .. 2 /\ 1 .. 2 = {1, 2}
        OBVIOUS
      <4> QED
        BY <2>1, <4>1
    <3> DEFINE Sets(s) == {Range(s[i].values) : i \in {j \in DOMAIN s : s[j].name = x}}
    <3>3. \A r : r \in Sets(q) <=> r \in Sets(kept)
      BY <3>1, <3>2
    <3>4. Sets(q) = Sets(kept)
      <4> HIDE DEF Sets
      <4> QED
        BY <3>3
    <3> QED
      BY <3>4
  <2> QED
    BY <1>2, <2>1
<1> HIDE DEF Of
<1>6. L!add(e) = L!Refused \/ L!add(e)[x] = Of(kept)
  BY <1>3, <1>4, <1>5
<1> QED
  BY <1>6 DEF Of, kept

LEMMA LdapHolds ==
  ASSUME Asking, Answered, returned
  PROVE  LdapFaithful
<1>1. SearchOrdered
  BY Searching
<1>2. ASSUME call.fn \in {"modify", "add"}
      PROVE  IF call.fn = "modify" THEN result = L!InTurn(Held, Kept(call.changes))
             ELSE result = L!Refused \/ \A x \in L!Names :
                    result[x] = UNION {Range(Kept(call.changes)[i].values) :
                                         i \in {j \in DOMAIN Kept(call.changes) : Kept(call.changes)[j].name = x}}
  <2>1. call.changes \in Seq(Changes)
    <3>1. MaxSteps \in Nat /\ call.changes \in BoundedSeq(Changes, MaxSteps)
      BY <1>2, DataKinds, MaxInputAssumption
    <3> QED
      BY <3>1, Bounded
  <2>2. CASE call.fn = "modify"
    <3>1. result = L!modify(Held, FoldLeft(L!insert, {}, call.changes))
      BY <2>2, DataEvaluates DEF Answered
    <3> QED
      BY <2>1, <2>2, <3>1, Modifying
  <2>3. CASE call.fn = "add"
    <3>1. result = L!add(FoldLeft(L!insert, {}, call.changes))
      BY <2>3, DataEvaluates DEF Answered
    <3> DEFINE e == FoldLeft(L!insert, {}, call.changes)
               kept == Kept(call.changes)
    <3>2. ASSUME NEW x \in L!Names
          PROVE  \/ result = L!Refused
                 \/ result[x] = UNION {Range(kept[i].values) : i \in {j \in DOMAIN kept : kept[j].name = x}}
      <4>1. e = FoldLeft(L!insert, {}, call.changes) /\ result = L!add(e)
        BY <3>1
      <4> HIDE DEF e
      <4> QED
        BY <2>1, <4>1, Adding
    <3> HIDE DEF e
    <3> QED
      BY <2>3, <3>2
  <2> QED
    BY <1>2, <2>2, <2>3
<1>3. call.fn = "attribute" =>
         /\ result.get.is \in {"value", "unchanged"} /\ (result.get.is = "value" => result.get = result.to)
         /\ result.to # result.optional <=> call.entry = {}
         /\ \A a \in call.entry :
              L!get(a, call.n, call.type).is = "terminates" <=> call.n >= Len(a.values)
  BY AttributeRead
<1>4. Returned("attribute") =>
         /\ result.get.is \in {"value", "unchanged"} /\ (result.get.is = "value" => result.get = result.to)
         /\ result.to # result.optional <=> call.entry = {}
         /\ \A a \in call.entry :
              L!get(a, call.n, call.type).is = "terminates" <=> call.n >= Len(a.values)
  BY <1>3 DEF Returned
<1>5. Returned("modify") \/ Returned("add") =>
       LET first(i) == \A j \in 1 .. i - 1 : call.changes[j].name # call.changes[i].name
           kept == FlattenSeq([i \in DOMAIN call.changes |->
                                 IF first(i) THEN <<call.changes[i]>> ELSE <<>>])
       IN  IF call.fn = "modify" THEN result = L!InTurn(Held, kept)
           ELSE result = L!Refused \/ \A x \in L!Names :
                  result[x] = UNION {Range(kept[i].values) : i \in {j \in DOMAIN kept : kept[j].name = x}}
  BY <1>2 DEF Returned, Kept, FirstOf
<1> QED
  BY <1>1, <1>4, <1>5 DEF LdapFaithful

----------------------------------------------------------------------------
(* Options: what getopt_long reports and what an object makes of it.      *)

(* Words: what an option is given, and what getopt_long reports. *)
GivenWords == Words \cup {"text"}
Optopts == {"zero", "char", "generated"} \X Int
EventType ==
  [c : {"?", ":", "option"}, o : Nat, arg : GivenWords \cup {None}, optind : Int, optopt : Optopts]
Gotten == [events : Seq(EventType), next : Nat]

(* An option of the object with an argument if it may have one; and what   *)
(* argument i is refused for.                                              *)
Accepted(e) ==
  e.c = "option" /\ e.o \in DOMAIN Opts /\ (Opts[e.o].need = "no" => e.arg = None)
Faulty(args, e) ==
  /\ e.c \in {"?", ":"}
  /\ \E i \in DOMAIN args :
       LET t == args[i] IN
       /\ e.optind = i + 1
       /\ \/ t.is = "unknown" /\ e.optopt = IF t.form = "long" THEN Zero ELSE Unknown
          \/ t.is = "option" /\ t.o \in DOMAIN Opts /\ t.form \in Opts[t.o].names /\ e.optopt = code(t.o)
          \/ t.is = "option" /\ t.form = "short" /\ t.arg # None /\ e.optopt = Unknown

LEMMA OptionKnown ==
  ASSUME NEW o \in DOMAIN Opts
  PROVE  /\ Opts[o].names \in (SUBSET Forms) \ {{}} /\ Opts[o].need \in {"no", "yes", "maybe"}
         /\ Opts[o].vector \in BOOLEAN /\ Opts[o].number \in BOOLEAN /\ o \in Nat /\ o > 0
<1>1. Len(Opts) \in Nat /\ DOMAIN Opts = 1 .. Len(Opts)
  BY OptsAssumption, LenProperties
<1>2. Opts[o] \in [names : (SUBSET Forms) \ {{}}, need : {"no", "yes", "maybe"},
                   vector : BOOLEAN, number : BOOLEAN]
  BY <1>1, OptsAssumption, ElementOfSeq
<1> QED
  BY <1>1, <1>2

(* What an argument of the program may be. *)
LEMMA TokenKnown ==
  ASSUME NEW t \in Tokens
  PROVE  /\ t.is \in {"option", "word", "unknown", "dashes"} /\ t.form \in Forms
         /\ t.arg \in Words \cup {None} /\ (t.is = "word" => t.arg \in Words)
         /\ t.is = "option" => t.o \in DOMAIN Opts /\ t.form \in Opts[t.o].names
         /\ t.o \in Nat
<1>1. CASE \E o \in DOMAIN Opts : \E f \in Opts[o].names, a \in Words \cup {None} : t = Token("option", o, f, a)
  <2>1. PICK o \in DOMAIN Opts : \E f \in Opts[o].names, a \in Words \cup {None} : t = Token("option", o, f, a)
    BY <1>1
  <2>2. PICK f \in Opts[o].names, a \in Words \cup {None} : t = Token("option", o, f, a)
    BY <2>1
  <2>3. f \in Forms /\ o \in Nat
    BY OptionKnown
  <2>4. t.is = "option" /\ t.o = o /\ t.form = f /\ t.arg = a
    BY <2>2 DEF Token
  <2> QED
    BY <2>3, <2>4
<1>2. CASE \E w \in Words : t = Token("word", 0, "short", w)
  BY <1>2 DEF Token, Forms
<1>3. CASE \E f \in Forms : t = Token("unknown", 0, f, None)
  BY <1>3 DEF Token, Forms
<1>4. CASE t = Token("dashes", 0, "long", None)
  BY <1>4 DEF Token, Forms
<1>5. \/ t \in UNION {{Token("option", o, f, a) : f \in Opts[o].names, a \in Words \cup {None}} : o \in DOMAIN Opts}
      \/ t \in {Token("word", 0, "short", w) : w \in Words}
      \/ t \in {Token("unknown", 0, f, None) : f \in Forms}
      \/ t \in {Token("dashes", 0, "long", None)}
  BY DEF Tokens
<1>6. t \in UNION {{Token("option", o, f, a) : f \in Opts[o].names, a \in Words \cup {None}} : o \in DOMAIN Opts}
        => \E o \in DOMAIN Opts : \E f \in Opts[o].names, a \in Words \cup {None} : t = Token("option", o, f, a)
  OBVIOUS
<1> QED
  BY <1>1, <1>2, <1>3, <1>4, <1>5, <1>6

LEMMA CodeKnown ==
  ASSUME NEW o \in DOMAIN Opts
  PROVE  /\ code(o) \in Optopts
         /\ code(o) = IF "short" \in Opts[o].names THEN <<"char", o>> ELSE <<"generated", o>>
         /\ {Zero, Unknown, Initially} \subseteq Optopts
<1>1. o \in Nat
  BY OptionKnown
<1>2. <<"zero", 0>> \in Optopts /\ <<"char", -1>> \in Optopts /\ <<"char", -2>> \in Optopts
  BY DEF Optopts
<1>3. <<"char", o>> \in Optopts /\ <<"generated", o>> \in Optopts
  BY <1>1 DEF Optopts
<1> QED
  BY <1>2, <1>3 DEF code, Generated, Zero, Unknown, Initially

(* One event more, or two. *)
LEMMA OneTwo ==
  ASSUME NEW S, NEW q \in Seq(S), NEW d \in S, NEW e \in S
  PROVE  /\ q \o <<>> = q /\ q \o <<e>> = Append(q, e) /\ Append(q, e) \in Seq(S)
         /\ q \o <<d, e>> = Append(Append(q, d), e) /\ Append(Append(q, d), e) \in Seq(S)
<1>1. q \o <<>> = q
  BY ConcatEmptySeq
<1>2. \A x \in S, p \in Seq(S) : p \o <<x>> = Append(p, x) /\ Append(p, x) \in Seq(S) /\ <<x>> \in Seq(S)
  BY AppendIsConcat
<1>3. <<d, e>> = <<d>> \o <<e>>
  <2>1. <<d>> \in Seq(S) /\ <<e>> \in Seq(S) /\ Len(<<d>>) = 1 /\ Len(<<e>>) = 1 /\ <<d>>[1] = d /\ <<e>>[1] = e
    OBVIOUS
  <2> DEFINE a == <<d>>
             b == <<e>>
  <2> HIDE DEF a, b
  <2>2. a \o b \in Seq(S) /\ Len(a \o b) = Len(a) + Len(b)
        /\ \A i \in 1 .. Len(a) + Len(b) : (a \o b)[i] = IF i <= Len(a) THEN a[i] ELSE b[i - Len(a)]
    BY <2>1, ConcatProperties DEF a, b
  <2>3. Len(a \o b) = 2 /\ (a \o b)[1] = d /\ (a \o b)[2] = e
    <3>1. Len(a) = 1 /\ Len(b) = 1 /\ a[1] = d /\ b[1] = e
      BY <2>1 DEF a, b
    <3> QED
      BY <2>2, <3>1
  <2>4. <<d, e>> \in Seq(S) /\ Len(<<d, e>>) = 2 /\ <<d, e>>[1] = d /\ <<d, e>>[2] = e
    OBVIOUS
  <2> DEFINE x == a \o b
             y == <<d, e>>
  <2> HIDE DEF x, y
  <2>5. x = y
    <3>1. x \in Seq(S) /\ y \in Seq(S) /\ Len(x) = 2 /\ Len(y) = 2 /\ x[1] = d /\ x[2] = e /\ y[1] = d /\ y[2] = e
      BY <2>2, <2>3, <2>4 DEF x, y
    <3>2. \A i \in 1 .. Len(x) : x[i] = y[i]
      BY <3>1
    <3> QED
      BY <3>1, <3>2, SeqEqual
  <2> QED
    BY <2>5 DEF x, y, a, b
<1>4. q \o (<<d>> \o <<e>>) = (q \o <<d>>) \o <<e>>
  BY <1>2, ConcatAssociative
<1> QED
  BY <1>1, <1>2, <1>3, <1>4

Gathered(args, s, r) ==
  \/ r = s
  \/ /\ s.next # 0 /\ r \in Gotten
     /\ \/ r.events = s.events
        \/ \E e \in EventType : Accepted(e) /\ r.events = Append(s.events, e)
        \/ r.next = 0 /\ \E e \in EventType : Faulty(args, e) /\ r.events = Append(s.events, e)
        \/ r.next = 0 /\ \E d, e \in EventType :
             Accepted(d) /\ Faulty(args, e) /\ r.events = Append(Append(s.events, d), e)

LEMMA GetoptGathers ==
  ASSUME NEW args \in Seq(Tokens), NEW i \in 1 .. Len(args), NEW s \in Gotten
  PROVE  Gathered(args, s, Getopt(args, s, i)) /\ Getopt(args, s, i) \in Gotten
<1> DEFINE t == args[i]
           need == IF t.is = "option" THEN Opts[t.o].need ELSE None
           gives(events, next) == [events |-> s.events \o events, next |-> next]
           r == Getopt(args, s, i)
           text == IF args[i + 1].is = "word" THEN args[i + 1].arg ELSE "text"
<1>1. Len(args) \in Nat /\ DOMAIN args = 1 .. Len(args) /\ i \in Nat /\ i > 0 /\ i <= Len(args)
  BY LenProperties
<1>2. t \in Tokens /\ (i + 1 \in 1 .. Len(args) => args[i + 1] \in Tokens)
  BY <1>1, ElementOfSeq
<1>3. /\ t.is \in {"option", "word", "unknown", "dashes"} /\ t.form \in Forms
      /\ t.arg \in Words \cup {None}
      /\ t.is = "option" => t.o \in DOMAIN Opts /\ t.form \in Opts[t.o].names
      /\ t.o \in Nat
  BY <1>2, TokenKnown
<1>4. i # Len(args) => text \in GivenWords
  <2>0. \A m, n \in Nat : m \in 1 .. n /\ m # n => m + 1 \in 1 .. n
    OBVIOUS
  <2>1. i # Len(args) => i + 1 \in 1 .. Len(args)
    BY Zenon, <1>1, <2>0
  <2>2. i + 1 \in 1 .. Len(args) /\ args[i + 1].is = "word" => args[i + 1].arg \in Words
    BY <1>2, TokenKnown
  <2> QED
    BY <2>1, <2>2 DEF GivenWords
<1>5. s.events \in Seq(EventType) /\ s.next \in Nat
  BY DEF Gotten
<1>6. /\ t.is = "dashes" /\ i = s.next => r = gives(<<>>, 0)
      /\ t.is = "word" /\ i = s.next => r = gives(<<>>, i + 1)
      /\ t.is = "unknown" /\ i = s.next =>
           r = gives(<<Event("?", 0, None, i + 1, IF t.form = "long" THEN Zero ELSE Unknown)>>, 0)
      /\ t.is = "option" /\ need = "no" /\ t.arg # None /\ t.form = "long" /\ i = s.next =>
           r = gives(<<Event("?", 0, None, i + 1, code(t.o))>>, 0)
      /\ t.is = "option" /\ need = "no" /\ t.arg # None /\ t.form # "long" /\ i = s.next =>
           r = gives(<<Event("option", t.o, None, i, Zero), Event("?", 0, None, i + 1, Unknown)>>, 0)
      /\ t.is = "option" /\ need = "yes" /\ t.arg = None /\ i = Len(args) /\ i = s.next =>
           r = gives(<<Event(":", 0, None, i + 1, code(t.o))>>, 0)
      /\ t.is = "option" /\ need = "yes" /\ t.arg = None /\ i # Len(args) /\ i = s.next =>
           r = gives(<<Event("option", t.o, text, i + 2, Zero)>>, i + 2)
      /\ t.is = "option" /\ ~(need = "no" /\ t.arg # None) /\ ~(need = "yes" /\ t.arg = None) /\ i = s.next =>
           r = gives(<<Event("option", t.o, t.arg, i + 1, Zero)>>, i + 1)
      /\ i # s.next => r = s
  BY Zenon DEF Getopt
<1>7. {Zero, Unknown} \subseteq Optopts /\ (t.is = "option" => code(t.o) \in Optopts)
  <2>1. \A o \in DOMAIN Opts : code(o) \in Optopts
    BY CodeKnown
  <2>2. {Zero, Unknown} \subseteq Optopts
    BY DEF Zero, Unknown, Optopts
  <2> QED
    BY <1>3, <2>1, <2>2
<1> SUFFICES Gathered(args, s, r) /\ r \in Gotten
  OBVIOUS
<1> HIDE DEF r, gives, text
<1>8. \A events \in Seq(EventType), next \in Nat :
        /\ gives(events, next).events = s.events \o events /\ gives(events, next).next = next
        /\ gives(events, next) \in Gotten
  <2>1. \A events \in Seq(EventType) : s.events \o events \in Seq(EventType)
    BY <1>5, ConcatProperties
  <2> QED
    BY <2>1 DEF gives, Gotten
<1>9. ASSUME NEW e \in EventType, Accepted(e), NEW next \in Nat, r = gives(<<e>>, next), i = s.next
      PROVE  Gathered(args, s, r) /\ r \in Gotten
  <2>1. <<e>> \in Seq(EventType) /\ s.events \o <<e>> = Append(s.events, e)
    BY <1>5, <1>9, OneTwo
  <2>2. r \in Gotten /\ r.events = Append(s.events, e)
    BY <1>8, <1>9, <2>1
  <2> QED
    BY <1>1, <1>9, <2>2 DEF Gathered
<1>10. ASSUME NEW e \in EventType, Faulty(args, e), r = gives(<<e>>, 0), i = s.next
       PROVE  Gathered(args, s, r) /\ r \in Gotten
  <2>1. <<e>> \in Seq(EventType) /\ s.events \o <<e>> = Append(s.events, e)
    BY <1>5, <1>10, OneTwo
  <2>2. r \in Gotten /\ r.events = Append(s.events, e) /\ r.next = 0
    BY <1>8, <1>10, <2>1
  <2> QED
    BY SMTT(40), <1>1, <1>10, <2>2 DEF Gathered
<1>11. ASSUME NEW d \in EventType, NEW e \in EventType, Accepted(d), Faulty(args, e),
              r = gives(<<d, e>>, 0), i = s.next
       PROVE  Gathered(args, s, r) /\ r \in Gotten
  <2>1. <<d, e>> \in Seq(EventType) /\ s.events \o <<d, e>> = Append(Append(s.events, d), e)
    BY SMTT(40), <1>5, <1>11, OneTwo
  <2>2. r \in Gotten /\ r.events = Append(Append(s.events, d), e) /\ r.next = 0
    BY <1>8, <1>11, <2>1
  <2>3. \E x, y \in EventType : Accepted(x) /\ Faulty(args, y) /\ r.events = Append(Append(s.events, x), y)
    BY <1>11, <2>2
  <2>4. s.next # 0
    BY <1>1, <1>11
  <2> QED
    BY <2>2, <2>3, <2>4 DEF Gathered
<1>12. ASSUME NEW next \in Nat, r = gives(<<>>, next), i = s.next
       PROVE  Gathered(args, s, r) /\ r \in Gotten
  <2>1. <<>> \in Seq(EventType) /\ s.events \o <<>> = s.events
    BY <1>5, ConcatEmptySeq
  <2>2. r \in Gotten /\ r.events = s.events
    BY <1>8, <1>12, <2>1
  <2> QED
    BY <1>1, <1>12, <2>2 DEF Gathered
<1>13. ASSUME NEW c \in {"?", ":"}, NEW optopt \in Optopts, NEW next,
              \/ t.is = "unknown" /\ optopt = IF t.form = "long" THEN Zero ELSE Unknown
              \/ t.is = "option" /\ t.o \in DOMAIN Opts /\ t.form \in Opts[t.o].names /\ optopt = code(t.o)
              \/ t.is = "option" /\ t.form = "short" /\ t.arg # None /\ optopt = Unknown
       PROVE  /\ Event(c, 0, None, i + 1, optopt) \in EventType
              /\ Faulty(args, Event(c, 0, None, i + 1, optopt))
  <2> DEFINE e == Event(c, 0, None, i + 1, optopt)
  <2>1. e.c = c /\ e.o = 0 /\ e.arg = None /\ e.optind = i + 1 /\ e.optopt = optopt
    BY DEF Event
  <2>2. e \in EventType
    BY <1>1 DEF EventType, Event, GivenWords
  <2> HIDE DEF e
  <2>3. Faulty(args, e)
    BY <1>1, <1>13, <2>1 DEF Faulty
  <2> QED
    BY <2>2, <2>3 DEF e
<1>14. ASSUME NEW arg \in GivenWords \cup {None}, NEW optind \in Int, t.is = "option",
              Opts[t.o].need = "no" => arg = None
       PROVE  /\ Event("option", t.o, arg, optind, Zero) \in EventType
              /\ Accepted(Event("option", t.o, arg, optind, Zero))
  BY <1>3, <1>7, <1>14 DEF Event, EventType, Accepted
<1>15. CASE i # s.next
  BY <1>6, <1>15 DEF Gathered
<1>16. CASE i = s.next /\ t.is = "dashes"
  BY <1>6, <1>12, <1>16
<1>17. CASE i = s.next /\ t.is = "word"
  BY <1>1, <1>6, <1>12, <1>17
<1>18. CASE i = s.next /\ t.is = "unknown"
  <2> DEFINE e == Event("?", 0, None, i + 1, IF t.form = "long" THEN Zero ELSE Unknown)
  <2>1. e \in EventType /\ Faulty(args, e)
    <3>1. (IF t.form = "long" THEN Zero ELSE Unknown) \in Optopts
      BY <1>7
    <3> QED
      BY <1>13, <1>18, <3>1
  <2> HIDE DEF e
  <2>2. r = gives(<<e>>, 0)
    BY <1>6, <1>18 DEF e
  <2> QED
    BY <1>10, <1>18, <2>1, <2>2
<1>19. CASE i = s.next /\ t.is = "option"
  <2>0. need = Opts[t.o].need /\ t.o \in DOMAIN Opts /\ t.form \in Opts[t.o].names /\ code(t.o) \in Optopts
    BY <1>3, <1>7, <1>19
  <2> HIDE DEF need
  <2>1. CASE need = "no" /\ t.arg # None /\ t.form = "long"
    <3> DEFINE e == Event("?", 0, None, i + 1, code(t.o))
    <3>1. e \in EventType /\ Faulty(args, e)
      BY <1>13, <1>19, <2>0
    <3> HIDE DEF e
    <3>2. r = gives(<<e>>, 0)
      BY <1>6, <1>19, <2>1 DEF e
    <3> QED
      BY <1>10, <1>19, <3>1, <3>2
  <2>2. CASE need = "no" /\ t.arg # None /\ t.form # "long"
    <3> DEFINE d == Event("option", t.o, None, i, Zero)
               e == Event("?", 0, None, i + 1, Unknown)
    <3>0. t.form = "short"
      BY <1>3, <2>2 DEF Forms
    <3>1. d \in EventType /\ Accepted(d)
      <4>1. None \in GivenWords \cup {None} /\ i \in Int /\ (Opts[t.o].need = "no" => None = None)
        BY <1>1
      <4> QED
        BY <1>14, <1>19, <4>1
    <3>2. e \in EventType /\ Faulty(args, e)
      BY <1>7, <1>13, <1>19, <2>2, <3>0
    <3> HIDE DEF d, e
    <3>3. r = gives(<<d, e>>, 0)
      BY <1>6, <1>19, <2>2 DEF d, e
    <3> QED
      BY <1>11, <1>19, <3>1, <3>2, <3>3
  <2>3. CASE need = "yes" /\ t.arg = None /\ i = Len(args)
    <3> DEFINE e == Event(":", 0, None, i + 1, code(t.o))
    <3>1. e \in EventType /\ Faulty(args, e)
      BY <1>13, <1>19, <2>0
    <3> HIDE DEF e
    <3>2. r = gives(<<e>>, 0)
      BY <1>6, <1>19, <2>3 DEF e
    <3> QED
      BY <1>10, <1>19, <3>1, <3>2
  <2>4. CASE need = "yes" /\ t.arg = None /\ i # Len(args)
    <3> DEFINE e == Event("option", t.o, text, i + 2, Zero)
    <3>1. e \in EventType /\ Accepted(e)
      BY <1>1, <1>4, <1>14, <1>19, <2>0, <2>4
    <3> HIDE DEF e
    <3>2. r = gives(<<e>>, i + 2)
      BY <1>6, <1>19, <2>4 DEF e
    <3> QED
      BY <1>1, <1>9, <1>19, <3>1, <3>2
  <2>5. CASE ~(need = "no" /\ t.arg # None) /\ ~(need = "yes" /\ t.arg = None)
    <3> DEFINE e == Event("option", t.o, t.arg, i + 1, Zero)
    <3>1. e \in EventType /\ Accepted(e)
      <4>1. t.arg \in GivenWords \cup {None} /\ (Opts[t.o].need = "no" => t.arg = None)
        BY <1>3, <2>0, <2>5 DEF GivenWords
      <4> QED
        BY SMTT(40), <1>1, <1>14, <1>19, <4>1
    <3> HIDE DEF e
    <3>2. r = gives(<<e>>, i + 1)
      BY <1>6, <1>19, <2>5 DEF e
    <3> QED
      BY <1>1, <1>9, <1>19, <3>1, <3>2
  <2> QED
    BY <2>1, <2>2, <2>3, <2>4, <2>5
<1> QED
  BY <1>3, <1>15, <1>16, <1>17, <1>18, <1>19

(* getopt_long in steps, an argument each. *)
Gathering(args) ==
  {h \in [0 .. Len(args) -> Gotten] :
     /\ h[0] = [events |-> <<>>, next |-> 1]
     /\ \A k \in 1 .. Len(args) : h[k] = Getopt(args, h[k - 1], k)
     /\ Events(args) = h[Len(args)].events}

LEMMA EventsFold ==
  ASSUME NEW args \in Seq(Tokens)
  PROVE  Gathering(args) # {}
<1> DEFINE D == 1 .. Len(args)
           T == Gotten
           base == [events |-> <<>>, next |-> 1]
           q == [i \in DOMAIN args |-> i]
           f == [z \in T \X D |-> Getopt(args, z[1], z[2])]
           Body(g) == [s \in SUBSET (DOMAIN q) |->
                         IF s = {} THEN base ELSE Getopt(args, g[s \ {Max(s)}], q[Max(s)])]
           iter == CHOOSE g : g = Body(g)
<1>0. Len(args) \in Nat /\ DOMAIN args = 1 .. Len(args)
  BY LenProperties
<1>1. Events(args) = iter[DOMAIN q].events
  BY DEF Events, FoldLeft, MapThenFoldSet
<1>2. base \in T
  BY DEF Gotten
<1>3. \A s \in T, i \in D : Getopt(args, s, i) \in T
  BY GetoptGathers
<1>4. q \in Seq(D)
  BY <1>0
<1>5. Len(q) = Len(args) /\ DOMAIN q = 1 .. Len(args) /\ \A k \in 1 .. Len(args) : q[k] = k
  BY <1>0
<1> HIDE DEF base, D, T, q
<1>6. f \in [T \X D -> T]
  BY <1>3
<1>6a. \A s \in T, i \in D : f[<<s, i>>] = Getopt(args, s, i)
  OBVIOUS
<1> HIDE DEF f
<1>7. PICK g : g \in Folding(T, D, base, f, q)
  BY <1>2, <1>4, <1>6, Folds
<1>8. g = Body(g)
  <2>1. g \in [SUBSET (DOMAIN q) -> T] /\ g[{}] = base
    BY <1>7 DEF Folding
  <2>2. \A s \in SUBSET (DOMAIN q) : s # {} => g[s] = Getopt(args, g[s \ {Max(s)}], q[Max(s)])
    BY <1>6a, <1>7 DEF Folding
  <2> QED
    BY <2>1, <2>2
<1>9. iter = Body(iter)
  BY <1>8
<1> HIDE DEF iter
<1>10. Recursive(T, base, f, q, iter)
  <2>1. iter[{}] = base
    BY <1>9
  <2>2. ASSUME NEW s \in SUBSET (DOMAIN q), s # {}, iter[s \ {Max(s)}] \in T
        PROVE  iter[s] = f[<<iter[s \ {Max(s)}], q[Max(s)]>>]
    <3>1. q[Max(s)] \in D
      BY <1>7, <2>2 DEF Folding
    <3>2. iter[s] = Getopt(args, iter[s \ {Max(s)}], q[Max(s)])
      BY <1>9, <2>2
    <3> QED
      BY <1>6a, <2>2, <3>1, <3>2
  <2> QED
    BY <2>1, <2>2 DEF Recursive
<1>11. PICK h : h \in Stepping(T, D, base, f, q, iter)
  BY <1>2, <1>4, <1>6, <1>10, FoldSteps
<1>12. h \in Gathering(args)
  <2>1. \A k \in 1 .. Len(q) : h[k] = Getopt(args, h[k - 1], q[k])
    BY <1>6a, <1>11 DEF Stepping
  <2>2. h \in [0 .. Len(q) -> T] /\ h[0] = base /\ h[Len(q)] = iter[DOMAIN q]
    BY <1>11 DEF Stepping
  <2>3. \A k \in 1 .. Len(args) : h[k] = Getopt(args, h[k - 1], k)
    BY <1>5, <2>1
  <2> QED
    BY <1>1, <1>5, <2>2, <2>3 DEF Gathering, base, T
<1> QED
  BY <1>12

(* Every event is an option that was taken, but the last one may be a fault. *)
Sound(args, given) ==
  /\ given \in Seq(EventType)
  /\ \A k \in 1 .. Len(given) : Accepted(given[k]) \/ (k = Len(given) /\ Faulty(args, given[k]))

LEMMA EventsSound ==
  ASSUME NEW args \in Seq(Tokens)
  PROVE  Sound(args, Events(args))
<1> DEFINE n == Len(args)
<1>1. n \in Nat
  BY LenProperties
<1>2. PICK h : h \in Gathering(args)
  BY EventsFold
<1>3. /\ h \in [0 .. n -> Gotten] /\ h[0] = [events |-> <<>>, next |-> 1]
      /\ \A k \in 1 .. n : h[k] = Getopt(args, h[k - 1], k)
      /\ Events(args) = h[n].events
  BY <1>2 DEF Gathering
<1> DEFINE Fine(s) == /\ Sound(args, s.events)
                      /\ s.next # 0 => \A k \in 1 .. Len(s.events) : Accepted(s.events[k])
           K == {k \in Nat : k <= n => Fine(h[k])}
<1>4. 0 \in K
  <2>1. h[0].events = <<>> /\ Len(<<>>) = 0 /\ 1 .. 0 = {} /\ <<>> \in Seq(EventType)
    BY <1>3
  <2> QED
    BY <2>1 DEF Sound
<1>5. ASSUME NEW s \in Gotten, NEW r, Gathered(args, s, r), Fine(s)
      PROVE  Fine(r)
  <2> DEFINE q == s.events
             l == Len(s.events)
  <2>1. q \in Seq(EventType) /\ l \in Nat /\ l = Len(q)
    BY LenProperties DEF Gotten
  <2>2. CASE r = s
    BY <1>5, <2>2
  <2>3. CASE r # s
    <3>1. s.next # 0 /\ \A k \in 1 .. l : Accepted(q[k])
      BY <1>5, <2>3 DEF Gathered
    <3>2. CASE r.events = q
      BY <1>5, <2>1, <3>1, <3>2
    <3>3. ASSUME NEW e \in EventType, r.events = Append(q, e), Accepted(e) \/ (r.next = 0 /\ Faulty(args, e))
          PROVE  Fine(r)
      <4> HIDE DEF q, l
      <4>1. Append(q, e) \in Seq(EventType) /\ Len(Append(q, e)) = l + 1 /\ Append(q, e)[l + 1] = e
            /\ \A k \in 1 .. l : Append(q, e)[k] = q[k]
        BY <2>1, AppendProperties
      <4>2. \A k \in 1 .. l + 1 : k = l + 1 \/ k \in 1 .. l
        BY <2>1
      <4>3. Sound(args, r.events)
        BY <3>1, <3>3, <4>1, <4>2 DEF Sound
      <4>4. r.next # 0 => \A k \in 1 .. Len(r.events) : Accepted(r.events[k])
        BY <3>1, <3>3, <4>1, <4>2
      <4> QED
        BY <4>3, <4>4
    <3>4. ASSUME NEW d \in EventType, NEW e \in EventType, r.events = Append(Append(q, d), e), r.next = 0,
                 Accepted(d), Faulty(args, e)
          PROVE  Fine(r)
      <4> DEFINE p == Append(q, d)
      <4> HIDE DEF q, l
      <4>1. p \in Seq(EventType) /\ Len(p) = l + 1 /\ p[l + 1] = d /\ \A k \in 1 .. l : p[k] = q[k]
        BY <2>1, AppendProperties
      <4> HIDE DEF p
      <4>2. Append(p, e) \in Seq(EventType) /\ Len(Append(p, e)) = l + 2 /\ Append(p, e)[l + 2] = e
            /\ \A k \in 1 .. l + 1 : Append(p, e)[k] = p[k]
        <5>1. /\ Append(p, e) \in Seq(EventType) /\ Len(Append(p, e)) = Len(p) + 1 /\ Append(p, e)[Len(p) + 1] = e
              /\ \A k \in 1 .. Len(p) : Append(p, e)[k] = p[k]
          BY <4>1, AppendProperties
        <5>2. (l + 1) + 1 = l + 2
          BY <2>1
        <5> QED
          BY <4>1, <5>1, <5>2
      <4>3. \A k \in 1 .. l + 2 : k = l + 2 \/ (k = l + 1 /\ k \in 1 .. l + 1) \/ (k \in 1 .. l /\ k \in 1 .. l + 1)
        BY <2>1
      <4>4. r.events = Append(p, e)
        BY <3>4 DEF p
      <4>5. Sound(args, r.events)
        BY <3>1, <3>4, <4>1, <4>2, <4>3, <4>4 DEF Sound
      <4> QED
        BY <3>4, <4>5
    <3> HIDE DEF Fine
    <3> QED
      BY <1>5, <2>3, <3>2, <3>3, <3>4 DEF Gathered
  <2> QED
    BY <2>2, <2>3
<1>6. ASSUME NEW k \in Nat, k \in K PROVE k + 1 \in K
  <2> SUFFICES ASSUME k + 1 <= n PROVE Fine(h[k + 1])
    <3> HIDE DEF Fine
    <3> QED
      OBVIOUS
  <2> HIDE DEF Fine
  <2>1. k \in 0 .. n /\ k + 1 \in 1 .. n /\ (k + 1) - 1 = k /\ k <= n
    BY <1>1
  <2>2. h[k] \in Gotten /\ h[k + 1] = Getopt(args, h[k], k + 1) /\ Fine(h[k])
    BY <1>3, <1>6, <2>1
  <2>3. Gathered(args, h[k], h[k + 1])
    BY <2>1, <2>2, GetoptGathers
  <2> QED
    BY <1>5, <2>2, <2>3
<1> HIDE DEF K
<1>7. n \in K
  BY <1>1, <1>4, <1>6, Induction
<1> QED
  BY <1>1, <1>3, <1>7 DEF K

Complaints == {"Duplicate option", "Conversion failed", "Invalid option", "Missing argument"}
Parsers ==
  [count : [DOMAIN Opts -> Nat], have : [DOMAIN Opts -> BOOLEAN], values : [DOMAIN Opts -> Seq(GivenWords)],
   threw : Complaints \cup {None}, optopt : Optopts,
   names : {"zero", "char", "generated", "argument"} \X Int, index : Int]
Reported == {e \in EventType : Accepted(e) \/ e.c \in {"?", ":"}}

(* What the message of an error names. *)
Blamed(optopt, optind) == IF optopt[1] = "char" THEN optopt ELSE <<"argument", optind - 1>>

(* An object after an event. *)
Complains(s, r, what, count, optopt, optind) ==
  r.threw = what /\ r.count = count /\ r.values = s.values /\ r.have = s.have /\ r.names = Blamed(optopt, optind)
CountsUp(s, r, o) ==
  r.threw = s.threw /\ r.optopt = s.optopt /\ r.count = [s.count EXCEPT ![o] = s.count[o] + 1]
SteppedTo(s, r, e) ==
  CASE s.threw # None -> r = s
    [] s.threw = None /\ e.c \in {"?", ":"} ->
         \E what \in {"Invalid option", "Missing argument"} : Complains(s, r, what, s.count, e.optopt, e.optind)
    [] s.threw = None /\ e.c = "option" /\ single(e.o) /\ s.count[e.o] > 0 ->
         Complains(s, r, "Duplicate option", s.count, s.optopt, e.optind)
    [] s.threw = None /\ e.c = "option" /\ ~(single(e.o) /\ s.count[e.o] > 0) /\ e.arg = None ->
         CountsUp(s, r, e.o) /\ r.values = s.values /\ r.have = s.have
    [] s.threw = None /\ e.c = "option" /\ ~(single(e.o) /\ s.count[e.o] > 0) /\ e.arg # None /\ ~converts(e.o, e.arg) ->
         Complains(s, r, "Conversion failed", [s.count EXCEPT ![e.o] = s.count[e.o] + 1], s.optopt, e.optind)
    [] s.threw = None /\ e.c = "option" /\ ~(single(e.o) /\ s.count[e.o] > 0) /\ e.arg # None /\ converts(e.o, e.arg) ->
         /\ CountsUp(s, r, e.o) /\ r.values = [s.values EXCEPT ![e.o] = Append(s.values[e.o], e.arg)]
         /\ r.have = [s.have EXCEPT ![e.o] = TRUE]

LEMMA ThrownIs ==
  ASSUME NEW s \in Parsers, NEW what \in Complaints, NEW optind \in Int
  PROVE  /\ Thrown(s, what, optind) \in Parsers
         /\ Complains(s, Thrown(s, what, optind), what, s.count, s.optopt, optind)
<1> DEFINE r == Thrown(s, what, optind)
           index == IF s.optopt[1] = "char" THEN optind ELSE optind - 1
<1>1. s.optopt \in {"zero", "char", "generated"} \X Int
  BY DEF Parsers, Optopts
<1>2. index \in Int
  OBVIOUS
<1>3. Blamed(s.optopt, optind) \in {"zero", "char", "generated", "argument"} \X Int
  <2>1. s.optopt \in {"zero", "char", "generated", "argument"} \X Int
    BY <1>1
  <2>2. <<"argument", optind - 1>> \in {"zero", "char", "generated", "argument"} \X Int
    OBVIOUS
  <2> QED
    BY <2>1, <2>2 DEF Blamed
<1>4. r = [s EXCEPT !.threw = what, !.index = index, !.names = Blamed(s.optopt, optind)]
  BY DEF Thrown, Blamed
<1> HIDE DEF r, index
<1>5. r \in Parsers
  BY <1>2, <1>3, <1>4 DEF Parsers
<1>6. r.threw = what /\ r.count = s.count /\ r.values = s.values /\ r.have = s.have
      /\ r.names = Blamed(s.optopt, optind)
  BY <1>4 DEF Parsers
<1> QED
  BY <1>5, <1>6 DEF Complains, r

LEMMA StepIs ==
  ASSUME NEW s \in Parsers, NEW e \in Reported
  PROVE  Step(s, e) \in Parsers /\ SteppedTo(s, Step(s, e), e)
<1> DEFINE r == Step(s, e)
<1> SUFFICES r \in Parsers /\ SteppedTo(s, r, e)
  OBVIOUS
<1>1. e \in EventType /\ e.optind \in Int /\ e.optopt \in Optopts /\ e.arg \in GivenWords \cup {None}
      /\ e.c \in {"?", ":", "option"}
      /\ (e.c = "option" => e.o \in DOMAIN Opts /\ (Opts[e.o].need = "no" => e.arg = None))
  BY DEF Reported, EventType, Accepted
<1>2. CASE s.threw # None
  BY <1>2 DEF Step, SteppedTo
<1>3. ASSUME s.threw = None, NEW what \in {"Invalid option", "Missing argument"}, e.c # "option",
             r = Thrown([s EXCEPT !.optopt = e.optopt], what, e.optind)
      PROVE  r \in Parsers /\ SteppedTo(s, r, e)
  <2> DEFINE t == [s EXCEPT !.optopt = e.optopt]
  <2>1. t \in Parsers /\ t.count = s.count /\ t.values = s.values /\ t.have = s.have /\ t.optopt = e.optopt
    BY Zenon, <1>1 DEF Parsers
  <2>2. what \in Complaints
    BY Zenon DEF Complaints
  <2>2a. r = Thrown(t, what, e.optind)
    BY Zenon, <1>3
  <2> HIDE DEF t, r
  <2>3. r \in Parsers /\ Complains(t, r, what, t.count, t.optopt, e.optind)
    BY Zenon, <1>1, <2>1, <2>2, <2>2a, ThrownIs
  <2>4. Complains(s, r, what, s.count, e.optopt, e.optind)
    BY Zenon, <2>1, <2>3 DEF Complains
  <2> QED
    BY Zenon, <1>1, <1>3, <2>3, <2>4 DEF SteppedTo
<1>4. CASE s.threw = None /\ e.c # "option"
  <2>1. \/ r = Thrown([s EXCEPT !.optopt = e.optopt], "Invalid option", e.optind)
        \/ r = Thrown([s EXCEPT !.optopt = e.optopt], "Missing argument", e.optind)
    BY Zenon, <1>1, <1>4 DEF Step
  <2> HIDE DEF r
  <2> QED
    BY Zenon, <1>3, <1>4, <2>1
<1>5. CASE s.threw = None /\ e.c = "option"
  <2> DEFINE o == e.o
             counted == [s EXCEPT !.count[o] = @ + 1]
  <2>1. r = Take(s, e.o, e.arg, e.optind)
    BY <1>5 DEF Step
  <2>2. o \in DOMAIN Opts /\ (Opts[o].need = "no" => e.arg = None)
    BY <1>1, <1>5
  <2>3. /\ counted \in Parsers /\ counted.count = [s.count EXCEPT ![o] = s.count[o] + 1]
        /\ counted.values = s.values /\ counted.have = s.have
        /\ counted.optopt = s.optopt /\ counted.threw = s.threw
    <3> DEFINE c == [s.count EXCEPT ![o] = s.count[o] + 1]
    <3>1. s.count \in [DOMAIN Opts -> Nat]
      BY DEF Parsers
    <3>2. c \in [DOMAIN Opts -> Nat]
      <4>1. s.count[o] + 1 \in Nat
        BY <2>2, <3>1
      <4> HIDE DEF o
      <4> QED
        BY <3>1, <4>1
    <3>3. counted = [s EXCEPT !.count = c]
      OBVIOUS
    <3> HIDE DEF c, counted, o
    <3> QED
      BY <3>2, <3>3 DEF Parsers, c
  <2>4. r = IF single(o) /\ s.count[o] > 0 THEN Thrown(s, "Duplicate option", e.optind) ELSE
            IF Opts[o].need = "no" \/ e.arg = None THEN counted ELSE
            IF ~converts(o, e.arg) THEN Thrown(counted, "Conversion failed", e.optind) ELSE
              [counted EXCEPT !.values[o] = Append(@, e.arg), !.have[o] = TRUE]
    BY Zenon, <2>1 DEF Take
  <2>4a. {"Duplicate option", "Conversion failed"} \subseteq Complaints
    BY DEF Complaints
  <2>5. CASE single(o) /\ s.count[o] > 0
    <3>1. r = Thrown(s, "Duplicate option", e.optind)
      BY Zenon, <2>4, <2>5
    <3> HIDE DEF r
    <3>2. r \in Parsers /\ Complains(s, r, "Duplicate option", s.count, s.optopt, e.optind)
      BY Zenon, <1>1, <2>4a, <3>1, ThrownIs
    <3> QED
      BY Zenon, <1>5, <2>5, <3>2 DEF SteppedTo
  <2>6. CASE ~(single(o) /\ s.count[o] > 0) /\ e.arg = None
    <3>1. r = counted
      BY Zenon, <2>4, <2>6
    <3> HIDE DEF r, counted
    <3>2. CountsUp(s, r, e.o) /\ r.values = s.values /\ r.have = s.have
      BY <2>3, <3>1 DEF CountsUp
    <3> QED
      BY Zenon, <1>5, <2>3, <2>6, <3>1, <3>2 DEF SteppedTo
  <2>7. CASE ~(single(o) /\ s.count[o] > 0) /\ e.arg # None /\ ~converts(o, e.arg)
    <3>1. r = Thrown(counted, "Conversion failed", e.optind)
      BY Zenon, <2>2, <2>4, <2>7
    <3> HIDE DEF r, counted
    <3>2. r \in Parsers /\ Complains(counted, r, "Conversion failed", counted.count, counted.optopt, e.optind)
      BY Zenon, <1>1, <2>3, <2>4a, <3>1, ThrownIs
    <3>3. Complains(s, r, "Conversion failed", [s.count EXCEPT ![o] = s.count[o] + 1], s.optopt, e.optind)
      BY Zenon, <2>3, <3>2 DEF Complains
    <3> QED
      BY Zenon, <1>5, <2>7, <3>2, <3>3 DEF SteppedTo
  <2>8. CASE ~(single(o) /\ s.count[o] > 0) /\ e.arg # None /\ converts(o, e.arg)
    <3>1. r = [counted EXCEPT !.values[o] = Append(@, e.arg), !.have[o] = TRUE]
      BY Zenon, <2>2, <2>4, <2>8
    <3>2. e.arg \in GivenWords
      BY <1>1, <2>8
    <3> HIDE DEF r, counted
    <3>3. counted.values[o] \in Seq(GivenWords) /\ Append(counted.values[o], e.arg) \in Seq(GivenWords)
      <4>1. counted.values[o] \in Seq(GivenWords)
        BY <2>2, <2>3 DEF Parsers
      <4> QED
        BY <3>2, <4>1, AppendProperties
    <3>4. /\ r.values = [counted.values EXCEPT ![o] = Append(counted.values[o], e.arg)]
          /\ r.have = [counted.have EXCEPT ![o] = TRUE]
          /\ r.count = counted.count /\ r.optopt = counted.optopt /\ r.threw = counted.threw
          /\ r.names = counted.names /\ r.index = counted.index
      BY <2>3, <3>1 DEF Parsers
    <3>5. r \in Parsers
      <4>1. r.values \in [DOMAIN Opts -> Seq(GivenWords)] /\ r.have \in [DOMAIN Opts -> BOOLEAN]
        BY <2>2, <2>3, <3>3, <3>4 DEF Parsers
      <4>2. r = [count |-> r.count, have |-> r.have, values |-> r.values, threw |-> r.threw,
                 optopt |-> r.optopt, names |-> r.names, index |-> r.index]
        BY <2>3, <3>1 DEF Parsers
      <4> QED
        BY <2>3, <3>4, <4>1, <4>2 DEF Parsers
    <3>6. CountsUp(s, r, e.o)
      BY <2>3, <3>4 DEF CountsUp
    <3> QED
      BY Zenon, <1>5, <2>3, <2>8, <3>4, <3>5, <3>6 DEF SteppedTo
  <2> QED
    BY <2>5, <2>6, <2>7, <2>8
<1> QED
  BY <1>2, <1>4, <1>5

(* parse() in steps, an event each. *)
Parsing(s0, given) ==
  {h \in [0 .. Len(given) -> Parsers] :
     /\ h[0] = s0
     /\ \A k \in 1 .. Len(given) : h[k] = Step(h[k - 1], given[k])
     /\ FoldLeft(Step, s0, given) = h[Len(given)]}

LEMMA ParsingFold ==
  ASSUME NEW s0 \in Parsers, NEW given \in Seq(Reported)
  PROVE  Parsing(s0, given) # {}
<1> DEFINE D == Reported
           T == Parsers
           base == s0
           f == [z \in T \X D |-> Step(z[1], z[2])]
           Body(g) == [s \in SUBSET (DOMAIN given) |->
                         IF s = {} THEN base ELSE Step(g[s \ {Max(s)}], given[Max(s)])]
           iter == CHOOSE g : g = Body(g)
<1>1. FoldLeft(Step, s0, given) = iter[DOMAIN given]
  BY DEF FoldLeft, MapThenFoldSet
<1>2. base \in T
  OBVIOUS
<1>3. \A s \in T, e \in D : Step(s, e) \in T
  BY StepIs
<1>5. given \in Seq(D)
  OBVIOUS
<1> HIDE DEF base, D, T
<1>6. f \in [T \X D -> T]
  BY <1>3
<1>6a. \A s \in T, e \in D : f[<<s, e>>] = Step(s, e)
  OBVIOUS
<1> HIDE DEF f
<1>7. PICK g : g \in Folding(T, D, base, f, given)
  BY <1>2, <1>5, <1>6, Folds
<1>8. g = Body(g)
  <2>1. g \in [SUBSET (DOMAIN given) -> T] /\ g[{}] = base
    BY <1>7 DEF Folding
  <2>2. \A s \in SUBSET (DOMAIN given) : s # {} => g[s] = Step(g[s \ {Max(s)}], given[Max(s)])
    BY <1>6a, <1>7 DEF Folding
  <2> QED
    BY <2>1, <2>2
<1>9. iter = Body(iter)
  BY <1>8
<1> HIDE DEF iter
<1>10. Recursive(T, base, f, given, iter)
  <2>1. iter[{}] = base
    BY <1>9
  <2>2. ASSUME NEW s \in SUBSET (DOMAIN given), s # {}, iter[s \ {Max(s)}] \in T
        PROVE  iter[s] = f[<<iter[s \ {Max(s)}], given[Max(s)]>>]
    <3>1. given[Max(s)] \in D
      BY <1>7, <2>2 DEF Folding
    <3>2. iter[s] = Step(iter[s \ {Max(s)}], given[Max(s)])
      BY <1>9, <2>2
    <3> QED
      BY <1>6a, <2>2, <3>1, <3>2
  <2> QED
    BY <2>1, <2>2 DEF Recursive
<1>11. PICK h : h \in Stepping(T, D, base, f, given, iter)
  BY <1>2, <1>5, <1>6, <1>10, FoldSteps
<1>12. h \in Parsing(s0, given)
  <2>1. \A k \in 1 .. Len(given) : h[k] = Step(h[k - 1], given[k])
    BY <1>6a, <1>11 DEF Stepping
  <2>2. h \in [0 .. Len(given) -> T] /\ h[0] = base /\ h[Len(given)] = iter[DOMAIN given]
    BY <1>11 DEF Stepping
  <2> QED
    BY <1>1, <2>1, <2>2 DEF Parsing, base, T
<1> QED
  BY <1>12

(* How often an option was given, and with what, one event further. *)
LEMMA TimesStep ==
  ASSUME NEW given, NEW k \in Nat, NEW o
  PROVE  /\ Times(given, 0, o) = 0 /\ Times(given, k, o) \in Nat
         /\ Times(given, k + 1, o) = IF Gives(given[k + 1], o) THEN Times(given, k, o) + 1 ELSE Times(given, k, o)
         /\ Times(given, k, o) > 0 <=> \E i \in 1 .. k : Gives(given[i], o)
<1> DEFINE M(m) == {i \in 1 .. m : Gives(given[i], o)}
<1>1. \A m : Times(given, m, o) = Cardinality(M(m))
  BY DEF Times
<1>2. IsFiniteSet(M(k))
  <2>1. M(k) \subseteq 1 .. k
    OBVIOUS
  <2>2. IsFiniteSet(1 .. k)
    BY FS_Interval
  <2> QED
    BY <2>1, <2>2, FS_Subset
<1>3. M(0) = {}
  OBVIOUS
<1>4. M(k + 1) = IF Gives(given[k + 1], o) THEN M(k) \cup {k + 1} ELSE M(k)
  <2>1. 1 .. k + 1 = (1 .. k) \cup {k + 1}
    OBVIOUS
  <2> QED
    BY <2>1
<1>5. k + 1 \notin M(k)
  OBVIOUS
<1>5a. M(k) # {} <=> \E i \in 1 .. k : Gives(given[i], o)
  OBVIOUS
<1> HIDE DEF M
<1>6. Cardinality(M(0)) = 0
  BY <1>3, FS_EmptySet
<1>7. Cardinality(M(k)) \in Nat /\ (Cardinality(M(k)) = 0 <=> M(k) = {})
  BY <1>2, FS_CardinalityType, FS_EmptySet
<1>8. Cardinality(M(k) \cup {k + 1}) = Cardinality(M(k)) + 1
  BY <1>2, <1>5, FS_AddElement
<1> QED
  BY <1>1, <1>4, <1>5a, <1>6, <1>7, <1>8

LEMMA ArgsStep ==
  ASSUME NEW given \in Seq(EventType), NEW k \in 0 .. Len(given) - 1, NEW o
  PROVE  /\ Args(given, 0, o) = <<>> /\ Args(given, k, o) \in Seq(GivenWords)
         /\ Args(given, k + 1, o) = IF Gives(given[k + 1], o) /\ given[k + 1].arg # None
                                    THEN Append(Args(given, k, o), given[k + 1].arg) ELSE Args(given, k, o)
<1> DEFINE x(i) == IF Gives(given[i], o) /\ given[i].arg # None THEN <<given[i].arg>> ELSE <<>>
           q(m) == [i \in 1 .. m |-> x(i)]
<1>1. \A m : Args(given, m, o) = FlattenSeq(q(m))
  BY DEF Args
<1>2. \A i \in 1 .. Len(given) : x(i) \in Seq(GivenWords)
  <2> SUFFICES ASSUME NEW i \in 1 .. Len(given) PROVE x(i) \in Seq(GivenWords)
    OBVIOUS
  <2>1. given[i].arg \in GivenWords \cup {None}
    <3>1. given[i] \in EventType
      BY ElementOfSeq
    <3> QED
      BY <3>1 DEF EventType
  <2> QED
    BY <2>1
<1>3. Len(given) \in Nat /\ k \in Nat /\ k < Len(given)
  BY LenProperties
<1>4. \A i \in 1 .. k + 1 : i \in 1 .. Len(given)
  BY <1>3
<1> HIDE DEF x
<1>5. \A i \in 1 .. k + 1 : x(i) \in Seq(GivenWords)
  BY <1>2, <1>4
<1>6. q(k) \in Seq(Seq(GivenWords)) /\ Len(q(k)) = k
  BY <1>3, <1>5
<1>7. q(k + 1) = Append(q(k), x(k + 1))
  <2> DEFINE p == Append(q(k), x(k + 1))
  <2>1. x(k + 1) \in Seq(GivenWords)
    BY <1>3, <1>5
  <2>2. p \in Seq(Seq(GivenWords)) /\ Len(p) = k + 1 /\ p[k + 1] = x(k + 1)
        /\ \A i \in 1 .. k : p[i] = q(k)[i]
    <3> DEFINE z == q(k)
    <3> HIDE DEF z, q
    <3>1. Append(z, x(k + 1)) \in Seq(Seq(GivenWords)) /\ Len(Append(z, x(k + 1))) = Len(z) + 1
          /\ Append(z, x(k + 1))[Len(z) + 1] = x(k + 1)
          /\ \A i \in 1 .. Len(z) : Append(z, x(k + 1))[i] = z[i]
      BY <1>6, <2>1, AppendProperties DEF z
    <3> QED
      BY <1>6, <3>1 DEF z
  <2>3. q(k + 1) \in Seq(Seq(GivenWords)) /\ Len(q(k + 1)) = k + 1
    BY <1>3, <1>5
  <2>4. \A i \in 1 .. k + 1 : q(k + 1)[i] = x(i)
    OBVIOUS
  <2>5. \A i \in 1 .. k : q(k)[i] = x(i)
    OBVIOUS
  <2>6. \A i \in 1 .. k + 1 : i = k + 1 \/ i \in 1 .. k
    BY <1>3
  <2> HIDE DEF q, p
  <2>7. \A i \in 1 .. k + 1 : p[i] = q(k + 1)[i]
    BY <2>2, <2>4, <2>5, <2>6
  <2>8. p = q(k + 1)
    BY <2>2, <2>3, <2>7, SeqEqual
  <2> QED
    BY <2>8 DEF p
<1>8. q(0) = <<>>
  OBVIOUS
<1>9. x(k + 1) \in Seq(GivenWords)
  BY <1>3, <1>5
<1> HIDE DEF q
<1>10. /\ FlattenSeq(<<>>) = <<>> /\ FlattenSeq(q(k)) \in Seq(GivenWords)
       /\ FlattenSeq(Append(q(k), x(k + 1))) = FlattenSeq(q(k)) \o x(k + 1)
  BY <1>6, <1>9, FlattenAppend
<1>11. Args(given, k + 1, o) = Args(given, k, o) \o x(k + 1)
  BY <1>1, <1>7, <1>10
<1>12. Args(given, 0, o) = <<>> /\ Args(given, k, o) \in Seq(GivenWords)
  BY <1>1, <1>8, <1>10
<1>13. CASE Gives(given[k + 1], o) /\ given[k + 1].arg # None
  <2>1. x(k + 1) = <<given[k + 1].arg>>
    BY <1>13 DEF x
  <2>2. given[k + 1].arg \in GivenWords
    <3>1. k + 1 \in 1 .. Len(given)
      BY <1>3
    <3>2. given[k + 1].arg \in GivenWords \cup {None}
      <4>1. given[k + 1] \in EventType
        BY <3>1, ElementOfSeq
      <4> QED
        BY <4>1 DEF EventType
    <3> QED
      BY <1>13, <3>2
  <2>3. Args(given, k, o) \o <<given[k + 1].arg>> = Append(Args(given, k, o), given[k + 1].arg)
    BY <1>12, <2>2, AppendIsConcat
  <2> QED
    BY <1>11, <1>12, <1>13, <2>1, <2>3
<1>14. CASE ~(Gives(given[k + 1], o) /\ given[k + 1].arg # None)
  <2>1. x(k + 1) = <<>>
    BY <1>14 DEF x
  <2>2. Args(given, k, o) \o <<>> = Args(given, k, o)
    BY <1>12, ConcatEmptySeq
  <2> QED
    BY <1>11, <1>12, <1>14, <2>1, <2>2
<1> QED
  BY <1>13, <1>14

CountPart(s, given, c) ==
  \A p \in DOMAIN Opts : s.count[p] = Times(given, c, p) /\ (single(p) => s.count[p] <= 1)
ValuePart(s, given, a) ==
  \A p \in DOMAIN Opts :
    /\ s.values[p] = Args(given, a, p) /\ (s.have[p] <=> s.values[p] # <<>>)
    /\ \A i \in DOMAIN s.values[p] : converts(p, s.values[p][i])

(* An option is found under each of its names. *)
LEMMA FindOwn ==
  ASSUME NEW p \in DOMAIN Opts, NEW f \in Opts[p].names
  PROVE  find(f, p) = p
<1> DEFINE q == [o \in DOMAIN Opts |-> Name(o, f)]
           I == {i \in 1 .. Len(q) : q[i] = p}
<1>1. Len(Opts) \in Nat /\ DOMAIN Opts = 1 .. Len(Opts)
  BY OptsAssumption, LenProperties
<1>2. Len(q) = Len(Opts)
  BY <1>1
<1>3. p \in Nat /\ p > 0
  BY OptionKnown
<1>4. \A o \in DOMAIN Opts : q[o] = p <=> o = p
  BY <1>3 DEF Name
<1>5. I = {p}
  BY <1>1, <1>2, <1>4
<1>6. find(f, p) = IF I # {} THEN Min(I) ELSE 0
  BY DEF find, SelectInSeq, Min
<1> HIDE DEF I, q
<1>7. Min({p}) = p
  BY <1>3 DEF Min
<1> QED
  BY <1>5, <1>6, <1>7

LEMMA PartsTook ==
  ASSUME NEW s, NEW given, NEW c, NEW a, CountPart(s, given, c), ValuePart(s, given, a)
  PROVE  Took(s, given, c, a)
<1> SUFFICES ASSUME NEW p \in DOMAIN Opts, NEW f \in Opts[p].names
             PROVE  /\ s.count[p] = Times(given, c, p) /\ (single(p) => s.count[p] <= 1)
                    /\ s.values[p] = Args(given, a, p) /\ (s.have[p] <=> s.values[p] # <<>>)
                    /\ \A i \in DOMAIN s.values[p] : converts(p, s.values[p][i])
  BY FindOwn DEF Took
<1> QED
  BY DEF CountPart, ValuePart

LEMMA CountStep ==
  ASSUME NEW s \in Parsers, NEW r, NEW given, NEW k \in Nat, NEW o \in DOMAIN Opts,
         CountPart(s, given, k), r.count = [s.count EXCEPT ![o] = s.count[o] + 1],
         ~(single(o) /\ s.count[o] > 0), given[k + 1].c = "option", given[k + 1].o = o
  PROVE  CountPart(r, given, k + 1)
<1> SUFFICES ASSUME NEW p \in DOMAIN Opts
             PROVE  r.count[p] = Times(given, k + 1, p) /\ (single(p) => r.count[p] <= 1)
  BY DEF CountPart
<1>1. s.count \in [DOMAIN Opts -> Nat]
  BY DEF Parsers
<1>2. s.count[p] = Times(given, k, p) /\ (single(p) => s.count[p] <= 1) /\ s.count[p] \in Nat
  BY <1>1 DEF CountPart
<1>3. Gives(given[k + 1], p) <=> p = o
  BY DEF Gives
<1>4. Times(given, k + 1, p) = IF p = o THEN Times(given, k, p) + 1 ELSE Times(given, k, p)
  BY <1>3, TimesStep
<1>5. r.count[p] = IF p = o THEN s.count[p] + 1 ELSE s.count[p]
  BY <1>1
<1> QED
  BY <1>2, <1>4, <1>5

LEMMA ValueSame ==
  ASSUME NEW s, NEW r, NEW given \in Seq(EventType), NEW k \in 0 .. Len(given) - 1,
         ValuePart(s, given, k), r.values = s.values, r.have = s.have, given[k + 1].arg = None
  PROVE  ValuePart(r, given, k + 1)
<1>1. \A p : Args(given, k + 1, p) = Args(given, k, p)
  BY ArgsStep
<1> QED
  BY <1>1 DEF ValuePart

LEMMA ValueStep ==
  ASSUME NEW s \in Parsers, NEW r, NEW given \in Seq(EventType), NEW k \in 0 .. Len(given) - 1,
         NEW o \in DOMAIN Opts, NEW x, x # None, converts(o, x),
         ValuePart(s, given, k), r.values = [s.values EXCEPT ![o] = Append(s.values[o], x)],
         r.have = [s.have EXCEPT ![o] = TRUE],
         given[k + 1].c = "option", given[k + 1].o = o, given[k + 1].arg = x
  PROVE  ValuePart(r, given, k + 1)
<1> SUFFICES ASSUME NEW p \in DOMAIN Opts
             PROVE  /\ r.values[p] = Args(given, k + 1, p) /\ (r.have[p] <=> r.values[p] # <<>>)
                    /\ \A i \in DOMAIN r.values[p] : converts(p, r.values[p][i])
  BY DEF ValuePart
<1>1. s.values \in [DOMAIN Opts -> Seq(GivenWords)] /\ s.have \in [DOMAIN Opts -> BOOLEAN]
  BY DEF Parsers
<1>2. /\ s.values[p] = Args(given, k, p) /\ (s.have[p] <=> s.values[p] # <<>>)
      /\ \A i \in DOMAIN s.values[p] : converts(p, s.values[p][i])
  BY DEF ValuePart
<1>3. Gives(given[k + 1], p) <=> p = o
  BY DEF Gives
<1>4. /\ Args(given, k, p) \in Seq(GivenWords)
      /\ Args(given, k + 1, p) = IF p = o THEN Append(Args(given, k, p), x) ELSE Args(given, k, p)
  BY <1>3, ArgsStep
<1>5. CASE p # o
  <2>1. r.values[p] = s.values[p] /\ r.have[p] = s.have[p]
    BY <1>1, <1>5
  <2> QED
    BY <1>2, <1>4, <1>5, <2>1
<1>6. CASE p = o
  <2> DEFINE q == s.values[o]
             l == Len(q)
  <2>1. r.values[p] = Append(q, x) /\ r.have[p] = TRUE
    BY <1>1, <1>6
  <2>2. q \in Seq(GivenWords) /\ l \in Nat /\ DOMAIN q = 1 .. l
    BY <1>1, LenProperties
  <2>3. x \in GivenWords
    <3>1. k + 1 \in 1 .. Len(given)
      BY LenProperties
    <3>2. given[k + 1] \in EventType
      BY <3>1, ElementOfSeq
    <3> QED
      BY <3>2 DEF EventType
  <2>4. /\ Append(q, x) \in Seq(GivenWords) /\ Len(Append(q, x)) = l + 1 /\ Append(q, x)[l + 1] = x
        /\ \A i \in 1 .. l : Append(q, x)[i] = q[i]
    <3> HIDE DEF q
    <3> QED
      BY <2>2, <2>3, AppendProperties
  <2>5. DOMAIN Append(q, x) = 1 .. l + 1 /\ Append(q, x) # <<>>
    BY <2>2, <2>4, LenProperties
  <2>6. \A i \in 1 .. l + 1 : i = l + 1 \/ i \in 1 .. l
    BY <2>2
  <2>7. \A i \in 1 .. l : converts(o, q[i])
    BY <1>2, <1>6, <2>2
  <2>8. Append(q, x) = Args(given, k + 1, p)
    BY <1>2, <1>4, <1>6
  <2> DEFINE y == Append(q, x)
  <2> HIDE DEF q, l, y
  <2>9. r.values[p] = y /\ r.have[p] = TRUE /\ DOMAIN y = 1 .. l + 1 /\ y # <<>> /\ y[l + 1] = x
        /\ (\A i \in 1 .. l : y[i] = q[i]) /\ y = Args(given, k + 1, p)
    BY <2>1, <2>4, <2>5, <2>8 DEF y
  <2>10. \A i \in 1 .. l + 1 : converts(o, y[i])
    BY <2>6, <2>7, <2>9
  <2>11. r.have[p] <=> r.values[p] # <<>>
    BY <2>9
  <2>12. \A i \in DOMAIN r.values[p] : converts(p, r.values[p][i])
    BY <1>6, <2>9, <2>10
  <2> QED
    BY <2>9, <2>11, <2>12
<1> QED
  BY <1>5, <1>6

(* The first k events have been parsed by a fresh object. *)
AllTaken(given, k) ==
  \A j \in 1 .. k : /\ given[j].c = "option" /\ given[j].o \in DOMAIN Opts
                    /\ given[j].arg # None => converts(given[j].o, given[j].arg)
Progress(args, given, s, k) ==
  \/ /\ s.threw = None /\ s.optopt = Initially /\ AllTaken(given, k)
     /\ CountPart(s, given, k) /\ ValuePart(s, given, k)
  \/ s.threw # None /\ \E j \in 1 .. k : Refused(s, args, given, j)

LEMMA FaultNamed ==
  ASSUME NEW args \in Seq(Tokens), NEW e, Faulty(args, e)
  PROVE  \E i \in DOMAIN args :
              LET t == args[i]
                  long == t.is \in {"option", "unknown"} /\ t.form = "long"
                  other == t.form = "short" /\ (t.is = "unknown" \/ t.arg # None)
              IN  \/ long /\ Blamed(e.optopt, e.optind) = <<"argument", i>>
                  \/ t.is = "option" /\ Blamed(e.optopt, e.optind) = <<"char", t.o>>
                  \/ other /\ Blamed(e.optopt, e.optind) = Unknown
<1>1. PICK i \in DOMAIN args :
       LET t == args[i] IN
       /\ e.optind = i + 1
       /\ \/ t.is = "unknown" /\ e.optopt = IF t.form = "long" THEN Zero ELSE Unknown
          \/ t.is = "option" /\ t.o \in DOMAIN Opts /\ t.form \in Opts[t.o].names /\ e.optopt = code(t.o)
          \/ t.is = "option" /\ t.form = "short" /\ t.arg # None /\ e.optopt = Unknown
  BY DEF Faulty
<1> DEFINE t == args[i]
<1>2. i \in Nat /\ t \in Tokens
  <2>1. Len(args) \in Nat /\ DOMAIN args = 1 .. Len(args)
    BY LenProperties
  <2> QED
    BY <2>1, ElementOfSeq
<1>3. t.form \in {"short", "long"} /\ (t.is = "option" => t.o \in DOMAIN Opts /\ t.form \in Opts[t.o].names)
  BY <1>2, TokenKnown DEF Forms
<1>4. e.optind - 1 = i
  BY <1>1, <1>2
<1>5. /\ Zero[1] # "char" /\ Unknown[1] = "char"
  BY DEF Zero, Unknown
<1>6. CASE t.is = "unknown" /\ e.optopt = IF t.form = "long" THEN Zero ELSE Unknown
  BY <1>3, <1>4, <1>5, <1>6 DEF Blamed
<1>7. CASE t.is = "option" /\ t.o \in DOMAIN Opts /\ t.form \in Opts[t.o].names /\ e.optopt = code(t.o)
  <2>1. e.optopt = IF "short" \in Opts[t.o].names THEN <<"char", t.o>> ELSE <<"generated", t.o>>
    BY <1>7, CodeKnown
  <2>2. CASE "short" \in Opts[t.o].names
    <3>1. Blamed(e.optopt, e.optind) = <<"char", t.o>>
      BY <2>1, <2>2 DEF Blamed
    <3> QED
      BY <1>7, <3>1
  <2>3. CASE "short" \notin Opts[t.o].names
    <3>1. t.form = "long"
      BY <1>3, <1>7, <2>3
    <3>2. e.optopt[1] # "char"
      BY <2>1, <2>3
    <3>3. Blamed(e.optopt, e.optind) = <<"argument", i>>
      BY <1>4, <3>2 DEF Blamed
    <3> QED
      BY <1>7, <3>1, <3>3
  <2> QED
    BY <2>2, <2>3
<1>8. CASE t.is = "option" /\ t.form = "short" /\ t.arg # None /\ e.optopt = Unknown
  BY <1>5, <1>8 DEF Blamed
<1> QED
  BY <1>1, <1>6, <1>7, <1>8

LEMMA ProgressStep ==
  ASSUME NEW args \in Seq(Tokens), NEW given, Sound(args, given), NEW k \in Nat, k + 1 <= Len(given),
         NEW s \in Parsers, Progress(args, given, s, k), NEW r \in Parsers, SteppedTo(s, r, given[k + 1])
  PROVE  Progress(args, given, r, k + 1)
<1> DEFINE e == given[k + 1]
           n == Len(given)
<1>1. given \in Seq(EventType) /\ n \in Nat /\ k + 1 \in 1 .. n /\ k \in 0 .. n - 1 /\ (k + 1) - 1 = k
  BY LenProperties DEF Sound
<1>2. e \in EventType /\ (Accepted(e) \/ (k + 1 = n /\ Faulty(args, e)))
  BY <1>1, ElementOfSeq DEF Sound
<1>3. \A j \in 1 .. k + 1 : j = k + 1 \/ j \in 1 .. k
  OBVIOUS
<1>3a. k + 1 \in 1 .. k + 1 /\ \A j \in 1 .. k : j \in 1 .. k + 1
  OBVIOUS
<1>4. CASE s.threw # None
  <2>1. r = s
    BY <1>4 DEF SteppedTo
  <2> HIDE DEF e, n
  <2>2. PICK j \in 1 .. k : Refused(s, args, given, j)
    BY <1>4 DEF Progress
  <2>3. j \in 1 .. k + 1
    BY <1>3a
  <2> QED
    BY <1>4, <2>1, <2>2, <2>3 DEF Progress
<1>5. CASE s.threw = None
  <2>1. s.optopt = Initially /\ AllTaken(given, k) /\ CountPart(s, given, k) /\ ValuePart(s, given, k)
    BY <1>5 DEF Progress
  <2>2. \A x : Blamed(Initially, x) = Initially
    BY DEF Blamed, Initially
  <2>3. \A what \in Complaints : what # None
    BY Zenon DEF Complaints, None
  <2>4. ASSUME e.c # "option"
        PROVE  Progress(args, given, r, k + 1)
    <3>1. k + 1 = n /\ Faulty(args, e) /\ e.c \in {"?", ":"}
      BY <1>2, <2>4 DEF Accepted, EventType
    <3>2. PICK what \in {"Invalid option", "Missing argument"} : Complains(s, r, what, s.count, e.optopt, e.optind)
      BY Zenon, <1>5, <3>1 DEF SteppedTo
    <3>3. /\ r.threw = what /\ r.count = s.count /\ r.values = s.values /\ r.have = s.have
          /\ r.names = Blamed(e.optopt, e.optind)
      BY Zenon, <3>2 DEF Complains
    <3>4. CountPart(r, given, k) /\ ValuePart(r, given, k)
      BY Zenon, <2>1, <3>3 DEF CountPart, ValuePart
    <3>5. Took(r, given, (k + 1) - 1, (k + 1) - 1)
      BY Zenon, <1>1, <3>4, PartsTook
    <3>6. r.threw # "Duplicate option" /\ r.threw # "Conversion failed" /\ r.threw # None
      BY <3>3, Zenon DEF None
    <3>7. \E i \in DOMAIN args :
              LET t == args[i]
                  long == t.is \in {"option", "unknown"} /\ t.form = "long"
                  other == t.form = "short" /\ (t.is = "unknown" \/ t.arg # None)
              IN  \/ long /\ r.names = <<"argument", i>>
                  \/ t.is = "option" /\ r.names = <<"char", t.o>>
                  \/ other /\ r.names = Unknown
      BY ZenonT(40), <3>1, <3>3, FaultNamed
    <3>8. Refused(r, args, given, k + 1)
      BY Zenon, <3>1, <3>5, <3>6, <3>7 DEF Refused
    <3> QED
      BY Zenon, <1>3a, <3>6, <3>8 DEF Progress
  <2>5. CASE e.c = "option"
    <3> DEFINE o == e.o
    <3>1. Accepted(e) /\ o \in DOMAIN Opts
      BY <1>2, <2>5 DEF Accepted, Faulty
    <3>2. CASE single(o) /\ s.count[o] > 0
      <4>1. Complains(s, r, "Duplicate option", s.count, s.optopt, e.optind)
        BY Zenon, <1>5, <2>5, <3>2 DEF SteppedTo
      <4>2. /\ r.threw = "Duplicate option" /\ r.count = s.count /\ r.values = s.values /\ r.have = s.have
            /\ r.names = Initially
        BY Zenon, <2>1, <2>2, <4>1 DEF Complains
      <4>3. CountPart(r, given, k) /\ ValuePart(r, given, k)
        BY Zenon, <2>1, <4>2 DEF CountPart, ValuePart
      <4>4. Took(r, given, (k + 1) - 1, (k + 1) - 1)
        BY <1>1, <4>3, PartsTook
      <4>5. Refused(r, args, given, k + 1)
        BY Zenon, <2>5, <3>2, <4>2, <4>4 DEF Refused
      <4>6. r.threw # None
        BY Zenon, <4>2 DEF None
      <4> QED
        BY <1>3a, <4>5, <4>6 DEF Progress
    <3>3. CASE ~(single(o) /\ s.count[o] > 0) /\ e.arg = None
      <4>1. CountsUp(s, r, o) /\ r.values = s.values /\ r.have = s.have
        BY Zenon, <1>5, <2>5, <3>3 DEF SteppedTo
      <4>2. r.threw = None /\ r.optopt = Initially /\ r.count = [s.count EXCEPT ![o] = s.count[o] + 1]
        BY <1>5, <2>1, <4>1 DEF CountsUp
      <4>3. CountPart(r, given, k + 1)
        BY <2>1, <2>5, <3>1, <3>3, <4>2, CountStep
      <4>4. ValuePart(r, given, k + 1)
        BY <1>1, <2>1, <3>3, <4>1, ValueSame
      <4>5. AllTaken(given, k + 1)
        BY <1>3, <2>1, <2>5, <3>1, <3>3 DEF AllTaken
      <4> QED
        BY <4>2, <4>3, <4>4, <4>5 DEF Progress
    <3>4. CASE ~(single(o) /\ s.count[o] > 0) /\ e.arg # None /\ ~converts(o, e.arg)
      <4>1. Complains(s, r, "Conversion failed", [s.count EXCEPT ![o] = s.count[o] + 1], s.optopt, e.optind)
        BY Zenon, <1>5, <2>5, <3>4 DEF SteppedTo
      <4>2. /\ r.threw = "Conversion failed" /\ r.values = s.values /\ r.have = s.have
            /\ r.count = [s.count EXCEPT ![o] = s.count[o] + 1] /\ r.names = Initially
        BY Zenon, <2>1, <2>2, <4>1 DEF Complains
      <4>3. CountPart(r, given, k + 1)
        BY Zenon, <2>1, <2>5, <3>1, <3>4, <4>2, CountStep
      <4>4. ValuePart(r, given, k)
        BY Zenon, <2>1, <4>2 DEF ValuePart
      <4>5. Took(r, given, k + 1, (k + 1) - 1)
        BY <1>1, <4>3, <4>4, PartsTook
      <4>6. r.threw # "Duplicate option" /\ r.threw # None
        BY <4>2, Zenon DEF None
      <4>7. Refused(r, args, given, k + 1)
        BY ZenonT(40), <2>5, <4>2, <4>5, <4>6 DEF Refused
      <4> QED
        BY Zenon, <1>3a, <4>6, <4>7 DEF Progress
    <3>5. CASE ~(single(o) /\ s.count[o] > 0) /\ e.arg # None /\ converts(o, e.arg)
      <4>1. /\ CountsUp(s, r, o) /\ r.values = [s.values EXCEPT ![o] = Append(s.values[o], e.arg)]
            /\ r.have = [s.have EXCEPT ![o] = TRUE]
        BY Zenon, <1>5, <2>5, <3>5 DEF SteppedTo
      <4>2. r.threw = None /\ r.optopt = Initially /\ r.count = [s.count EXCEPT ![o] = s.count[o] + 1]
        BY <1>5, <2>1, <4>1 DEF CountsUp
      <4>3. CountPart(r, given, k + 1)
        BY <2>1, <2>5, <3>1, <3>5, <4>2, CountStep
      <4>4. ValuePart(r, given, k + 1)
        BY <1>1, <2>1, <2>5, <3>1, <3>5, <4>1, ValueStep
      <4>5. AllTaken(given, k + 1)
        BY <1>3, <2>1, <2>5, <3>1, <3>5 DEF AllTaken
      <4> QED
        BY <4>2, <4>3, <4>4, <4>5 DEF Progress
    <3> QED
      BY <3>2, <3>3, <3>4, <3>5
  <2> QED
    BY <2>4, <2>5
<1> QED
  BY <1>4, <1>5

LEMMA SoundHappens ==
  ASSUME NEW args, NEW given, Sound(args, given)
  PROVE  given \in Seq(Reported) /\ given \in Seq(EventType)
<1>1. given \in Seq(EventType) /\ Len(given) \in Nat
  BY LenProperties DEF Sound
<1>2. \A k \in 1 .. Len(given) : given[k] \in EventType
  BY <1>1, ElementOfSeq
<1>3. \A k \in 1 .. Len(given) : Accepted(given[k]) \/ given[k].c \in {"?", ":"}
  BY DEF Sound, Faulty
<1>4. \A k \in 1 .. Len(given) : given[k] \in Reported
  BY <1>2, <1>3 DEF Reported
<1>5. given = [k \in 1 .. Len(given) |-> given[k]]
  BY <1>1
<1> QED
  BY <1>1, <1>4, <1>5

LEMMA AgainIs ==
  ASSUME NEW s \in Parsers
  PROVE  /\ [s EXCEPT !.threw = None, !.names = Zero] \in Parsers
         /\ [s EXCEPT !.threw = None, !.names = Zero].threw = None
         /\ [s EXCEPT !.threw = None, !.names = Zero].count = s.count
         /\ [s EXCEPT !.threw = None, !.names = Zero].values = s.values
         /\ [s EXCEPT !.threw = None, !.names = Zero].have = s.have
         /\ [s EXCEPT !.threw = None, !.names = Zero].optopt = s.optopt
<1>1. Zero \in {"zero", "char", "generated", "argument"} \X Int
  BY DEF Zero
<1> QED
  BY <1>1 DEF Parsers

LEMMA ArgsNone ==
  ASSUME NEW given, NEW o
  PROVE  Args(given, 0, o) = <<>>
<1> DEFINE q == [i \in 1 .. 0 |-> IF Gives(given[i], o) /\ given[i].arg # None THEN <<given[i].arg>> ELSE <<>>]
<1>1. q = <<>>
  OBVIOUS
<1>2. <<>> \in Seq(Seq(GivenWords)) /\ <<>> \in Seq(GivenWords)
  OBVIOUS
<1>3. FlattenSeq(<<>>) = <<>>
  BY <1>2, FlattenAppend
<1>4. Args(given, 0, o) = FlattenSeq(q)
  BY DEF Args
<1> QED
  BY <1>1, <1>3, <1>4

LEMMA FreshIs ==
  ASSUME NEW args, NEW given
  PROVE  Fresh \in Parsers /\ Progress(args, given, [Fresh EXCEPT !.threw = None, !.names = Zero], 0)
<1> DEFINE s == [Fresh EXCEPT !.threw = None, !.names = Zero]
<1>1. Fresh \in Parsers
  <2>1. Initially \in Optopts /\ Zero \in {"zero", "char", "generated", "argument"} \X Int
    BY DEF Initially, Optopts, Zero
  <2>2. <<>> \in Seq(GivenWords)
    OBVIOUS
  <2> QED
    BY <2>1, <2>2 DEF Fresh, Parsers
<1>2. s.threw = None /\ s.count = Fresh.count /\ s.values = Fresh.values /\ s.have = Fresh.have
      /\ s.optopt = Fresh.optopt
  BY Zenon, <1>1, AgainIs
<1>3. /\ Fresh.optopt = Initially /\ \A p \in DOMAIN Opts : Fresh.count[p] = 0 /\ Fresh.values[p] = <<>>
      /\ \A p \in DOMAIN Opts : Fresh.have[p] = FALSE
  BY DEF Fresh
<1> HIDE DEF s
<1>4. CountPart(s, given, 0)
  <2>1. \A p : Times(given, 0, p) = 0
    <3> SUFFICES ASSUME NEW p PROVE Times(given, 0, p) = 0
      OBVIOUS
    <3> QED
      BY 0 \in Nat, TimesStep
  <2> QED
    BY <1>2, <1>3, <2>1 DEF CountPart
<1>5. ValuePart(s, given, 0)
  <2>2. \A p : Args(given, 0, p) = <<>>
    BY ArgsNone
  <2>3. DOMAIN <<>> = {}
    OBVIOUS
  <2> QED
    BY <1>2, <1>3, <2>2, <2>3 DEF ValuePart
<1>6. AllTaken(given, 0)
  BY DEF AllTaken
<1> QED
  BY <1>1, <1>2, <1>3, <1>4, <1>5, <1>6 DEF Progress, s

LEMMA ParsedOnce ==
  ASSUME NEW args \in Seq(Tokens), NEW given, given = Events(args)
  PROVE  parse(Fresh, args) \in Parsers /\ Progress(args, given, parse(Fresh, args), Len(given))
<1> DEFINE n == Len(given)
           s0 == [Fresh EXCEPT !.threw = None, !.names = Zero]
<1>1. Sound(args, given)
  BY EventsSound
<1>2. given \in Seq(Reported) /\ given \in Seq(EventType)
  BY <1>1, SoundHappens
<1>3. n \in Nat
  BY <1>2, LenProperties
<1>4. s0 \in Parsers /\ Progress(args, given, s0, 0)
  <2>1. Fresh \in Parsers /\ Progress(args, given, s0, 0)
    BY <1>2, FreshIs
  <2> QED
    BY Zenon, <2>1, AgainIs
<1>5. parse(Fresh, args) = FoldLeft(Step, s0, given)
  BY DEF parse
<1> HIDE DEF s0
<1>6. PICK h : h \in Parsing(s0, given)
  BY <1>2, <1>4, ParsingFold
<1>7. /\ h \in [0 .. n -> Parsers] /\ h[0] = s0
      /\ \A k \in 1 .. n : h[k] = Step(h[k - 1], given[k])
      /\ parse(Fresh, args) = h[n]
  BY <1>5, <1>6 DEF Parsing
<1> DEFINE K == {k \in Nat : k <= n => Progress(args, given, h[k], k)}
<1>8. 0 \in K
  BY <1>4, <1>7
<1>9. ASSUME NEW k \in Nat, k \in K PROVE k + 1 \in K
  <2> SUFFICES ASSUME k + 1 <= n PROVE Progress(args, given, h[k + 1], k + 1)
    OBVIOUS
  <2>1. k \in 0 .. n /\ k + 1 \in 1 .. n /\ k + 1 \in 0 .. n /\ (k + 1) - 1 = k /\ k <= n
    BY <1>3
  <2>2. h[k] \in Parsers /\ h[k + 1] \in Parsers /\ h[k + 1] = Step(h[k], given[k + 1])
    BY <1>7, <2>1
  <2>3. given[k + 1] \in Reported
    BY <1>2, <2>1, ElementOfSeq
  <2>4. SteppedTo(h[k], h[k + 1], given[k + 1])
    BY <2>2, <2>3, StepIs
  <2>5. Progress(args, given, h[k], k)
    BY <1>9, <2>1
  <2> QED
    BY <1>1, <2>2, <2>4, <2>5, ProgressStep
<1> HIDE DEF K
<1>10. n \in K
  BY <1>3, <1>8, <1>9, Induction
<1>11. Progress(args, given, h[n], n) /\ h[n] \in Parsers
  BY <1>3, <1>7, <1>10 DEF K
<1> QED
  BY <1>7, <1>11

(* Once more with the same object: the first single option is refused. *)
LEMMA ParsedTwice ==
  ASSUME NEW args \in Seq(Tokens), NEW given, given = Events(args), NEW s \in Parsers,
         AllTaken(given, Len(given)), CountPart(s, given, Len(given))
  PROVE  parse(s, args).threw = "Duplicate option" <=> \E o \in DOMAIN Opts : single(o) /\ s.count[o] > 0
<1> DEFINE n == Len(given)
           s0 == [s EXCEPT !.threw = None, !.names = Zero]
<1>1. Sound(args, given)
  BY EventsSound
<1>2. given \in Seq(Reported) /\ given \in Seq(EventType)
  BY <1>1, SoundHappens
<1>3. n \in Nat
  BY <1>2, LenProperties
<1>4. s0 \in Parsers /\ s0.threw = None /\ s0.count = s.count
  BY Zenon, AgainIs
<1>5. parse(s, args) = FoldLeft(Step, s0, given)
  BY DEF parse
<1> HIDE DEF s0
<1>6. PICK h : h \in Parsing(s0, given)
  BY <1>2, <1>4, ParsingFold
<1>7. /\ h \in [0 .. n -> Parsers] /\ h[0] = s0
      /\ \A k \in 1 .. n : h[k] = Step(h[k - 1], given[k])
      /\ parse(s, args) = h[n]
  BY <1>5, <1>6 DEF Parsing
<1>7a. \A k \in 1 .. n : /\ given[k].c = "option" /\ given[k].o \in DOMAIN Opts
                         /\ given[k].arg # None => converts(given[k].o, given[k].arg)
  BY DEF AllTaken
<1>7b. \A o \in DOMAIN Opts : s.count[o] > 0 <=> \E i \in 1 .. n : Gives(given[i], o)
  BY ZenonT(40), <1>3, TimesStep DEF CountPart
<1> DEFINE Unrefused(k) == /\ h[k].threw = None /\ \A j \in 1 .. k : ~single(given[j].o)
                           /\ \A o \in DOMAIN Opts : single(o) => h[k].count[o] = s.count[o]
           Twice(k) == h[k].threw = "Duplicate option" /\ \E j \in 1 .. k : single(given[j].o)
           K == {k \in Nat : k <= n => Unrefused(k) \/ Twice(k)}
<1>8. 0 \in K
  <2>1. 1 .. 0 = {}
    OBVIOUS
  <2> QED
    BY Zenon, <1>4, <1>7, <2>1
<1>9. ASSUME NEW k \in Nat, k \in K PROVE k + 1 \in K
  <2> HIDE DEF Unrefused, Twice
  <2> SUFFICES ASSUME k + 1 <= n PROVE Unrefused(k + 1) \/ Twice(k + 1)
    OBVIOUS
  <2> DEFINE e == given[k + 1]
             a == h[k]
             b == h[k + 1]
  <2>1. k \in 0 .. n /\ k + 1 \in 1 .. n /\ k + 1 \in 0 .. n /\ (k + 1) - 1 = k /\ k <= n
    BY <1>3
  <2>2. a \in Parsers /\ b \in Parsers /\ b = Step(a, e)
    BY <1>7, <2>1
  <2>3. e \in Reported /\ e.c = "option" /\ e.o \in DOMAIN Opts /\ (e.arg # None => converts(e.o, e.arg))
    BY <1>2, <1>7a, <2>1, ElementOfSeq
  <2>4. SteppedTo(a, b, e)
    BY <2>2, <2>3, StepIs
  <2>5. Unrefused(k) \/ Twice(k)
    BY <1>9, <2>1
  <2>6. k + 1 \in 1 .. k + 1 /\ (\A j \in 1 .. k : j \in 1 .. k + 1)
        /\ \A j \in 1 .. k + 1 : j = k + 1 \/ j \in 1 .. k
    BY <2>1
  <2>7. CASE Twice(k)
    <3>1. a.threw = "Duplicate option" /\ \E j \in 1 .. k : single(given[j].o)
      BY Zenon, <2>7 DEF Twice
    <3>2. a.threw # None
      BY ZenonT(40), <3>1 DEF None
    <3>3. b = a
      BY <2>4, <3>2 DEF SteppedTo
    <3> HIDE DEF a, b, e
    <3>4. b.threw = "Duplicate option" /\ \E j \in 1 .. k + 1 : single(given[j].o)
      BY Zenon, <2>6, <3>1, <3>3
    <3> QED
      BY Zenon, <3>4 DEF Twice, b
  <2>8. CASE Unrefused(k)
    <3>1. /\ a.threw = None /\ \A j \in 1 .. k : ~single(given[j].o)
          /\ \A o \in DOMAIN Opts : single(o) => a.count[o] = s.count[o]
      BY <2>8 DEF Unrefused
    <3>2. CASE single(e.o)
      <4>1. Gives(given[k + 1], e.o)
        BY <2>3 DEF Gives
      <4>2. s.count[e.o] > 0
        BY <1>7b, <2>1, <2>3, <4>1
      <4>3. a.count[e.o] > 0
        BY <2>3, <3>1, <3>2, <4>2
      <4>4. b.threw = "Duplicate option"
        BY Zenon, <2>3, <2>4, <3>1, <3>2, <4>3 DEF SteppedTo, Complains
      <4> QED
        BY Zenon, <2>6, <3>2, <4>4 DEF Twice
    <3>3. CASE ~single(e.o)
      <4>1. CountsUp(a, b, e.o)
        BY Zenon, <2>3, <2>4, <3>1, <3>3 DEF SteppedTo
      <4>2. b.threw = None /\ b.count = [a.count EXCEPT ![e.o] = a.count[e.o] + 1]
        BY <3>1, <4>1 DEF CountsUp
      <4>3. a.count \in [DOMAIN Opts -> Nat]
        BY <2>2 DEF Parsers
      <4>4. \A o \in DOMAIN Opts : single(o) => b.count[o] = s.count[o]
        <5> HIDE DEF a, b, e
        <5> QED
          BY <3>1, <3>3, <4>2, <4>3
      <4>5. \A j \in 1 .. k + 1 : ~single(given[j].o)
        BY <2>6, <3>1, <3>3
      <4> QED
        BY <4>2, <4>4, <4>5 DEF Unrefused
    <3> QED
      BY <3>2, <3>3
  <2> QED
    BY <2>5, <2>7, <2>8
<1>10. Unrefused(n) \/ Twice(n)
  <2> HIDE DEF Unrefused, Twice
  <2>1. n \in K
    <3> HIDE DEF K
    <3> QED
      BY <1>3, <1>8, <1>9, Induction
  <2> QED
    BY <1>3, <2>1
<1>11. (\E o \in DOMAIN Opts : single(o) /\ s.count[o] > 0) <=> \E j \in 1 .. n : single(given[j].o)
  BY <1>7a, <1>7b DEF Gives
<1>12. None # "Duplicate option"
  BY Zenon DEF None
<1> QED
  BY Zenon, <1>7, <1>10, <1>11, <1>12


(* options::parse of any arguments, by a fresh object: it has counted every *)
(* option that was given and assigned its arguments in their order, or has *)
(* done so up to what it threw at, and names what getopt_long refused; a   *)
(* second parse() is refused exactly if a single option was given.         *)
THEOREM OptionsTold ==
  ASSUME NEW args \in Seq(Tokens), NEW given, given = Events(args), NEW r, r = parse(Fresh, args)
  PROVE  IF r.threw = None
         THEN /\ Took(r, given, Len(given), Len(given))
              /\ parse(r, args).threw = "Duplicate option" <=>
                   \E o \in DOMAIN Opts : single(o) /\ r.count[o] > 0
         ELSE \E k \in DOMAIN given : Refused(r, args, given, k)
<1> DEFINE n == Len(given)
<1>1. r \in Parsers /\ Progress(args, given, r, n)
  BY ParsedOnce
<1>2. given \in Seq(EventType)
  BY EventsSound DEF Sound
<1>3. n \in Nat /\ DOMAIN given = 1 .. n
  BY <1>2, LenProperties
<1>4. CASE r.threw = None
  <2>1. AllTaken(given, n) /\ CountPart(r, given, n) /\ ValuePart(r, given, n)
    BY <1>1, <1>4 DEF Progress
  <2>2. Took(r, given, n, n)
    BY <2>1, PartsTook
  <2>3. parse(r, args).threw = "Duplicate option" <=> \E o \in DOMAIN Opts : single(o) /\ r.count[o] > 0
    BY Zenon, <1>1, <2>1, ParsedTwice
  <2> QED
    BY Zenon, <1>4, <2>2, <2>3
<1>5. CASE r.threw # None
  <2>1. \E k \in 1 .. n : Refused(r, args, given, k)
    BY <1>1, <1>5 DEF Progress
  <2> QED
    BY <1>3, <1>5, <2>1
<1> QED
  BY Zenon, <1>4, <1>5

LEMMA ParsingTells ==
  ASSUME Asking, Answered, returned
  PROVE  ParseTells
<1>1. CASE call.fn = "parse"
  <2>1. call.args \in BoundedSeq(Tokens, MaxArgs)
    BY <1>1 DEF Asking, ReadingCalls, DataCalls
  <2>2. result = parse(Fresh, call.args)
    <3>1. Evaluate(call) = parse(Fresh, call.args)
      BY <1>1 DEF Evaluate
    <3> QED
      BY <3>1 DEF Answered
  <2>3. call.args \in Seq(Tokens)
    <3>1. MaxArgs \in Nat
      BY MaxInputAssumption
    <3> QED
      BY <2>1, <3>1, Bounded
  <2> QED
    BY Zenon, <2>2, <2>3, OptionsTold DEF ParseTells
<1> QED
  BY Zenon, <1>1 DEF ParseTells, Returned

----------------------------------------------------------------------------
(* XML: a tag that is written and read again.                              *)

(* The first of the places that satisfy a test. *)
Earliest(N) == IF N # {} THEN CHOOSE x \in N : \A y \in N : x =< y ELSE 0

LEMMA FirstPlace ==
  ASSUME NEW n \in Nat, NEW N \in SUBSET (1 .. n)
  PROVE  /\ Earliest(N) \in 0 .. n
         /\ Earliest(N) = 0 => N = {}
         /\ Earliest(N) # 0 => Earliest(N) \in N /\ \A i \in 1 .. Earliest(N) - 1 : i \notin N
<1> DEFINE k == Earliest(N)
<1>1. CASE N = {}
  BY <1>1 DEF Earliest
<1>2. CASE N # {}
  <2>1. N \in SUBSET Nat
    OBVIOUS
  <2>2. \E x \in N : \A y \in N : x =< y
    BY <1>2, <2>1, Smallest
  <2>3. k \in N /\ \A y \in N : k =< y
    BY <1>2, <2>2 DEF Earliest
  <2> HIDE DEF k
  <2>4. k \in 1 .. n /\ \A i \in 1 .. k - 1 : i \notin N
    <3>1. k \in 1 .. n
      BY <2>3
    <3>2. ASSUME NEW i \in 1 .. k - 1 PROVE i \notin N
      BY <2>3, <3>1, <3>2
    <3> QED
      BY <3>1, <3>2
  <2> QED
    BY <2>3, <2>4 DEF k
<1> QED
  BY <1>1, <1>2

(* The elements of a set one after the other. *)
LEMMA SetListed ==
  ASSUME NEW D, IsFiniteSet(D)
  PROVE  /\ Cardinality(D) \in Nat /\ E!Cardinality(D) = Cardinality(D)
         /\ E!SetToSeq(D) \in [1 .. Cardinality(D) -> D]
         /\ \A d \in D : \E i \in 1 .. Cardinality(D) : E!SetToSeq(D)[i] = d
         /\ \A i, j \in 1 .. Cardinality(D) : E!SetToSeq(D)[i] = E!SetToSeq(D)[j] => i = j
<1> DEFINE c == Cardinality(D)
           Fs == [1 .. c -> D]
<1>1. c \in Nat /\ ExistsBijection(1 .. c, D)
  BY FS_CardinalityType
<1>2. E!Cardinality(D) = c
  BY DEF E!Cardinality, Cardinality
<1> HIDE DEF c
<1>3. PICK g : g \in Injection(1 .. c, D)
  BY <1>1 DEF ExistsBijection, Bijection
<1>4. g \in Fs /\ \A a, b \in DOMAIN g : g[a] = g[b] => a = b
  BY <1>3 DEF Injection, IsInjective
<1> DEFINE s == E!SetToSeq(D)
<1>5. s = CHOOSE f \in Fs : \A a, b \in DOMAIN f : f[a] = f[b] => a = b
  BY <1>2 DEF E!SetToSeq, E!IsInjective
<1> HIDE DEF s, Fs
<1>6. s \in Fs /\ \A a, b \in DOMAIN s : s[a] = s[b] => a = b
  BY <1>4, <1>5
<1>7. s \in Injection(1 .. c, D)
  BY <1>6 DEF Fs, Injection, IsInjective
<1>8. IsFiniteSet(1 .. c) /\ Cardinality(1 .. c) = c
  BY <1>1, FS_Interval
<1>9. s \in Surjection(1 .. c, D)
  BY <1>7, <1>8, FS_Injection DEF c
<1>10. \A d \in D : \E i \in 1 .. c : s[i] = d
  BY <1>9 DEF Surjection
<1> QED
  BY <1>1, <1>2, <1>6, <1>10 DEF c, s, Fs

(* The sets the writer goes through. *)
LEMMA AttributesListed ==
  ASSUME NEW D, IsFiniteSet(D)
  PROVE  /\ Cardinality(D) \in Nat /\ X!Cardinality(D) = Cardinality(D)
         /\ X!SetToSeq(D) \in [1 .. Cardinality(D) -> D]
         /\ \A d \in D : \E i \in 1 .. Cardinality(D) : X!SetToSeq(D)[i] = d
         /\ \A i, j \in 1 .. Cardinality(D) : X!SetToSeq(D)[i] = X!SetToSeq(D)[j] => i = j
<1>1. X!Cardinality(D) = E!Cardinality(D)
  BY DEF X!Cardinality, E!Cardinality
<1>2. X!SetToSeq(D) = E!SetToSeq(D)
  BY <1>1 DEF X!SetToSeq, E!SetToSeq, X!IsInjective, E!IsInjective
<1> QED
  BY <1>1, <1>2, SetListed

(* Putting sequences together is associative. *)
Associates(a, b, c) == (a \o b) \o c = a \o (b \o c)

LEMMA Associative ==
  ASSUME NEW S, NEW a \in Seq(S), NEW b \in Seq(S), NEW c \in Seq(S)
  PROVE  Associates(a, b, c)
  BY ConcatAssociative DEF Associates

(* The characters of a text. *)
TextChars == X!NameChars \cup {" ", "<", ">", "/", "=", X!DQ, X!SQ}

LEMMA TextsAre == X!Texts = Seq(TextChars)
  BY DEF X!Texts, TextChars

(* One character and a text behind it. *)
LEMMA Ahead ==
  ASSUME NEW S, NEW c \in S, NEW b \in Seq(S)
  PROVE  /\ <<c>> \in Seq(S) /\ Len(<<c>>) = 1 /\ <<c>>[1] = c
         /\ <<c>> \o b \in Seq(S) /\ Len(<<c>> \o b) = Len(b) + 1 /\ (<<c>> \o b)[1] = c
         /\ <<c>> \o b # <<>> /\ \A i \in 1 .. Len(b) : (<<c>> \o b)[i + 1] = b[i]
<1>1. <<c>> \in Seq(S) /\ Len(<<c>>) = 1 /\ <<c>>[1] = c /\ Len(b) \in Nat
  BY LenProperties
<1> DEFINE a == <<c>>
<1> HIDE DEF a
<1>2. a \in Seq(S) /\ Len(a) = 1 /\ a[1] = c
  BY <1>1 DEF a
<1> DEFINE w == a \o b
<1>3. /\ w \in Seq(S) /\ Len(w) = Len(a) + Len(b)
      /\ \A i \in 1 .. Len(a) + Len(b) : w[i] = IF i <= Len(a) THEN a[i] ELSE b[i - Len(a)]
  BY <1>2, ConcatProperties
<1> HIDE DEF w
<1>4. Len(w) = Len(b) + 1 /\ w[1] = c /\ w # <<>>
  BY <1>1, <1>2, <1>3, EmptySeq
<1>5. ASSUME NEW i \in 1 .. Len(b) PROVE w[i + 1] = b[i]
  <2>1. i + 1 \in 1 .. Len(a) + Len(b) /\ ~(i + 1 <= Len(a)) /\ (i + 1) - Len(a) = i
    BY <1>1, <1>2
  <2> QED
    BY <1>3, <2>1
<1> QED
  BY <1>2, <1>3, <1>4, <1>5 DEF w, a

(* A text behind another one: what is left without the first one, and the  *)
(* first one itself.                                                       *)
LEMMA WhatIsBehind ==
  ASSUME NEW S, NEW a \in Seq(S), NEW b \in Seq(S)
  PROVE  /\ X!From(a \o b, Len(a) + 1) = b /\ SubSeq(a \o b, 1, Len(a)) = a
<1> DEFINE w == a \o b
           l == Len(a)
           n == Len(b)
<1>1. l \in Nat /\ n \in Nat
  BY LenProperties
<1>2. /\ w \in Seq(S) /\ Len(w) = l + n
      /\ \A i \in 1 .. l + n : w[i] = IF i <= l THEN a[i] ELSE b[i - l]
  BY ConcatProperties
<1> DEFINE r == SubSeq(w, l + 1, Len(w))
           q == SubSeq(w, 1, l)
<1> HIDE DEF w
<1>3. /\ r \in Seq(S) /\ Len(r) = (IF l + 1 <= Len(w) THEN Len(w) - (l + 1) + 1 ELSE 0)
      /\ \A i \in 1 .. Len(w) - (l + 1) + 1 : r[i] = w[(l + 1) + i - 1]
  <2>1. l + 1 \in 1 .. Len(w) + 1 /\ Len(w) \in 0 .. Len(w)
    BY <1>1, <1>2
  <2> HIDE DEF l
  <2> QED
    BY <1>2, <2>1, Part
<1>4. /\ q \in Seq(S) /\ Len(q) = (IF 1 <= l THEN l - 1 + 1 ELSE 0)
      /\ \A i \in 1 .. l - 1 + 1 : q[i] = w[1 + i - 1]
  <2>1. 1 \in 1 .. Len(w) + 1 /\ l \in 0 .. Len(w)
    BY <1>1, <1>2
  <2> HIDE DEF l
  <2> QED
    BY <1>2, <2>1, Part
<1> HIDE DEF r, q
<1>5. r = b
  <2>1. Len(r) = Len(b)
    BY <1>1, <1>2, <1>3
  <2>2. ASSUME NEW i \in 1 .. Len(r) PROVE r[i] = b[i]
    <3>1. /\ i \in 1 .. Len(w) - (l + 1) + 1 /\ (l + 1) + i - 1 = l + i
          /\ l + i \in 1 .. l + n /\ ~(l + i <= l) /\ (l + i) - l = i
      BY <1>1, <1>2, <2>1
    <3>2. r[i] = w[l + i]
      BY <1>3, <3>1
    <3> QED
      BY <1>2, <3>1, <3>2
  <2> QED
    BY <1>3, <2>1, <2>2, SeqEqual
<1>6. q = a
  <2>1. Len(q) = Len(a)
    BY <1>1, <1>4
  <2>2. ASSUME NEW i \in 1 .. Len(q) PROVE q[i] = a[i]
    <3>1. i \in 1 .. l - 1 + 1 /\ 1 + i - 1 = i /\ i \in 1 .. l + n /\ i <= l
      BY <1>1, <2>1
    <3> QED
      BY <1>2, <1>4, <3>1
  <2> QED
    BY <1>4, <2>1, <2>2, SeqEqual
<1> QED
  BY <1>5, <1>6 DEF X!From, w, r, q, l

(* The characters of a prefix, and where it ends. *)
LEMMA EndIs ==
  ASSUME NEW S, NEW Chars, NEW a \in Seq(S), NEW b \in Seq(S), \A i \in 1 .. Len(a) : a[i] \in Chars,
         b = <<>> \/ b[1] \notin Chars
  PROVE  X!End(a \o b, Chars) = Len(a) + 1
<1> DEFINE w == a \o b
           l == Len(a)
           N == {i \in 1 .. Len(w) : w[i] \notin Chars}
           k == Earliest(N)
<1>1. l \in Nat /\ Len(b) \in Nat
  BY LenProperties
<1>2. /\ w \in Seq(S) /\ Len(w) = l + Len(b)
      /\ \A i \in 1 .. l + Len(b) : w[i] = IF i <= l THEN a[i] ELSE b[i - l]
  BY ConcatProperties
<1>3. X!End(w, Chars) = IF k = 0 THEN Len(w) + 1 ELSE k
  BY DEF X!End, X!SelectInSeq, X!Min, Earliest
<1> HIDE DEF w
<1>4. /\ k \in 0 .. Len(w)
      /\ k = 0 => N = {}
      /\ k # 0 => k \in N /\ \A i \in 1 .. k - 1 : i \notin N
  <2>1. N \in SUBSET (1 .. Len(w)) /\ Len(w) \in Nat
    BY <1>1, <1>2
  <2> HIDE DEF N
  <2> QED
    BY <2>1, FirstPlace
<1> HIDE DEF k
<1>5. \A i \in 1 .. l : i \notin N
  BY <1>1, <1>2
<1>6. CASE b = <<>>
  <2>1. Len(b) = 0
    BY <1>6
  <2>2. N = {}
    BY <1>1, <1>2, <1>5, <2>1
  <2> QED
    BY <1>1, <1>2, <1>3, <1>4, <2>1, <2>2 DEF w
<1>7. CASE b # <<>> /\ b[1] \notin Chars
  <2>1. Len(b) > 0
    BY <1>1, <1>7, EmptySeq
  <2>2. l + 1 \in 1 .. l + Len(b) /\ ~(l + 1 <= l) /\ (l + 1) - l = 1
    BY <1>1, <2>1
  <2>3. l + 1 \in N
    BY <1>2, <1>7, <2>2
  <2> HIDE DEF N
  <2>4. k = l + 1
    BY <1>1, <1>2, <1>4, <1>5, <2>3
  <2> QED
    BY <1>1, <1>3, <2>4 DEF w
<1> QED
  BY <1>6, <1>7

(* A name that is valid: letters first. *)
LEMMA NameValid ==
  ASSUME NEW name \in X!Texts, X!valid_name(name)
  PROVE  /\ name \in Seq(TextChars) /\ name # <<>> /\ Len(name) \in Nat /\ Len(name) > 0
         /\ name[1] \in X!Letters /\ \A i \in 1 .. Len(name) : name[i] \in X!NameChars
<1> DEFINE l == Len(name)
           N == {i \in 1 .. l : name[i] \notin X!NameChars}
           k == Earliest(N)
           end == IF k = 0 THEN l + 1 ELSE k
<1>1. name \in Seq(TextChars) /\ l \in Nat
  BY TextsAre, LenProperties
<1>2. name # <<>> /\ X!parse_name(name) = name
  BY DEF X!valid_name
<1>3. l > 0
  BY <1>1, <1>2, EmptySeq
<1>4. X!At(name, 1) \in X!Letters
  BY <1>2 DEF X!parse_name
<1>5. name[1] \in X!Letters
  BY <1>1, <1>3, <1>4 DEF X!At
<1>6. X!End(name, X!NameChars) = end
  BY DEF X!End, X!SelectInSeq, X!Min, Earliest
<1>7. /\ k \in 0 .. l
      /\ k = 0 => N = {}
      /\ k # 0 => k \in N /\ \A i \in 1 .. k - 1 : i \notin N
  <2>1. N \in SUBSET (1 .. l)
    OBVIOUS
  <2> HIDE DEF N, l
  <2> QED
    BY <1>1, <2>1, FirstPlace
<1>8. SubSeq(name, 1, end - 1) = name
  <2>1. X!parse_name(name) = SubSeq(name, 1, X!End(name, X!NameChars) - 1)
    BY <1>4 DEF X!parse_name
  <2> HIDE DEF end
  <2> QED
    BY <1>2, <1>6, <2>1
<1> HIDE DEF k
<1>9. k = 0
  <2> SUFFICES ASSUME k # 0 PROVE FALSE
    OBVIOUS
  <2>1. k \in 1 .. l /\ end - 1 = k - 1
    BY <1>1, <1>7
  <2>2. Len(SubSeq(name, 1, k - 1)) = IF 1 <= k - 1 THEN (k - 1) - 1 + 1 ELSE 0
    <3>1. 1 \in 1 .. l + 1 /\ k - 1 \in 0 .. l
      BY <1>1, <2>1
    <3> QED
      BY <1>1, <3>1, Part
  <2>3. Len(SubSeq(name, 1, k - 1)) = k - 1
    BY <2>1, <2>2
  <2>4. SubSeq(name, 1, k - 1) = name
    BY <1>8, <2>1
  <2> QED
    BY <1>1, <2>1, <2>3, <2>4
<1>10. \A i \in 1 .. l : name[i] \in X!NameChars
  BY <1>7, <1>9
<1> QED
  BY <1>1, <1>2, <1>3, <1>5, <1>10

(* A text begins with its name. *)
LEMMA NameRead ==
  ASSUME NEW name \in X!Texts, X!valid_name(name), NEW b \in Seq(TextChars), b = <<>> \/ b[1] \notin X!NameChars
  PROVE  X!parse_name(name \o b) = name
<1> DEFINE w == name \o b
<1>1. /\ name \in Seq(TextChars) /\ name # <<>> /\ Len(name) \in Nat /\ Len(name) > 0
      /\ name[1] \in X!Letters /\ \A i \in 1 .. Len(name) : name[i] \in X!NameChars
  BY NameValid
<1>2. X!End(w, X!NameChars) = Len(name) + 1
  BY <1>1, EndIs
<1>3. SubSeq(w, 1, Len(name)) = name
  BY <1>1, WhatIsBehind
<1>4. Len(w) = Len(name) + Len(b) /\ w[1] = name[1] /\ Len(b) \in Nat
  <2>1. Len(w) = Len(name) + Len(b)
        /\ \A i \in 1 .. Len(name) + Len(b) : w[i] = IF i <= Len(name) THEN name[i] ELSE b[i - Len(name)]
    BY <1>1, ConcatProperties
  <2>2. Len(b) \in Nat
    BY LenProperties
  <2> HIDE DEF w
  <2> QED
    BY <1>1, <2>1, <2>2
<1> HIDE DEF w
<1>5. X!At(w, 1) = name[1]
  BY <1>1, <1>4 DEF X!At
<1>6. (Len(name) + 1) - 1 = Len(name)
  BY <1>1
<1> QED
  BY <1>1, <1>2, <1>3, <1>5, <1>6 DEF X!parse_name, w

(* The characters that part a tag. *)
Space == " "

LEMMA Apart ==
  /\ {Space, "<", "=", "/", ">", X!DQ} \subseteq TextChars
  /\ X!Letters \subseteq X!NameChars /\ X!NameChars \subseteq TextChars
  /\ {Space, "=", "/", ">"} \cap X!NameChars = {}
  /\ Space \notin {"=", "/", ">", X!DQ}
<1>1. Space \in TextChars /\ "<" \in TextChars /\ "=" \in TextChars /\ "/" \in TextChars /\ ">" \in TextChars
      /\ X!DQ \in TextChars
  BY Zenon DEF TextChars, Space
<1>2. X!Letters \subseteq X!NameChars /\ X!NameChars \subseteq TextChars
  BY Zenon DEF X!NameChars, TextChars
<1>3. Space \notin X!NameChars
  BY Zenon DEF Space, X!NameChars, X!Letters
<1>4. "=" \notin X!NameChars /\ "/" \notin X!NameChars /\ ">" \notin X!NameChars
  BY DEF X!NameChars, X!Letters
<1>5. Space # "=" /\ Space # "/" /\ Space # ">" /\ Space # X!DQ
  BY Zenon DEF Space, X!DQ
<1> QED
  BY <1>1, <1>2, <1>3, <1>4, <1>5

LEMMA SpaceParsed ==
  \A s : X!parse_space(s) = IF X!End(s, {Space}) > Len(s) THEN s ELSE X!From(s, X!End(s, {Space}))
  BY Zenon DEF X!parse_space, Space

(* Spaces in front of something else are skipped. *)
LEMMA SpaceRead ==
  ASSUME NEW b \in Seq(TextChars), b # <<>>, b[1] # Space
  PROVE  X!parse_space(b) = b /\ X!parse_space(<<Space>> \o b) = b
<1>1. Len(b) \in Nat /\ Len(b) > 0
  BY LenProperties, EmptySeq
<1>2. Space \in TextChars /\ <<>> \in Seq(TextChars) /\ b[1] \notin {Space}
  BY Apart
<1>3. X!parse_space(b) = b
  <2>1. <<>> \o b = b
    BY ConcatEmptySeq
  <2>2. Len(<<>>) = 0
    OBVIOUS
  <2>3. \A i \in 1 .. Len(<<>>) : <<>>[i] \in {Space}
    BY <2>2
  <2>4. X!End(<<>> \o b, {Space}) = Len(<<>>) + 1
    BY <1>2, <2>3, EndIs
  <2>5. X!End(b, {Space}) = 1
    BY <2>1, <2>2, <2>4
  <2>6. X!From(<<>> \o b, Len(<<>>) + 1) = b
    BY <1>2, WhatIsBehind
  <2>7. X!From(b, 1) = b
    BY <2>1, <2>2, <2>6
  <2> QED
    BY <1>1, <2>5, <2>7, SpaceParsed
<1>4. X!parse_space(<<Space>> \o b) = b
  <2> DEFINE a == <<Space>>
  <2>1. a \in Seq(TextChars) /\ Len(a) = 1 /\ a[1] = Space /\ Len(a \o b) = Len(b) + 1
    BY <1>2, Ahead
  <2> HIDE DEF a
  <2>2. \A i \in 1 .. Len(a) : a[i] \in {Space}
    BY <2>1
  <2>3. X!End(a \o b, {Space}) = Len(a) + 1
    BY <1>2, <2>1, <2>2, EndIs
  <2>4. X!From(a \o b, Len(a) + 1) = b
    BY <2>1, WhatIsBehind
  <2>5. ~(Len(a) + 1 > Len(a \o b))
    BY <1>1, <2>1
  <2> QED
    BY <2>3, <2>4, <2>5, SpaceParsed DEF a
<1> QED
  BY <1>3, <1>4

(* No quote in a value is the one that ends it. *)
Unquoted(v) == \A i \in 1 .. Len(v) : v[i] # X!DQ

(* A value between its quotes. *)
LEMMA ValueRead ==
  ASSUME NEW v \in Seq(TextChars), Unquoted(v), NEW b \in Seq(TextChars), NEW name
  PROVE  X!parse_value(<<X!DQ>> \o (v \o (<<X!DQ>> \o b)), name) =
           X!Gives(X!parse_space(b), [name |-> name, value |-> v])
<1> DEFINE q == <<X!DQ>>
           c == q \o b
           t == v \o c
           s == q \o t
           l == Len(v)
<1>1. X!DQ \in TextChars
  BY Apart
<1>2. /\ q \in Seq(TextChars) /\ Len(q) = 1 /\ c \in Seq(TextChars) /\ Len(c) = Len(b) + 1 /\ c[1] = X!DQ
  BY <1>1, Ahead
<1>3. l \in Nat /\ Len(b) \in Nat
  BY LenProperties
<1> HIDE DEF c, l
<1>4. /\ t \in Seq(TextChars) /\ Len(t) = l + Len(c)
      /\ \A i \in 1 .. l + Len(c) : t[i] = IF i <= l THEN v[i] ELSE c[i - l]
  <2>1. /\ t \in Seq(TextChars) /\ Len(t) = Len(v) + Len(c)
        /\ \A i \in 1 .. Len(v) + Len(c) : t[i] = IF i <= Len(v) THEN v[i] ELSE c[i - Len(v)]
    BY <1>2, ConcatProperties
  <2> HIDE DEF t
  <2> QED
    BY <2>1 DEF l
<1> HIDE DEF t
<1>5. s \in Seq(TextChars) /\ Len(s) = Len(t) + 1 /\ s[1] = X!DQ /\ \A i \in 1 .. Len(t) : s[i + 1] = t[i]
  BY <1>1, <1>4, Ahead
<1>6. X!From(s, 2) = t
  <2>1. X!From(q \o t, Len(q) + 1) = t
    BY <1>2, <1>4, WhatIsBehind
  <2> QED
    BY <1>2, <2>1
<1> HIDE DEF s
<1> DEFINE N == {i \in 1 .. Len(t) : t[i] = X!DQ}
           k == Earliest(N)
<1>7. X!SelectInSeq(t, LAMBDA x : x = X!DQ) = k
  BY DEF X!SelectInSeq, X!Min, Earliest
<1>8. k = l + 1
  <2>1. N \in SUBSET (1 .. Len(t)) /\ Len(t) \in Nat
    BY <1>2, <1>3, <1>4
  <2>2. l + 1 \in N
    <3>1. l + 1 \in 1 .. l + Len(c) /\ ~(l + 1 <= l) /\ (l + 1) - l = 1
      BY <1>2, <1>3
    <3>2. t[l + 1] = c[1]
      BY <1>4, <3>1
    <3> QED
      BY <1>2, <1>4, <3>1, <3>2
  <2>3. \A i \in 1 .. l : i \notin N
    <3> SUFFICES ASSUME NEW i \in 1 .. l PROVE t[i] # X!DQ
      OBVIOUS
    <3>1. i \in 1 .. l + Len(c) /\ i <= l
      BY <1>2, <1>3
    <3>2. t[i] = v[i]
      BY <1>4, <3>1
    <3>3. v[i] # X!DQ
      BY DEF Unquoted, l
    <3> QED
      BY <3>2, <3>3
  <2> HIDE DEF N
  <2>4. /\ k \in 0 .. Len(t)
        /\ k = 0 => N = {}
        /\ k # 0 => k \in N /\ \A i \in 1 .. k - 1 : i \notin N
    BY <2>1, FirstPlace
  <2> HIDE DEF k
  <2> QED
    BY <1>3, <2>1, <2>2, <2>3, <2>4
<1> HIDE DEF k
<1>9. X!At(s, 1) = X!DQ
  BY <1>3, <1>2, <1>4, <1>5 DEF X!At
<1>10. X!From(s, l + 3) = b /\ SubSeq(s, 2, l + 1) = v
  <2>1. q \o v \in Seq(TextChars) /\ Len(q \o v) = l + 1
    BY <1>1, Ahead DEF l
  <2>2. (q \o v) \o q \in Seq(TextChars) /\ Len((q \o v) \o q) = l + 2
    BY <1>2, <1>3, <2>1, ConcatProperties
  <2>3. s = ((q \o v) \o q) \o b
    <3> DEFINE p == q \o v
    <3>1. p \in Seq(TextChars)
      BY <2>1
    <3> HIDE DEF p, q
    <3>2. Associates(p, q, b) /\ Associates(q, v, c)
      BY <1>2, <3>1, Associative
    <3>3. (p \o q) \o b = p \o c
      BY <3>2 DEF Associates, c
    <3>4. p \o c = s
      BY <3>2 DEF Associates, p, s, t
    <3> QED
      BY <3>3, <3>4 DEF p
  <2>4. X!From(s, (l + 2) + 1) = b
    <3> DEFINE a == (q \o v) \o q
    <3>1. a \in Seq(TextChars) /\ Len(a) = l + 2 /\ s = a \o b
      BY <2>2, <2>3
    <3> HIDE DEF a
    <3> QED
      BY <3>1, WhatIsBehind
  <2>5. SubSeq(s, 1 + 1, l + 1) = v
    <3>1. /\ SubSeq(s, 2, l + 1) \in Seq(TextChars)
          /\ Len(SubSeq(s, 2, l + 1)) = IF 2 <= l + 1 THEN (l + 1) - 2 + 1 ELSE 0
          /\ \A i \in 1 .. (l + 1) - 2 + 1 : SubSeq(s, 2, l + 1)[i] = s[2 + i - 1]
      <4>1. 2 \in 1 .. Len(s) + 1 /\ l + 1 \in 0 .. Len(s)
        BY <1>2, <1>3, <1>4, <1>5
      <4> QED
        BY <1>5, <4>1, Part
    <3> DEFINE u == SubSeq(s, 2, l + 1)
    <3> HIDE DEF u
    <3>2. u \in Seq(TextChars) /\ Len(u) = l /\ \A i \in 1 .. l : u[i] = s[i + 1]
      <4>1. (l + 1) - 2 + 1 = l /\ \A i \in 1 .. l : 2 + i - 1 = i + 1
        BY <1>3
      <4>2. Len(u) = l
        BY <1>3, <3>1 DEF u
      <4> QED
        BY <3>1, <4>1, <4>2 DEF u
    <3>3. \A i \in 1 .. l : s[i + 1] = v[i]
      BY <1>2, <1>3, <1>4, <1>5
    <3>4. u = v
      BY <3>2, <3>3, SeqEqual DEF l
    <3> QED
      BY <3>4 DEF u
  <2> QED
    BY <1>3, <2>4, <2>5
<1>11. (l + 1) + 2 = l + 3 /\ l + 1 # 0
  BY <1>3
<1>12. X!SelectInSeq(X!From(s, 2), LAMBDA x : x = s[1]) = l + 1
  BY <1>5, <1>6, <1>7, <1>8
<1>13. X!parse_value(s, name) = X!Gives(X!parse_space(X!From(s, (l + 1) + 2)),
                                        [name |-> name, value |-> SubSeq(s, 2, l + 1)])
  BY <1>9, <1>11, <1>12 DEF X!parse_value
<1> QED
  BY <1>10, <1>11, <1>13 DEF s, t, c

(* A recursion that calls itself last, with something smaller.            *)
TailRecursions(D, V, N, val, next) ==
  {g \in [D -> V] : \A d \in D : g[d] = IF d \in N THEN val[d] ELSE g[next[d]]}
Descends(D, N, next, m) == \A d \in D : d \notin N => m[next[d]] < m[d]

LEMMA TailExists ==
  ASSUME NEW D, NEW V, NEW m \in [D -> Nat], NEW N \in SUBSET D, NEW val \in [D -> V],
         NEW next \in [D -> D], Descends(D, N, next, m)
  PROVE  TailRecursions(D, V, N, val, next) # {}
<1> USE DEF Descends
<1> DEFINE Below(n) == {d \in D : m[d] < n}
           Gs(n) == {g \in [Below(n) -> V] :
                       \A d \in Below(n) : g[d] = IF d \in N THEN val[d] ELSE g[next[d]]}
           K == {n \in Nat : Gs(n) # {}}
<1>1. ASSUME NEW n \in Nat, NEW d \in Below(n), d \notin N
      PROVE  next[d] \in Below(n) /\ \A k \in Nat : m[d] < k + 1 => next[d] \in Below(k)
  <2>1. d \in D /\ next[d] \in D /\ m[d] \in Nat /\ m[next[d]] \in Nat /\ m[next[d]] < m[d] /\ m[d] < n
    BY <1>1
  <2> QED
    BY <2>1
<1>2. Nat \subseteq K
  <2>1. 0 \in K
    <3>1. Below(0) = {}
      OBVIOUS
    <3>2. [d \in {} |-> d] \in Gs(0)
      BY <3>1
    <3> QED
      BY <3>2
  <2>2. ASSUME NEW n \in Nat, n \in K PROVE n + 1 \in K
    <3>1. PICK g : g \in Gs(n)
      BY <2>2
    <3>2. g \in [Below(n) -> V] /\ \A d \in Below(n) : g[d] = IF d \in N THEN val[d] ELSE g[next[d]]
      BY <3>1
    <3> DEFINE h == [d \in Below(n + 1) |-> IF d \in N THEN val[d] ELSE g[next[d]]]
    <3>3. \A d \in Below(n + 1) : h[d] \in V
      <4> SUFFICES ASSUME NEW d \in Below(n + 1) PROVE h[d] \in V
        OBVIOUS
      <4>1. CASE d \in N
        BY <4>1
      <4>2. CASE d \notin N
        <5>1. next[d] \in Below(n)
          BY <1>1, <4>2
        <5> HIDE DEF Below
        <5> QED
          BY <3>2, <4>2, <5>1
      <4> QED
        BY <4>1, <4>2
    <3>4. \A d \in Below(n) : d \in Below(n + 1) /\ h[d] = g[d]
      <4>1. \A d \in Below(n) : d \in Below(n + 1)
        OBVIOUS
      <4> HIDE DEF Below
      <4> QED
        BY <3>2, <4>1
    <3>5. \A d \in Below(n + 1) : h[d] = IF d \in N THEN val[d] ELSE h[next[d]]
      <4> SUFFICES ASSUME NEW d \in Below(n + 1), d \notin N PROVE h[d] = h[next[d]]
        <5> HIDE DEF Below
        <5> QED
          OBVIOUS
      <4>1. next[d] \in Below(n)
        BY <1>1
      <4> HIDE DEF Below
      <4> QED
        BY <3>4, <4>1
    <3>6. h \in Gs(n + 1)
      <4> HIDE DEF Below
      <4>1. h \in [Below(n + 1) -> V]
        BY <3>3
      <4> HIDE DEF h
      <4> QED
        BY <3>5, <4>1
    <3> HIDE DEF Gs, h
    <3> QED
      BY <3>6
  <2> HIDE DEF K
  <2> QED
    BY <2>1, <2>2, Induction
<1>3. ASSUME NEW n \in Nat, NEW g \in Gs(n), NEW l \in Nat, NEW h \in Gs(l),
             NEW d \in D, m[d] < n, m[d] < l
      PROVE  g[d] = h[d]
  <2> DEFINE M == {k \in Nat : \A e \in D : m[e] < k /\ m[e] < n /\ m[e] < l => g[e] = h[e]}
  <2>1. 0 \in M
    OBVIOUS
  <2>2. ASSUME NEW k \in Nat, k \in M PROVE k + 1 \in M
    <3> SUFFICES ASSUME NEW e \in D, m[e] < k + 1, m[e] < n, m[e] < l PROVE g[e] = h[e]
      OBVIOUS
    <3>1. e \in Below(n) /\ e \in Below(l)
      OBVIOUS
    <3>2. /\ g[e] = IF e \in N THEN val[e] ELSE g[next[e]]
          /\ h[e] = IF e \in N THEN val[e] ELSE h[next[e]]
      <4> HIDE DEF Below
      <4> QED
        BY <3>1
    <3>3. CASE e \in N
      BY <3>2, <3>3
    <3>4. CASE e \notin N
      <4>1. next[e] \in Below(n) /\ next[e] \in Below(l) /\ next[e] \in Below(k)
        BY <1>1, <3>1, <3>4
      <4>2. g[next[e]] = h[next[e]]
        BY <2>2, <4>1
      <4> QED
        BY <3>2, <3>4, <4>2
    <3> QED
      BY <3>3, <3>4
  <2>3. n \in M
    <3> HIDE DEF M
    <3> QED
      BY <2>1, <2>2, Induction
  <2> QED
    BY <1>3, <2>3
<1> DEFINE of(n) == CHOOSE h : h \in Gs(n)
           G == [d \in D |-> of(m[d] + 1)[d]]
<1>4. \A n \in Nat : of(n) \in Gs(n)
  <2> SUFFICES ASSUME NEW n \in Nat PROVE of(n) \in Gs(n)
    OBVIOUS
  <2>1. Gs(n) # {}
    BY <1>2
  <2> HIDE DEF Gs
  <2> QED
    BY <2>1
<1>5. ASSUME NEW d \in D PROVE G[d] \in V /\ G[d] = IF d \in N THEN val[d] ELSE G[next[d]]
  <2> DEFINE n == m[d] + 1
  <2>1. n \in Nat /\ m[d] \in Nat /\ m[d] < n /\ d \in Below(n)
    OBVIOUS
  <2>2. of(n) \in Gs(n) /\ G[d] = of(n)[d]
    BY <1>4, <2>1
  <2> HIDE DEF n, of, G
  <2>3. of(n)[d] \in V /\ of(n)[d] = IF d \in N THEN val[d] ELSE of(n)[next[d]]
    <3> HIDE DEF Below
    <3> QED
      BY <2>1, <2>2
  <2>4. CASE d \in N
    BY <2>2, <2>3, <2>4
  <2>5. CASE d \notin N
    <3> DEFINE e == next[d]
               k == m[e] + 1
    <3>1. e \in D /\ e \in Below(n)
      BY <1>1, <2>1, <2>5
    <3>2. m[e] < n /\ k \in Nat /\ m[e] < k
      BY <2>1, <3>1
    <3>3. of(k) \in Gs(k)
      BY <1>4, <3>2
    <3>4. G[e] = of(k)[e]
      BY <3>1 DEF G
    <3> HIDE DEF e, k, Gs, Below
    <3>5. of(n)[e] = of(k)[e]
      BY <1>3, <2>1, <2>2, <3>1, <3>2, <3>3
    <3> QED
      BY <2>2, <2>3, <2>5, <3>4, <3>5 DEF e
  <2> QED
    BY <2>4, <2>5
<1>6. G \in [D -> V]
  BY <1>5
<1> HIDE DEF G
<1> QED
  BY <1>5, <1>6 DEF TailRecursions

(* What is left of a text from one of its places on. *)
LEMMA FromTyped ==
  ASSUME NEW s \in X!Texts, NEW i \in 1 .. Len(s) + 1
  PROVE  X!From(s, i) \in X!Texts /\ Len(s) \in Nat /\ Len(X!From(s, i)) = Len(s) + 1 - i
<1>1. s \in Seq(TextChars) /\ Len(s) \in Nat /\ Len(s) \in 0 .. Len(s)
  BY TextsAre, LenProperties
<1>2. /\ SubSeq(s, i, Len(s)) \in Seq(TextChars)
      /\ Len(SubSeq(s, i, Len(s))) = IF i <= Len(s) THEN Len(s) - i + 1 ELSE 0
  BY <1>1, Part
<1> QED
  BY <1>1, <1>2, TextsAre DEF X!From

(* A place in a text, or the one behind it. *)
LEMMA Placed ==
  ASSUME NEW s, Len(s) \in Nat, NEW Chars
  PROVE  X!End(s, Chars) \in 1 .. Len(s) + 1
<1> DEFINE N == {i \in 1 .. Len(s) : s[i] \notin Chars}
           k == Earliest(N)
<1>1. k \in 0 .. Len(s)
  <2>1. N \in SUBSET (1 .. Len(s))
    OBVIOUS
  <2> HIDE DEF N
  <2> QED
    BY <2>1, FirstPlace
<1>2. X!End(s, Chars) = IF k = 0 THEN Len(s) + 1 ELSE k
  BY DEF X!End, X!SelectInSeq, X!Min, Earliest
<1> HIDE DEF k
<1> QED
  BY <1>1, <1>2

LEMMA NameTyped ==
  ASSUME NEW s \in X!Texts
  PROVE  /\ X!parse_name(s) \in X!Texts /\ Len(X!parse_name(s)) \in 0 .. Len(s)
         /\ X!parse_name(s) # <<>> => Len(X!parse_name(s)) > 0
<1> DEFINE k == X!End(s, X!NameChars)
<1>1. s \in Seq(TextChars) /\ Len(s) \in Nat
  BY TextsAre, LenProperties
<1>2. k \in 1 .. Len(s) + 1
  BY <1>1, Placed
<1>3. <<>> \in Seq(TextChars) /\ Len(<<>>) = 0
  OBVIOUS
<1> HIDE DEF k
<1>4. /\ SubSeq(s, 1, k - 1) \in Seq(TextChars)
      /\ Len(SubSeq(s, 1, k - 1)) = IF 1 <= k - 1 THEN (k - 1) - 1 + 1 ELSE 0
  <2>1. 1 \in 1 .. Len(s) + 1 /\ k - 1 \in 0 .. Len(s)
    BY <1>1, <1>2
  <2> QED
    BY <1>1, <2>1, Part
<1>5. X!parse_name(s) = SubSeq(s, 1, k - 1) \/ X!parse_name(s) = <<>>
  BY DEF X!parse_name, k
<1> DEFINE n == X!parse_name(s)
<1>6. n \in Seq(TextChars) /\ Len(n) \in 0 .. Len(s)
  <2> DEFINE u == SubSeq(s, 1, k - 1)
  <2> HIDE DEF u
  <2>1. u \in Seq(TextChars) /\ Len(u) \in 0 .. Len(s)
    BY <1>1, <1>2, <1>4 DEF u
  <2> DEFINE e == <<>>
  <2>2. n = u \/ n = e
    BY <1>5 DEF u
  <2>3. e \in Seq(TextChars) /\ Len(e) = 0
    OBVIOUS
  <2> HIDE DEF e
  <2> HIDE DEF n
  <2>4. CASE n = u
    BY <2>1, <2>4
  <2>5. CASE n = e
    <3>1. 0 \in 0 .. Len(s)
      BY <1>1
    <3> QED
      BY <2>3, <2>5, <3>1
  <2> QED
    BY <2>2, <2>4, <2>5
<1> HIDE DEF n
<1>7. n # <<>> => Len(n) > 0
  BY <1>1, <1>6, EmptySeq
<1> QED
  BY <1>6, <1>7, TextsAre DEF n

LEMMA SpaceTyped ==
  ASSUME NEW s \in X!Texts
  PROVE  X!parse_space(s) \in X!Texts /\ Len(s) \in Nat /\ Len(X!parse_space(s)) \in 0 .. Len(s)
<1> DEFINE k == X!End(s, {Space})
<1>1. s \in Seq(TextChars) /\ Len(s) \in Nat
  BY TextsAre, LenProperties
<1>2. k \in 1 .. Len(s) + 1
  BY <1>1, Placed
<1>3. X!parse_space(s) = IF k > Len(s) THEN s ELSE X!From(s, k)
  BY SpaceParsed
<1> HIDE DEF k
<1>4. X!From(s, k) \in X!Texts /\ Len(X!From(s, k)) = Len(s) + 1 - k
  BY <1>2, FromTyped
<1> QED
  BY <1>1, <1>2, <1>3, <1>4

(* A result is shorter than what it was read from. *)
Attribute(a, n) ==
  a.error = "none" => a.rest \in X!Texts /\ Len(a.rest) \in 0 .. n /\ a.x \in X!Attributes

LEMMA ValueTyped ==
  ASSUME NEW s \in X!Texts, NEW name \in X!Texts
  PROVE  Attribute(X!parse_value(s, name), Len(s))
<1> DEFINE close == X!SelectInSeq(X!From(s, 2), LAMBDA c : c = s[1])
           bad == X!At(s, 1) \notin {X!DQ, X!SQ} \/ close = 0
           rest == X!parse_space(X!From(s, close + 2))
<1>1. s \in Seq(TextChars) /\ Len(s) \in Nat
  BY TextsAre, LenProperties
<1>2. X!parse_value(s, name) = IF bad THEN X!Fails("invalid_token")
                               ELSE X!Gives(rest, [name |-> name, value |-> SubSeq(s, 2, close)])
  BY DEF X!parse_value
<1>3. CASE bad
  <2> HIDE DEF bad
  <2> QED
    BY <1>2, <1>3 DEF Attribute, X!Fails
<1>4. CASE ~bad
  <2>0. "nul" \notin {X!DQ, X!SQ}
    BY Zenon DEF X!DQ, X!SQ
  <2>1. Len(s) > 0
    <3>1. X!At(s, 1) # "nul"
      BY <1>4, <2>0
    <3> QED
      BY <1>1, <3>1 DEF X!At
  <2>2. X!From(s, 2) \in X!Texts /\ Len(X!From(s, 2)) = Len(s) - 1
    <3>1. 2 \in 1 .. Len(s) + 1 /\ Len(s) + 1 - 2 = Len(s) - 1
      BY <1>1, <2>1
    <3> QED
      BY Zenon, <3>1, FromTyped
  <2>3. close \in 1 .. Len(s) - 1
    <3>1. Len(X!From(s, 2)) \in Nat
      BY <1>1, <2>1, <2>2
    <3> DEFINE t == X!From(s, 2)
               M == {i \in 1 .. Len(t) : t[i] = s[1]}
    <3>2. close = Earliest(M)
      BY DEF X!SelectInSeq, X!Min, Earliest
    <3>3. M \in SUBSET (1 .. Len(t))
      OBVIOUS
    <3> HIDE DEF M
    <3>4. close \in 0 .. Len(t)
      BY <3>1, <3>2, <3>3, FirstPlace
    <3> HIDE DEF close
    <3> QED
      BY <1>1, <1>4, <2>2, <3>4
  <2> HIDE DEF close, bad
  <2>4. X!From(s, close + 2) \in X!Texts /\ Len(X!From(s, close + 2)) \in 0 .. Len(s)
    <3>1. close + 2 \in 1 .. Len(s) + 1
      BY <1>1, <2>3
    <3> QED
      BY <1>1, <2>3, <3>1, FromTyped
  <2>5. rest \in X!Texts /\ Len(rest) \in 0 .. Len(s)
    BY <1>1, <2>4, SpaceTyped
  <2>6. SubSeq(s, 2, close) \in X!Texts
    <3>1. 2 \in 1 .. Len(s) + 1 /\ close \in 0 .. Len(s)
      BY <1>1, <2>1, <2>3
    <3> QED
      BY <1>1, <3>1, Part, TextsAre
  <2> HIDE DEF rest
  <2> QED
    BY <1>2, <1>4, <2>5, <2>6 DEF Attribute, X!Gives, X!Attributes
<1> QED
  BY <1>3, <1>4

LEMMA AttributeTyped ==
  ASSUME NEW s \in X!Texts, X!parse_name(s) # <<>>
  PROVE  Attribute(X!parse_attribute(s, X!parse_name(s)), Len(s) - 1)
<1> DEFINE name == X!parse_name(s)
           assign == X!parse_space(X!From(s, Len(name) + 1))
           quoted == X!parse_space(X!From(assign, 2))
           a == X!parse_attribute(s, name)
<1>1. name \in X!Texts /\ Len(name) \in 1 .. Len(s) /\ Len(s) \in Nat
  <2>1. Len(s) \in Nat
    BY TextsAre, LenProperties
  <2> QED
    BY <2>1, NameTyped
<1> HIDE DEF name
<1>2. assign \in X!Texts /\ Len(assign) \in 0 .. Len(s) - 1
  <2>1. X!From(s, Len(name) + 1) \in X!Texts /\ Len(X!From(s, Len(name) + 1)) = Len(s) + 1 - (Len(name) + 1)
    BY <1>1, FromTyped
  <2>2. assign \in X!Texts /\ Len(assign) \in 0 .. Len(X!From(s, Len(name) + 1))
    BY <2>1, SpaceTyped
  <2> HIDE DEF assign
  <2> QED
    BY <1>1, <2>1, <2>2
<1> HIDE DEF assign
<1>3. a = IF X!At(assign, 1) # "=" THEN X!Fails("invalid_token") ELSE X!parse_value(quoted, name)
  BY DEF X!parse_attribute, assign
<1>4. CASE X!At(assign, 1) # "="
  BY <1>3, <1>4 DEF Attribute, X!Fails, name
<1>5. CASE X!At(assign, 1) = "="
  <2>1. Len(assign) >= 1
    BY <1>2, <1>5 DEF X!At
  <2>2. X!From(assign, 2) \in X!Texts /\ Len(X!From(assign, 2)) = Len(assign) + 1 - 2
    <3>1. 2 \in 1 .. Len(assign) + 1
      BY <1>2, <2>1
    <3> QED
      BY <1>2, <3>1, FromTyped
  <2>3. quoted \in X!Texts /\ Len(quoted) \in 0 .. Len(s) - 1
    <3>1. quoted \in X!Texts /\ Len(quoted) \in 0 .. Len(X!From(assign, 2))
      BY <2>2, SpaceTyped
    <3> HIDE DEF quoted
    <3> QED
      BY <1>1, <1>2, <2>1, <2>2, <3>1
  <2> HIDE DEF quoted
  <2>4. Attribute(a, Len(quoted))
    BY <1>1, <1>3, <1>5, <2>3, ValueTyped
  <2> HIDE DEF a
  <2>5. Attribute(a, Len(s) - 1)
    BY <1>1, <2>3, <2>4 DEF Attribute
  <2> QED
    BY <2>5 DEF a, name
<1> QED
  BY <1>4, <1>5

(* Some attributes, or the end of them: the recursion of parse_attributes  *)
(* is defined, since every attribute leaves a shorter text.                *)
AttributesGo(s, attributes, name, a, f) ==
  IF name = <<>> THEN X!Gives(s, attributes)
  ELSE IF a.error # "none" THEN a
  ELSE IF \E b \in attributes : b.name = a.x.name THEN X!Fails("duplicate_attribute")
  ELSE f[a.rest][attributes \cup {a.x}]

AttributesRead(s, attributes, name, a) == AttributesGo(s, attributes, name, a, X!parse_attributes)

LEMMA AttributesParsed ==
  \A s \in X!Texts, attributes \in SUBSET X!Attributes :
    X!parse_attributes[s][attributes] =
      AttributesRead(s, attributes, X!parse_name(s), X!parse_attribute(s, X!parse_name(s)))
<1> DEFINE A == SUBSET X!Attributes
           D == X!Texts \X A
           attribute(s) == X!parse_attribute(s, X!parse_name(s))
           more(s, b) == /\ X!parse_name(s) # <<>> /\ attribute(s).error = "none"
                         /\ ~\E c \in b : c.name = attribute(s).x.name
           stop(s, b) == IF X!parse_name(s) = <<>> THEN X!Gives(s, b)
                         ELSE IF attribute(s).error # "none" THEN attribute(s)
                         ELSE X!Fails("duplicate_attribute")
           N == {d \in D : ~more(d[1], d[2])}
           V == {stop(d[1], d[2]) : d \in D}
           val == [d \in D |-> stop(d[1], d[2])]
           next == [d \in D |-> IF d \in N THEN d ELSE <<attribute(d[1]).rest, d[2] \cup {attribute(d[1]).x}>>]
           m == [d \in D |-> Len(d[1])]
           Body(f) == [s \in X!Texts |-> [b \in A |->
                         AttributesGo(s, b, X!parse_name(s), attribute(s), f)]]
<1>1. ASSUME NEW s \in X!Texts, NEW b \in A, more(s, b)
      PROVE  /\ attribute(s).rest \in X!Texts /\ Len(attribute(s).rest) < Len(s)
             /\ b \cup {attribute(s).x} \in A
  <2>1. Attribute(attribute(s), Len(s) - 1)
    BY <1>1, AttributeTyped
  <2>2. Len(s) \in Nat
    BY TextsAre, LenProperties
  <2> HIDE DEF attribute
  <2>3. attribute(s).rest \in X!Texts /\ Len(attribute(s).rest) \in 0 .. Len(s) - 1 /\ attribute(s).x \in X!Attributes
    BY <1>1, <2>1 DEF Attribute
  <2> QED
    BY <2>2, <2>3
<1>2. m \in [D -> Nat]
  <2>1. \A d \in D : Len(d[1]) \in Nat
    BY TextsAre, LenProperties
  <2> QED
    BY <2>1
<1>3. val \in [D -> V] /\ N \in SUBSET D
  <2> HIDE DEF stop, more, D
  <2> QED
    OBVIOUS
<1>4. next \in [D -> D] /\ \A d \in D : d \notin N => m[next[d]] < m[d]
  <2> SUFFICES ASSUME NEW d \in D, d \notin N PROVE next[d] \in D /\ m[next[d]] < m[d]
    <3> HIDE DEF D, N, attribute
    <3>1. \A d \in D : d \notin N => next[d] \in D /\ m[next[d]] < m[d]
      OBVIOUS
    <3>2. \A d \in D : d \in N => next[d] \in D
      OBVIOUS
    <3>3. next \in [D -> D]
      <4>1. \A d \in D : next[d] \in D
        BY <3>1, <3>2
      <4> QED
        BY <4>1
    <3> HIDE DEF m, next
    <3> QED
      BY <3>1, <3>3
  <2>1. d[1] \in X!Texts /\ d[2] \in A /\ more(d[1], d[2])
    OBVIOUS
  <2>2. attribute(d[1]).rest \in X!Texts /\ Len(attribute(d[1]).rest) < Len(d[1]) /\ d[2] \cup {attribute(d[1]).x} \in A
    BY <1>1, <2>1
  <2> DEFINE e == <<attribute(d[1]).rest, d[2] \cup {attribute(d[1]).x}>>
  <2>3. next[d] = e /\ d \in D
    OBVIOUS
  <2>4. e \in D /\ e[1] = attribute(d[1]).rest
    <3> HIDE DEF attribute, more, A
    <3> QED
      BY <2>2
  <2>5. m[e] = Len(e[1]) /\ m[d] = Len(d[1])
    <3> HIDE DEF e, D
    <3> QED
      BY <2>3, <2>4
  <2> HIDE DEF e, next, m, D, attribute
  <2> QED
    BY <2>2, <2>3, <2>4, <2>5
<1>5. PICK g \in [D -> V] : \A d \in D : g[d] = IF d \in N THEN val[d] ELSE g[next[d]]
  <2> HIDE DEF D, V, N, val, next, m
  <2>1. Descends(D, N, next, m)
    BY <1>4 DEF Descends
  <2>2. TailRecursions(D, V, N, val, next) # {}
    BY <1>2, <1>3, <1>4, <2>1, TailExists
  <2> QED
    BY <2>2 DEF TailRecursions
<1> DEFINE h == [s \in X!Texts |-> [b \in A |-> g[<<s, b>>]]]
<1>6. ASSUME NEW s \in X!Texts, NEW b \in A
      PROVE  g[<<s, b>>] = AttributesGo(s, b, X!parse_name(s), attribute(s), h)
  <2> DEFINE d == <<s, b>>
  <2>1. d \in D /\ d[1] = s /\ d[2] = b
    OBVIOUS
  <2>2. g[d] = IF d \in N THEN val[d] ELSE g[next[d]]
    BY <1>5, <2>1
  <2>3. d \in N <=> ~more(s, b)
    BY <2>1
  <2>4. CASE ~more(s, b)
    <3>1. g[d] = stop(s, b)
      <4>1. val[d] = stop(s, b)
        BY <2>1
      <4> HIDE DEF N, val, more, stop, d
      <4> QED
        BY <2>2, <2>3, <2>4, <4>1
    <3> QED
      BY <2>4, <3>1 DEF AttributesGo
  <2>5. CASE more(s, b)
    <3> DEFINE r == attribute(s).rest
               c == b \cup {attribute(s).x}
    <3>1. g[d] = g[<<r, c>>]
      <4>1. d \notin N
        BY <2>3, <2>5
      <4>2. next[d] = <<r, c>>
        BY <2>1, <4>1
      <4> HIDE DEF N, next, d
      <4> QED
        BY <2>2, <4>1, <4>2
    <3>2. r \in X!Texts /\ c \in A
      BY <1>1, <2>5
    <3>3. h[r][c] = g[<<r, c>>]
      <4> HIDE DEF r, c, A
      <4> QED
        BY <3>2
    <3> HIDE DEF h
    <3> QED
      BY <2>5, <3>1, <3>3 DEF AttributesGo
  <2> QED
    BY SMTT(40), <2>4, <2>5
<1>7. h = Body(h)
  <2> DEFINE x(s, b) == AttributesGo(s, b, X!parse_name(s), attribute(s), h)
  <2>1. \A s \in X!Texts : [b \in A |-> g[<<s, b>>]] = [b \in A |-> x(s, b)]
    <3> HIDE DEF x, A
    <3>1. \A s \in X!Texts, b \in A : g[<<s, b>>] = x(s, b)
      BY Zenon, <1>6 DEF x
    <3> QED
      BY <3>1
  <2>2. h = [s \in X!Texts |-> [b \in A |-> x(s, b)]]
    <3> HIDE DEF x, A
    <3> QED
      BY <2>1
  <2> HIDE DEF h
  <2> QED
    BY <2>2
<1> DEFINE p == CHOOSE f : f = Body(f)
<1> HIDE DEF h
<1>8. p = Body(p)
  <2> HIDE DEF Body
  <2> QED
    BY <1>7
<1>9. X!parse_attributes = p
  BY Zenon DEF X!parse_attributes, X!Then, AttributesGo
<1> HIDE DEF p
<1>10. X!parse_attributes = Body(X!parse_attributes)
  BY <1>8, <1>9
<1> SUFFICES ASSUME NEW s \in X!Texts, NEW b \in A
             PROVE  X!parse_attributes[s][b] = AttributesGo(s, b, X!parse_name(s), attribute(s), X!parse_attributes)
  BY DEF AttributesRead
<1> DEFINE pa == X!parse_attributes
           x(t) == [c \in A |-> AttributesGo(t, c, X!parse_name(t), attribute(t), pa)]
<1>11. pa = [t \in X!Texts |-> x(t)]
  BY <1>10
<1>12. pa[s] = x(s)
  <2> HIDE DEF x
  <2> QED
    BY <1>11
<1> QED
  BY <1>12

(* The texts of a sequence of texts, one after the other, and a text       *)
(* behind them: what is left at each of them.                              *)
Leftovers(S, seqs, e) ==
  {u \in [0 .. Len(seqs) -> Seq(S)] :
     /\ u[0] = FlattenSeq(seqs) \o e /\ u[Len(seqs)] = e
     /\ \A k \in 1 .. Len(seqs) : u[k - 1] = seqs[k] \o u[k]}

LEMMA Unflattened ==
  ASSUME NEW S, NEW seqs \in Seq(Seq(S)), NEW e \in Seq(S)
  PROVE  Leftovers(S, seqs, e) # {}
<1> DEFINE n == Len(seqs)
           w == FlattenSeq(seqs) \o e
<1>1. n \in Nat /\ \A k \in 1 .. n : seqs[k] \in Seq(S)
  BY LenProperties, ElementOfSeq
<1>2. PICK h \in [0 .. n -> Seq(S)] :
        /\ h[0] = <<>>
        /\ \A k \in 1 .. n : h[k] = h[k - 1] \o seqs[k]
        /\ FlattenSeq(seqs) = h[n]
  BY Flattened
<1> DEFINE u == [k \in 0 .. n |-> X!From(w, Len(h[k]) + 1)]
           left(k) == u[k] \in Seq(S) /\ w = h[k] \o u[k]
           K == {j \in Nat : j <= n => left(n - j)}
<1>3. u[n] = e /\ w = h[n] \o e
  <2>1. n \in 0 .. n /\ h[n] \in Seq(S) /\ w = h[n] \o e
    BY SMTT(40), <1>1, <1>2
  <2>2. X!From(h[n] \o e, Len(h[n]) + 1) = e
    BY <2>1, WhatIsBehind
  <2> HIDE DEF w, n
  <2> QED
    BY <2>1, <2>2
<1> HIDE DEF w, n
<1>4. ASSUME NEW k \in 1 .. n, u[k] \in Seq(S), w = h[k] \o u[k]
      PROVE  u[k - 1] = seqs[k] \o u[k] /\ u[k - 1] \in Seq(S) /\ w = h[k - 1] \o u[k - 1]
  <2>1. k - 1 \in 0 .. n
    BY <1>1
  <2>1a. h[k - 1] \in Seq(S) /\ seqs[k] \in Seq(S) /\ h[k] = h[k - 1] \o seqs[k]
    <3> HIDE DEF u
    <3> QED
      BY <1>1, <1>2, <2>1
  <2> DEFINE v == seqs[k] \o u[k]
  <2> HIDE DEF u
  <2>2. v \in Seq(S)
    BY <1>4, <2>1a, ConcatProperties
  <2>3. w = h[k - 1] \o v
    <3> DEFINE a == h[k - 1]
               b == seqs[k]
               c == u[k]
    <3>1. a \in Seq(S) /\ b \in Seq(S) /\ c \in Seq(S) /\ w = (a \o b) \o c
      BY <1>4, <2>1a
    <3> HIDE DEF a, b, c
    <3>2. Associates(a, b, c)
      BY <3>1, Associative
    <3> QED
      BY <3>1, <3>2 DEF Associates, a, b, c
  <2> HIDE DEF v
  <2>4. X!From(w, Len(h[k - 1]) + 1) = v
    BY <2>1a, <2>2, <2>3, WhatIsBehind
  <2>5. u[k - 1] = v
    BY <2>1, <2>4 DEF u
  <2> QED
    BY <2>2, <2>3, <2>5 DEF v
<1>5. Nat \subseteq K
  <2>1. 0 \in K
    <3>1. n - 0 = n
      BY <1>1
    <3> HIDE DEF u
    <3> QED
      BY <1>3, <3>1
  <2>2. ASSUME NEW j \in Nat, j \in K PROVE j + 1 \in K
    <3> SUFFICES ASSUME j + 1 <= n PROVE left(n - (j + 1))
      <4> HIDE DEF left
      <4> QED
        OBVIOUS
    <3> HIDE DEF u
    <3>1. n - j \in 1 .. n /\ (n - j) - 1 = n - (j + 1) /\ j <= n
      BY <1>1
    <3>2. u[n - j] \in Seq(S) /\ w = h[n - j] \o u[n - j]
      BY <2>2, <3>1
    <3> QED
      BY <1>4, <3>1, <3>2
  <2> HIDE DEF K
  <2> QED
    BY <2>1, <2>2, Induction
<1>6. \A k \in 0 .. n : u[k] \in Seq(S) /\ w = h[k] \o u[k]
  <2> SUFFICES ASSUME NEW k \in 0 .. n PROVE u[k] \in Seq(S) /\ w = h[k] \o u[k]
    <3> HIDE DEF u
    <3> QED
      OBVIOUS
  <2>1. n - k \in Nat /\ n - k <= n /\ n - (n - k) = k
    BY <1>1
  <2> HIDE DEF u
  <2> QED
    BY <1>5, <2>1
<1>7. u \in [0 .. n -> Seq(S)]
  BY <1>6
<1>8. u[0] = w
  <2>1. 0 \in 0 .. n /\ h[0] = <<>>
    BY <1>1, <1>2
  <2>2. u[0] \in Seq(S) /\ w = <<>> \o u[0]
    <3> HIDE DEF u
    <3> QED
      BY <1>6, <2>1
  <2> HIDE DEF u
  <2> QED
    BY <2>2, ConcatEmptySeq
<1>9. \A k \in 1 .. n : u[k - 1] = seqs[k] \o u[k]
  <2> SUFFICES ASSUME NEW k \in 1 .. n PROVE u[k - 1] = seqs[k] \o u[k]
    <3> HIDE DEF u
    <3> QED
      OBVIOUS
  <2>1. k \in 0 .. n
    BY <1>1
  <2> HIDE DEF u
  <2> QED
    BY <1>4, <1>6, <2>1
<1> HIDE DEF u
<1> QED
  BY <1>3, <1>7, <1>8, <1>9 DEF Leftovers, w, n

(* An attribute is a space, its name, an equals sign, and its value        *)
(* between its quotes.                                                     *)
Lays(o, m, e, q, v, u) ==
  ((((o \o m) \o (e \o q)) \o v) \o q) \o u = o \o (m \o (e \o (q \o (v \o (q \o u)))))

LEMMA Laid ==
  ASSUME NEW S, NEW o \in Seq(S), NEW m \in Seq(S), NEW e \in Seq(S), NEW q \in Seq(S), NEW v \in Seq(S),
         NEW u \in Seq(S)
  PROVE  Lays(o, m, e, q, v, u)
<1> DEFINE t == q \o u
           r == v \o t
           s == q \o r
<1>1. t \in Seq(S)
  BY ConcatProperties
<1> HIDE DEF t
<1>2. r \in Seq(S)
  BY <1>1, ConcatProperties
<1> HIDE DEF r
<1>3. s \in Seq(S)
  BY <1>2, ConcatProperties
<1> HIDE DEF s
<1> DEFINE f == o \o m
           g == e \o q
           h == f \o g
           i == h \o v
<1>4. f \in Seq(S) /\ g \in Seq(S)
  BY ConcatProperties
<1> HIDE DEF f, g
<1>5. h \in Seq(S)
  BY <1>4, ConcatProperties
<1> HIDE DEF h
<1>6. i \in Seq(S)
  BY <1>5, ConcatProperties
<1> HIDE DEF i
<1>7. (i \o q) \o u = i \o t
  <2>1. Associates(i, q, u)
    BY <1>6, Associative
  <2> QED
    BY <2>1 DEF Associates, t
<1>8. i \o t = h \o r
  <2>1. Associates(h, v, t)
    BY <1>1, <1>5, Associative
  <2> QED
    BY <2>1 DEF Associates, r, i
<1>9. h \o r = f \o (g \o r)
  <2>1. Associates(f, g, r)
    BY <1>2, <1>4, Associative
  <2> QED
    BY <2>1 DEF Associates, h
<1>10. g \o r = e \o s
  <2>1. Associates(e, q, r)
    BY <1>2, Associative
  <2> QED
    BY <2>1 DEF Associates, g, s
<1> DEFINE y == e \o s
<1>11. y \in Seq(S)
  BY <1>3, ConcatProperties
<1> HIDE DEF y
<1>12. f \o y = o \o (m \o y)
  <2>1. Associates(o, m, y)
    BY <1>11, Associative
  <2> QED
    BY <2>1 DEF Associates, f
<1>13. (i \o q) \o u = o \o (m \o y)
  BY <1>7, <1>8, <1>9, <1>10, <1>12 DEF y
<1> QED
  BY <1>13 DEF Lays, i, h, f, g, y, s, r, t

(* An attribute as it is written, without the space in front of it, and a  *)
(* text behind it.                                                         *)
Written(a, u) ==
  a.name \o (<<"=">> \o (<<X!DQ>> \o (a.value \o (<<X!DQ>> \o u))))

LEMMA AttributeWritten ==
  ASSUME NEW a \in X!Attributes, NEW u \in Seq(TextChars)
  PROVE  /\ X!attribute_to_string(a) \in Seq(TextChars)
         /\ X!attribute_to_string(a) \o u = <<Space>> \o Written(a, u)
<1> DEFINE o == <<Space>>
           e == <<"=">>
           q == <<X!DQ>>
           m == a.name
           v == a.value
<1>1. m \in Seq(TextChars) /\ v \in Seq(TextChars)
  BY TextsAre DEF X!Attributes
<1>2. o \in Seq(TextChars) /\ e \in Seq(TextChars) /\ q \in Seq(TextChars)
  <2>1. Space \in TextChars /\ "=" \in TextChars /\ X!DQ \in TextChars
    BY Apart
  <2> QED
    BY <2>1
<1>3. <<"=", X!DQ>> = e \o q
  OBVIOUS
<1>4. X!attribute_to_string(a) = (((o \o m) \o <<"=", X!DQ>>) \o v) \o q
  BY Zenon DEF X!attribute_to_string, Space
<1> HIDE DEF o, e, q, m, v
<1>5. X!attribute_to_string(a) = (((o \o m) \o (e \o q)) \o v) \o q
  BY <1>3, <1>4
<1>6. (((o \o m) \o (e \o q)) \o v) \o q \in Seq(TextChars)
  <2>1. o \o m \in Seq(TextChars) /\ e \o q \in Seq(TextChars)
    BY <1>1, <1>2, ConcatProperties
  <2>2. (o \o m) \o (e \o q) \in Seq(TextChars)
    BY <2>1, ConcatProperties
  <2>3. ((o \o m) \o (e \o q)) \o v \in Seq(TextChars)
    BY <1>1, <2>2, ConcatProperties
  <2> QED
    BY <1>2, <2>3, ConcatProperties
<1>7. Lays(o, m, e, q, v, u)
  BY <1>1, <1>2, Laid
<1>8. X!attribute_to_string(a) \o u = o \o Written(a, u)
  <2>1. Written(a, u) = m \o (e \o (q \o (v \o (q \o u))))
    BY DEF Written, m, e, q, v
  <2> QED
    BY <1>5, <1>7, <2>1 DEF Lays
<1> QED
  BY <1>5, <1>6, <1>8 DEF o

(* It is read as it was.                                                   *)
LEMMA AttributeReadBack ==
  ASSUME NEW a \in X!Attributes, X!valid_name(a.name), Unquoted(a.value), NEW u \in Seq(TextChars)
  PROVE  /\ Written(a, u) \in X!Texts
         /\ X!parse_space(X!attribute_to_string(a) \o u) = Written(a, u)
         /\ a.name # <<>> /\ X!parse_name(Written(a, u)) = a.name
         /\ X!parse_attribute(Written(a, u), a.name) = X!Gives(X!parse_space(u), a)
<1> DEFINE m == a.name
           v == a.value
           d == <<X!DQ>> \o u
           c == v \o d
           t == <<X!DQ>> \o c
           r == <<"=">> \o t
           s == m \o r
<1>1. /\ m \in X!Texts /\ m \in Seq(TextChars) /\ v \in Seq(TextChars) /\ a = [name |-> m, value |-> v]
      /\ X!valid_name(m) /\ Unquoted(v)
  BY TextsAre DEF X!Attributes
<1> HIDE DEF m, v
<1>2. d \in Seq(TextChars)
  BY Apart, Ahead
<1> HIDE DEF d
<1>3. c \in Seq(TextChars)
  BY <1>1, <1>2, ConcatProperties
<1> HIDE DEF c
<1>4. t \in Seq(TextChars) /\ t # <<>> /\ t[1] = X!DQ
  BY <1>3, Apart, Ahead
<1> HIDE DEF t
<1>5. r \in Seq(TextChars) /\ r # <<>> /\ r[1] = "=" /\ Len(r) = Len(t) + 1
  BY <1>4, Apart, Ahead
<1>6. X!From(r, 2) = t
  <2>1. <<"=">> \in Seq(TextChars) /\ Len(<<"=">>) = 1
    BY <1>4, Apart, Ahead
  <2>2. X!From(<<"=">> \o t, Len(<<"=">>) + 1) = t
    BY <1>4, <2>1, WhatIsBehind
  <2> QED
    BY <2>1, <2>2
<1> HIDE DEF r
<1>7. s \in X!Texts /\ X!From(s, Len(m) + 1) = r
  <2>1. s \in Seq(TextChars)
    BY <1>1, <1>5, ConcatProperties
  <2> QED
    BY <1>1, <1>5, <2>1, WhatIsBehind, TextsAre
<1>8. X!parse_name(s) = m
  <2>1. r[1] \notin X!NameChars
    BY <1>5, Apart
  <2> QED
    BY <1>1, <1>5, <2>1, NameRead
<1>9. m # <<>> /\ Len(m) > 0 /\ Len(m) \in Nat /\ m[1] \in X!Letters
  BY <1>1, NameValid
<1>10. s # <<>> /\ s[1] = m[1]
  <2>1. Len(s) = Len(m) + Len(r) /\ \A i \in 1 .. Len(m) + Len(r) : s[i] = IF i <= Len(m) THEN m[i] ELSE r[i - Len(m)]
    BY <1>1, <1>5, ConcatProperties
  <2>2. Len(r) \in Nat
    BY <1>5, LenProperties
  <2> HIDE DEF s
  <2> QED
    BY <1>9, <2>1, <2>2, EmptySeq
<1> HIDE DEF s
<1>11. X!parse_space(<<Space>> \o s) = s
  <2>1. s[1] # Space /\ s \in Seq(TextChars)
    BY <1>7, <1>9, <1>10, Apart, TextsAre
  <2> QED
    BY <1>10, <2>1, SpaceRead
<1>12. Written(a, u) = s
  BY DEF Written, s, r, t, c, d, m, v
<1>13. X!parse_space(X!attribute_to_string(a) \o u) = s
  BY <1>11, <1>12, AttributeWritten
<1>14. X!parse_space(r) = r /\ X!parse_space(t) = t
  <2>1. r[1] # Space /\ t[1] # Space
    BY <1>4, <1>5, Apart
  <2> QED
    BY <1>4, <1>5, <2>1, SpaceRead
<1>15. X!At(r, 1) = "="
  <2>1. Len(t) \in Nat
    BY <1>4, LenProperties
  <2> QED
    BY <1>5, <2>1 DEF X!At
<1>16. X!parse_attribute(s, m) = X!parse_value(t, m)
  BY <1>6, <1>7, <1>14, <1>15 DEF X!parse_attribute
<1>17. X!parse_value(t, m) = X!Gives(X!parse_space(u), a)
  BY <1>1, ValueRead DEF t, c, d
<1> QED
  BY <1>7, <1>8, <1>9, <1>12, <1>13, <1>16, <1>17 DEF m

(* The attributes of a tag as they are written. *)
AttributesText(A) ==
  X!FlattenSeq([i \in 1 .. X!Cardinality(A) |-> X!attribute_to_string(X!SetToSeq(A)[i])])

(* A set of attributes that can be written: its names are valid, there is  *)
(* one attribute of a name, and no double quote in a value.                *)
AttributesWritable(A) ==
  /\ IsFiniteSet(A)
  /\ \A a \in A : X!valid_name(a.name) /\ Unquoted(a.value)
  /\ \A a, b \in A : a.name = b.name => a = b

LEMMA AttributesReadBack ==
  ASSUME NEW A \in SUBSET X!Attributes, AttributesWritable(A),
         NEW e \in Seq(TextChars), e # <<>>, e[1] \in {"/", ">"}
  PROVE  /\ AttributesText(A) \in Seq(TextChars)
         /\ AttributesText(A) \o e # <<>> /\ (AttributesText(A) \o e)[1] \in {Space, "/", ">"}
         /\ X!parse_attributes[X!parse_space(AttributesText(A) \o e)][{}] = X!Gives(e, A)
<1> DEFINE n == Cardinality(A)
           q == X!SetToSeq(A)
           seqs == [i \in 1 .. n |-> X!attribute_to_string(q[i])]
           parsed(s, b) == X!parse_attributes[X!parse_space(s)][b]
           front(k) == {q[i] : i \in 1 .. k}
<1>1. /\ n \in Nat /\ X!Cardinality(A) = n /\ q \in [1 .. n -> A]
      /\ \A a \in A : \E i \in 1 .. n : q[i] = a
      /\ \A i, j \in 1 .. n : q[i] = q[j] => i = j
  BY AttributesListed DEF AttributesWritable
<1> HIDE DEF n, q
<1>2. \A i \in 1 .. n : q[i] \in A /\ q[i] \in X!Attributes
  BY <1>1
<1>3. \A i \in 1 .. n : X!attribute_to_string(q[i]) \in Seq(TextChars)
  <2> SUFFICES ASSUME NEW i \in 1 .. n PROVE X!attribute_to_string(q[i]) \in Seq(TextChars)
    OBVIOUS
  <2>1. q[i] \in X!Attributes
    BY <1>2
  <2> QED
    BY <2>1, AttributeWritten
<1>4. seqs \in Seq(Seq(TextChars)) /\ Len(seqs) = n /\ \A i \in 1 .. n : seqs[i] = X!attribute_to_string(q[i])
  <2>1. seqs \in [1 .. n -> Seq(TextChars)]
    BY <1>3
  <2> HIDE DEF seqs
  <2>2. seqs \in Seq(Seq(TextChars)) /\ Len(seqs) = n
    BY <1>1, <2>1
  <2> QED
    BY <2>2 DEF seqs
<1>5. AttributesText(A) = FlattenSeq(seqs)
  <2>1. AttributesText(A) = X!FlattenSeq(seqs)
    BY <1>1 DEF AttributesText, q
  <2> HIDE DEF seqs
  <2>2. X!FlattenSeq(seqs) = FlattenSeq(seqs)
    BY DEF X!FlattenSeq, FlattenSeq
  <2> QED
    BY <2>1, <2>2
<1> HIDE DEF seqs
<1>6. FlattenSeq(seqs) \in Seq(TextChars)
  BY <1>4, FlattenAppend
<1>7. PICK u \in [0 .. n -> Seq(TextChars)] :
        /\ u[0] = FlattenSeq(seqs) \o e /\ u[n] = e
        /\ \A k \in 1 .. n : u[k - 1] = seqs[k] \o u[k]
  <2>1. Leftovers(TextChars, seqs, e) # {}
    BY <1>4, Unflattened
  <2>2. Len(seqs) = n
    BY <1>4
  <2> QED
    BY <2>1, <2>2 DEF Leftovers
<1>8. ASSUME NEW k \in 1 .. n
      PROVE  /\ parsed(u[k - 1], front(k - 1)) = parsed(u[k], front(k))
             /\ u[k - 1] # <<>> /\ u[k - 1][1] = Space
  <2> DEFINE a == q[k]
             v == u[k]
             s == Written(a, v)
             b == front(k - 1)
  <2>1. /\ a \in X!Attributes /\ a \in A /\ X!valid_name(a.name) /\ Unquoted(a.value)
        /\ v \in Seq(TextChars) /\ u[k - 1] = X!attribute_to_string(a) \o v
    <3>1. k \in 0 .. n
      BY <1>1
    <3>2. u[k - 1] = seqs[k] \o u[k]
      BY <1>7
    <3>3. u[k] \in Seq(TextChars)
      BY <1>7, <3>1
    <3>4. q[k] \in A /\ q[k] \in X!Attributes /\ seqs[k] = X!attribute_to_string(q[k])
      BY <1>2, <1>4
    <3> QED
      BY <3>2, <3>3, <3>4 DEF AttributesWritable
  <2> HIDE DEF a, v
  <2>2. /\ s \in X!Texts /\ X!parse_space(u[k - 1]) = s
        /\ a.name # <<>> /\ X!parse_name(s) = a.name
        /\ X!parse_attribute(s, a.name) = X!Gives(X!parse_space(v), a)
    BY <2>1, AttributeReadBack
  <2>3. u[k - 1] # <<>> /\ u[k - 1][1] = Space
    <3>1. u[k - 1] = <<Space>> \o s /\ s \in Seq(TextChars) /\ Space \in TextChars
      BY <2>1, <2>2, AttributeWritten, Apart, TextsAre
    <3> HIDE DEF s
    <3>2. <<Space>> \o s # <<>> /\ (<<Space>> \o s)[1] = Space
      BY <3>1, Ahead
    <3> QED
      BY <3>1, <3>2
  <2> HIDE DEF s
  <2>4. b \in SUBSET X!Attributes /\ ~\E c \in b : c.name = a.name
    <3>1. \A i \in 1 .. k - 1 : i \in 1 .. n /\ i # k
      BY <1>1
    <3>2. b \in SUBSET X!Attributes
      BY <1>2, <3>1
    <3>3. ASSUME NEW i \in 1 .. k - 1, q[i].name = a.name PROVE FALSE
      <4>1. q[i] \in A
        BY <1>2, <3>1
      <4>2. q[i] = a
        BY <2>1, <3>3, <4>1 DEF AttributesWritable
      <4> QED
        BY <1>1, <3>1, <4>2 DEF a
    <3> QED
      BY <3>2, <3>3
  <2>5. front(k) = b \cup {a}
    <3>1. \A i \in 1 .. k : i \in 1 .. k - 1 \/ i = k
      BY <1>1
    <3>2. \A i \in 1 .. k - 1 : i \in 1 .. k
      BY <1>1
    <3>3. k \in 1 .. k
      BY <1>1
    <3> QED
      BY <3>1, <3>2, <3>3 DEF a
  <2> HIDE DEF b, front
  <2> DEFINE r == X!Gives(X!parse_space(v), a)
  <2>6. r.error = "none" /\ r.rest = X!parse_space(v) /\ r.x = a
    BY DEF X!Gives
  <2>7. X!parse_attributes[s][b] = AttributesRead(s, b, a.name, r)
    BY <2>2, <2>4, AttributesParsed
  <2> HIDE DEF r
  <2>8. AttributesRead(s, b, a.name, r) = X!parse_attributes[X!parse_space(v)][b \cup {a}]
    BY <2>2, <2>4, <2>6 DEF AttributesRead, AttributesGo
  <2>9. parsed(u[k - 1], b) = parsed(v, front(k))
    BY <2>2, <2>5, <2>7, <2>8
  <2> HIDE DEF parsed
  <2> QED
    BY <2>3, <2>9 DEF b, v
<1> HIDE DEF parsed
<1>9. parsed(u[0], {}) = parsed(u[n], front(n))
  <2> DEFINE K == {k \in Nat : k <= n => parsed(u[0], {}) = parsed(u[k], front(k))}
  <2>1. 0 \in K
    <3>1. front(0) = {}
      OBVIOUS
    <3> HIDE DEF front
    <3> QED
      BY <3>1
  <2> HIDE DEF front
  <2>2. ASSUME NEW k \in Nat, k \in K PROVE k + 1 \in K
    <3> SUFFICES ASSUME k + 1 <= n PROVE parsed(u[0], {}) = parsed(u[k + 1], front(k + 1))
      OBVIOUS
    <3>1. k + 1 \in 1 .. n /\ (k + 1) - 1 = k /\ k <= n
      BY <1>1
    <3>2. parsed(u[k], front(k)) = parsed(u[k + 1], front(k + 1))
      BY <1>8, <3>1
    <3> QED
      BY <2>2, <3>1, <3>2
  <2>3. n \in K
    <3> HIDE DEF K
    <3> QED
      BY <1>1, <2>1, <2>2, Induction
  <2> QED
    BY <1>1, <2>3
<1>10. front(n) = A
  BY <1>1
<1>11. parsed(e, A) = X!Gives(e, A)
  <2>1. e[1] # Space
    BY Apart
  <2>2. X!parse_space(e) = e /\ e \in X!Texts
    BY <2>1, SpaceRead, TextsAre
  <2>3. X!parse_name(e) = <<>>
    <3>1. Len(e) \in Nat /\ Len(e) > 0
      BY LenProperties, EmptySeq
    <3>2. X!At(e, 1) = e[1]
      BY <3>1 DEF X!At
    <3>3. X!At(e, 1) \notin X!Letters
      BY <3>2, Apart
    <3> QED
      BY <3>3 DEF X!parse_name
  <2>4. X!parse_attributes[e][A] = AttributesRead(e, A, X!parse_name(e), X!parse_attribute(e, X!parse_name(e)))
    BY <2>2, AttributesParsed
  <2> QED
    BY <2>2, <2>3, <2>4 DEF AttributesRead, AttributesGo, parsed
<1>12. u[0] # <<>> /\ u[0][1] \in {Space, "/", ">"}
  <2>1. CASE n = 0
    BY <1>7, <2>1
  <2>2. CASE n # 0
    <3>1. 1 \in 1 .. n /\ 1 - 1 = 0
      BY <1>1, <2>2
    <3> QED
      BY <1>8, <3>1
  <2> QED
    BY <2>1, <2>2
<1> HIDE DEF front
<1> QED
  BY <1>5, <1>6, <1>7, <1>9, <1>10, <1>11, <1>12 DEF parsed

(* A character in front of a text. *)
LEMMA CharAhead ==
  ASSUME NEW c \in TextChars, NEW b \in Seq(TextChars)
  PROVE  /\ <<c>> \o b \in Seq(TextChars) /\ <<c>> \o b # <<>> /\ (<<c>> \o b)[1] = c
         /\ X!At(<<c>> \o b, 1) = c /\ X!From(<<c>> \o b, 2) = b
<1> DEFINE w == <<c>> \o b
<1>1. <<c>> \in Seq(TextChars) /\ Len(<<c>>) = 1 /\ w \in Seq(TextChars) /\ Len(w) = Len(b) + 1 /\ w[1] = c /\ w # <<>>
  BY Ahead
<1>2. X!From(<<c>> \o b, Len(<<c>>) + 1) = b
  BY <1>1, WhatIsBehind
<1>3. X!From(w, 2) = b
  BY <1>1, <1>2
<1> HIDE DEF w
<1>4. X!At(w, 1) = c
  <2>1. Len(b) \in Nat
    BY LenProperties
  <2> QED
    BY <1>1, <2>1 DEF X!At
<1> QED
  BY <1>1, <1>3, <1>4 DEF w

(* A name at the front, and what is left without it. *)
LEMMA NameAhead ==
  ASSUME NEW name \in X!Texts, X!valid_name(name), NEW b \in Seq(TextChars), b # <<>>,
         b[1] \in {Space, "=", "/", ">"}
  PROVE  /\ name \in Seq(TextChars) /\ name # <<>> /\ Len(name) \in Nat
         /\ name \o b \in Seq(TextChars) /\ X!parse_name(name \o b) = name
         /\ X!From(name \o b, Len(name) + 1) = b
<1>1. name \in Seq(TextChars) /\ name # <<>> /\ Len(name) \in Nat
  BY NameValid
<1>2. b[1] \notin X!NameChars
  BY Apart
<1> QED
  BY <1>1, <1>2, NameRead, WhatIsBehind, ConcatProperties

(* What is left from the second of the places on, one character on. *)
LEMMA FromNext ==
  ASSUME NEW c \in TextChars, NEW b \in Seq(TextChars), NEW i \in 1 .. Len(b) + 1
  PROVE  X!From(<<c>> \o b, i + 1) = X!From(b, i)
<1> DEFINE w == <<c>> \o b
           n == Len(b)
<1>1. w \in Seq(TextChars) /\ Len(w) = n + 1 /\ \A k \in 1 .. n : w[k + 1] = b[k]
  BY Ahead
<1>2. n \in Nat
  BY LenProperties
<1> HIDE DEF w
<1> DEFINE r == SubSeq(w, i + 1, Len(w))
           s == SubSeq(b, i, Len(b))
<1>3. /\ r \in Seq(TextChars) /\ Len(r) = (IF i + 1 <= Len(w) THEN Len(w) - (i + 1) + 1 ELSE 0)
      /\ \A k \in 1 .. Len(w) - (i + 1) + 1 : r[k] = w[(i + 1) + k - 1]
  <2>1. i + 1 \in 1 .. Len(w) + 1 /\ Len(w) \in 0 .. Len(w)
    BY <1>1, <1>2
  <2> QED
    BY <1>1, <2>1, Part
<1>4. /\ s \in Seq(TextChars) /\ Len(s) = (IF i <= Len(b) THEN Len(b) - i + 1 ELSE 0)
      /\ \A k \in 1 .. Len(b) - i + 1 : s[k] = b[i + k - 1]
  <2>1. Len(b) \in 0 .. Len(b)
    BY <1>2
  <2> QED
    BY <2>1, Part
<1> HIDE DEF r, s
<1>5. Len(r) = Len(s)
  BY <1>1, <1>2, <1>3, <1>4
<1>6. ASSUME NEW k \in 1 .. Len(s) PROVE r[k] = s[k]
  <2>1. /\ k \in 1 .. Len(w) - (i + 1) + 1 /\ k \in 1 .. Len(b) - i + 1
        /\ (i + 1) + k - 1 = (i + k - 1) + 1 /\ i + k - 1 \in 1 .. n
    BY <1>1, <1>2, <1>4
  <2>2. r[k] = w[(i + k - 1) + 1] /\ s[k] = b[i + k - 1]
    BY <1>3, <1>4, <2>1
  <2> QED
    BY <1>1, <2>1, <2>2
<1>7. r = s
  BY <1>3, <1>4, <1>5, <1>6, SeqEqual
<1> QED
  BY <1>7 DEF X!From, r, s, w

(* A tag that can be written. *)
Writable(tag) ==
  /\ tag \in [name : X!Texts, attributes : SUBSET X!Attributes]
  /\ X!valid_name(tag.name) /\ AttributesWritable(tag.attributes)

LEMMA StartReadBack ==
  ASSUME NEW tag, Writable(tag), NEW rest \in Seq(TextChars), NEW type \in {"start", "empty"}
  PROVE  X!parse_start(X!tag_to_string(tag, type) \o rest) =
           X!Gives(rest, [tag |-> tag, empty |-> type = "empty"])
<1> DEFINE m == tag.name
           A == tag.attributes
           body == AttributesText(A)
           e == IF type = "empty" THEN <<"/">> \o (<<">">> \o rest) ELSE <<">">> \o rest
           f == body \o e
           t == m \o f
           s == <<"<">> \o t
<1>1. m \in X!Texts /\ A \in SUBSET X!Attributes /\ tag = [name |-> m, attributes |-> A]
      /\ X!valid_name(m) /\ AttributesWritable(A)
  BY DEF Writable
<1> HIDE DEF m, A
<1>2. "<" \in TextChars /\ "/" \in TextChars /\ ">" \in TextChars
  BY Apart
<1>3. <<">">> \o rest \in Seq(TextChars) /\ X!At(<<">">> \o rest, 1) = ">" /\ X!From(<<">">> \o rest, 2) = rest
      /\ <<">">> \o rest # <<>> /\ (<<">">> \o rest)[1] = ">"
  BY <1>2, CharAhead
<1>4. e \in Seq(TextChars) /\ e # <<>> /\ e[1] \in {"/", ">"} /\ X!At(e, 1) = e[1]
      /\ IF type = "empty" THEN e[1] = "/" /\ X!From(e, 2) = <<">">> \o rest ELSE e = <<">">> \o rest /\ e[1] = ">"
  <2> DEFINE c == <<">">> \o rest
             d == <<"/">> \o c
  <2>1. c \in Seq(TextChars) /\ X!At(c, 1) = ">" /\ c # <<>> /\ c[1] = ">"
    BY <1>3
  <2> HIDE DEF c
  <2>2. d \in Seq(TextChars) /\ X!At(d, 1) = "/" /\ d # <<>> /\ d[1] = "/" /\ X!From(d, 2) = c
    BY <1>2, <2>1, CharAhead
  <2> HIDE DEF d
  <2>3. e = IF type = "empty" THEN d ELSE c
    BY DEF d, c
  <2> HIDE DEF e
  <2>4. e \in Seq(TextChars) /\ e # <<>> /\ e[1] \in {"/", ">"} /\ X!At(e, 1) = e[1]
        /\ IF type = "empty" THEN e[1] = "/" /\ X!From(e, 2) = c ELSE e = c /\ e[1] = ">"
    BY <2>1, <2>2, <2>3
  <2> QED
    BY <2>4 DEF c
<1> HIDE DEF e
<1>5. /\ body \in Seq(TextChars) /\ f # <<>> /\ f[1] \in {Space, "/", ">"}
      /\ X!parse_attributes[X!parse_space(f)][{}] = X!Gives(e, A)
  BY <1>1, <1>4, AttributesReadBack
<1> HIDE DEF body
<1>6. f \in Seq(TextChars)
  BY <1>4, <1>5, ConcatProperties
<1>7. X!tag_to_string(tag, type) \o rest = s
  <2> DEFINE z == IF type = "empty" THEN <<"/", ">">> ELSE <<">">>
             o == <<"<">>
  <2>1. X!tag_to_string(tag, type) = (((o \o <<>>) \o m) \o body) \o z
    <3>1. type # "end"
      OBVIOUS
    <3> QED
      BY <3>1 DEF X!tag_to_string, body, AttributesText, A, m
  <2>2. o \in Seq(TextChars) /\ z \in Seq(TextChars) /\ m \in Seq(TextChars)
    BY <1>1, <1>2, TextsAre
  <2>3. z \o rest = e
    <3>1. CASE type = "empty"
      <4>1. <<"/", ">">> = <<"/">> \o <<">">>
        OBVIOUS
      <4> DEFINE x == <<"/">>
                 y == <<">">>
      <4>2. x \in Seq(TextChars) /\ y \in Seq(TextChars)
        BY <1>2
      <4> HIDE DEF x, y
      <4>3. Associates(x, y, rest)
        BY <4>2, Associative
      <4>4. (x \o y) \o rest = x \o (y \o rest)
        BY <4>3 DEF Associates
      <4> QED
        BY <3>1, <4>1, <4>4 DEF e, x, y
    <3>2. CASE type # "empty"
      BY <3>2 DEF e
    <3> QED
      BY <3>1, <3>2
  <2> HIDE DEF o, z
  <2>4. o \o <<>> = o
    BY <2>2, ConcatEmptySeq
  <2> DEFINE x == o \o m
  <2>5. x \in Seq(TextChars)
    BY <2>2, ConcatProperties
  <2> DEFINE y == x \o body
  <2> HIDE DEF x
  <2>6. y \in Seq(TextChars)
    BY <1>5, <2>5, ConcatProperties
  <2> HIDE DEF y
  <2>7. Associates(y, z, rest) /\ Associates(x, body, e) /\ Associates(o, m, f)
    BY <1>4, <1>5, <1>6, <2>2, <2>5, <2>6, Associative
  <2>8. (y \o z) \o rest = y \o e
    BY <2>3, <2>7 DEF Associates
  <2>9. y \o e = x \o f
    BY <2>7 DEF Associates, y
  <2>10. x \o f = o \o t
    BY <2>7 DEF Associates, x
  <2>11. X!tag_to_string(tag, type) = y \o z
    BY <2>1, <2>4 DEF y, x
  <2> QED
    BY <2>8, <2>9, <2>10, <2>11 DEF o
<1> HIDE DEF f
<1>8. /\ m \in Seq(TextChars) /\ m # <<>> /\ Len(m) \in Nat
      /\ t \in Seq(TextChars) /\ X!parse_name(t) = m /\ X!From(t, Len(m) + 1) = f
  BY <1>1, <1>5, <1>6, NameAhead
<1>9. Len(m) + 1 \in 1 .. Len(t) + 1
  <2>1. Len(t) = Len(m) + Len(f) /\ Len(f) \in Nat
    BY <1>6, <1>8, ConcatProperties, LenProperties
  <2> HIDE DEF t
  <2> QED
    BY <1>8, <2>1
<1> HIDE DEF t
<1>10. X!From(s, 2) = t /\ X!From(s, Len(m) + 2) = f
  <2>1. X!From(s, (Len(m) + 1) + 1) = f
    BY <1>2, <1>8, <1>9, FromNext
  <2>2. (Len(m) + 1) + 1 = Len(m) + 2
    BY <1>8
  <2> QED
    BY <1>2, <1>8, <2>1, <2>2, CharAhead
<1> HIDE DEF s
<1>11. X!Tag(m, A) = tag
  BY <1>1 DEF X!Tag
<1> DEFINE a == X!Gives(e, A)
<1>12. a.error = "none" /\ a.rest = e /\ a.x = A
  BY DEF X!Gives
<1> HIDE DEF a
<1>13. X!parse_start(s) =
         IF X!At(e, 1) = "/" THEN X!parse_close(X!From(e, 2), [tag |-> tag, empty |-> TRUE])
         ELSE X!parse_close(e, [tag |-> tag, empty |-> FALSE])
  <2>1. X!parse_attributes[X!parse_space(X!From(s, Len(m) + 2))][{}] = a
    BY <1>5, <1>10 DEF a
  <2>2. X!parse_name(X!From(s, 2)) = m
    BY <1>8, <1>10
  <2> QED
    BY <1>8, <1>11, <1>12, <2>1, <2>2 DEF X!parse_start, X!Then
<1>14. CASE type = "empty"
  <2>1. X!parse_start(s) = X!parse_close(<<">">> \o rest, [tag |-> tag, empty |-> TRUE])
    BY <1>4, <1>13, <1>14
  <2> QED
    BY <1>3, <1>7, <1>14, <2>1 DEF X!parse_close
<1>15. CASE type # "empty"
  <2>1. X!parse_start(s) = X!parse_close(<<">">> \o rest, [tag |-> tag, empty |-> FALSE])
    BY <1>4, <1>13, <1>15
  <2> QED
    BY <1>3, <1>7, <1>15, <2>1 DEF X!parse_close
<1> QED
  BY <1>14, <1>15

LEMMA EndReadBack ==
  ASSUME NEW tag, Writable(tag), NEW rest \in Seq(TextChars)
  PROVE  X!parse_end(X!tag_to_string(tag, "end") \o rest, tag) = X!Gives(rest, tag)
<1> DEFINE m == tag.name
           e == <<">">> \o rest
           t == m \o e
           r == <<"/">> \o t
           s == <<"<">> \o r
<1>1. m \in X!Texts /\ X!valid_name(m)
  BY DEF Writable
<1> HIDE DEF m
<1>2. "<" \in TextChars /\ "/" \in TextChars /\ ">" \in TextChars
  BY Apart
<1>3. e \in Seq(TextChars) /\ X!At(e, 1) = ">" /\ X!From(e, 2) = rest /\ e # <<>> /\ e[1] = ">"
  BY <1>2, CharAhead
<1> HIDE DEF e
<1>4. /\ m \in Seq(TextChars) /\ m # <<>> /\ Len(m) \in Nat
      /\ t \in Seq(TextChars) /\ X!parse_name(t) = m /\ X!From(t, Len(m) + 1) = e
  BY <1>1, <1>3, NameAhead
<1>5. Len(m) + 1 \in 1 .. Len(t) + 1
  <2>1. Len(t) = Len(m) + Len(e) /\ Len(e) \in Nat
    BY <1>3, <1>4, ConcatProperties, LenProperties
  <2> HIDE DEF t
  <2> QED
    BY <1>4, <2>1
<1>6. X!tag_to_string(tag, "end") \o rest = s
  <2> DEFINE o == <<"<">>
             c == <<"/">>
             z == <<">">>
  <2>1. X!tag_to_string(tag, "end") = (((o \o c) \o m) \o <<>>) \o z
    BY DEF X!tag_to_string, m
  <2>2. o \in Seq(TextChars) /\ c \in Seq(TextChars) /\ z \in Seq(TextChars)
    BY <1>2
  <2> HIDE DEF o, c, z
  <2> DEFINE x == o \o c
  <2>3. x \in Seq(TextChars)
    BY <2>2, ConcatProperties
  <2> HIDE DEF x
  <2> DEFINE y == x \o m
  <2>4. y \in Seq(TextChars)
    BY <1>4, <2>3, ConcatProperties
  <2> HIDE DEF y
  <2>5. y \o <<>> = y
    BY <2>4, ConcatEmptySeq
  <2>6. Associates(y, z, rest) /\ Associates(x, m, e) /\ Associates(o, c, t)
    BY <1>3, <1>4, <2>2, <2>3, <2>4, Associative
  <2>7. (y \o z) \o rest = y \o e
    BY <2>6 DEF Associates, e, z
  <2>8. y \o e = x \o t
    BY <2>6 DEF Associates, y
  <2>9. x \o t = o \o (c \o t)
    BY <2>6 DEF Associates, x
  <2>10. X!tag_to_string(tag, "end") = y \o z
    BY <2>1, <2>5 DEF y, x
  <2> QED
    BY <2>7, <2>8, <2>9, <2>10 DEF o, c
<1> HIDE DEF t
<1>7. r \in Seq(TextChars) /\ X!From(r, 2) = t /\ Len(r) = Len(t) + 1
  BY <1>2, <1>4, CharAhead, Ahead
<1>8. X!From(r, (Len(m) + 1) + 1) = e
  BY <1>2, <1>4, <1>5, FromNext
<1> HIDE DEF r
<1>9. Len(t) \in Nat
  BY <1>4, LenProperties
<1>10. X!From(s, 3) = t
  <2>1. 2 \in 1 .. Len(r) + 1 /\ 2 + 1 = 3
    BY <1>7, <1>9
  <2>2. X!From(s, 2 + 1) = t
    BY <1>2, <1>7, <2>1, FromNext
  <2> QED
    BY <2>1, <2>2
<1>11. X!From(s, Len(m) + 3) = e
  <2> DEFINE i == (Len(m) + 1) + 1
  <2>1. i \in 1 .. Len(r) + 1 /\ i + 1 = Len(m) + 3
    BY <1>4, <1>5, <1>7, <1>9
  <2> HIDE DEF i
  <2>2. X!From(s, i + 1) = X!From(r, i)
    BY <1>2, <1>7, <2>1, FromNext
  <2> QED
    BY <1>8, <2>1, <2>2 DEF i
<1> HIDE DEF s
<1>12. X!parse_space(e) = e
  <2>1. e[1] # Space
    BY <1>3, Apart
  <2> QED
    BY <1>3, <2>1, SpaceRead
<1> QED
  BY <1>3, <1>4, <1>6, <1>10, <1>11, <1>12 DEF X!parse_end, X!parse_close, m

(* A tag that is written and read again is the same, and nothing of what   *)
(* is behind it is touched (tag::to_string and tag::parse).                *)
THEOREM TagReadBack ==
  \A tag : \A rest \in Seq(TextChars) :
    Writable(tag) =>
      /\ \A type \in {"start", "empty"} :
           X!parse_start(X!tag_to_string(tag, type) \o rest) =
             X!Gives(rest, [tag |-> tag, empty |-> type = "empty"])
      /\ X!parse_end(X!tag_to_string(tag, "end") \o rest, tag) = X!Gives(rest, tag)
  BY StartReadBack, EndReadBack
=============================================================================
