---------------------------- MODULE ProgramProofs ---------------------------
(***************************************************************************)
(* Proofs about Program and the parts it brings together: the functions    *)
(* that decode what the program is handed (environments, numbers,          *)
(* addresses), the ids of a process (Credentials), the system log (Syslog),*)
(* the scan of a directory (EntryScan) and connections and devices         *)
(* (Handles), for every set of users, streams, entries, handles and        *)
(* functions of the caller, and every bound.                               *)
(***************************************************************************)
EXTENDS Program, FunctionsProofs

----------------------------------------------------------------------------
(* Decodes: the calls that decode something.                               *)

LEMMA DecodeKinds ==
  ASSUME Asking
  PROVE  /\ call.fn = "to_int" =>
              /\ call.source \in BoundedSeq(C!Chars, MaxText) /\ call.base \in {0, 8, 10, 16}
              /\ call.signed \in BOOLEAN
         /\ call.fn = "to_bool" =>
              call.source \in BoundedSeq(C!Chars, MaxText) \cup C!Truths /\ call.text \in BOOLEAN
         /\ call.fn = "arguments" => call.args \in BoundedSeq(EnvValues, MaxSteps) /\ call.prepend \in EnvValues
         /\ call.fn = "from_charpp" => call.envp \in BoundedSeq(EnvStrings, MaxSteps) /\ call.name \in EnvNames
         /\ call.fn \in {"setenv", "unsetenv"} =>
              /\ call.envp \in BoundedSeq(EnvStrings, MaxSteps) /\ call.name \in EnvNames
              /\ call.value \in EnvValues /\ call.over \in BOOLEAN
         /\ call.fn = "to_charpp" => call.env \in UNION {[D -> EnvValues] : D \in SUBSET EnvNames}
         /\ call.fn = "optional" => call.steps \in BoundedSeq(O!OptionalSteps, MaxSteps)
BY SMTT(40) DEF Asking, ReadingCalls, DataCalls

LEMMA DecodeEvaluates ==
         /\ call.fn = "read_input" =>
              Evaluate(call) = read_input(Packed(call.on, call.offset, 8), call.offset, call.input)
         /\ call.fn = "to_int" => Evaluate(call) = C!to_int(call.source, call.base, call.signed, MaxInt)
         /\ call.fn = "to_bool" => Evaluate(call) = C!to_bool(call.source, call.text, MaxInt)
         /\ call.fn = "arguments" => Evaluate(call) = E!arguments_to_charpp_prepend(call.prepend, call.args)
         /\ call.fn = "from_charpp" =>
              Evaluate(call) = [env |-> E!from_charpp(call.envp), one |-> E!get(call.envp, call.name)]
         /\ call.fn = "setenv" => Evaluate(call) = E!this_insert(call.envp, call.name, call.value, call.over)
         /\ call.fn = "unsetenv" => Evaluate(call) = E!this_erase(call.envp, call.name)
         /\ call.fn = "to_charpp" => Evaluate(call) = E!to_charpp(call.env)
         /\ call.fn = "optional" => Evaluate(call) = O!Ran(call.steps)
BY DEF Evaluate

LEMMA ExecuteHolds ==
  ASSUME Asking, Answered, returned
  PROVE  ExecuteTells
<1> SUFFICES ASSUME call.fn = "execute" PROVE ExecuteTells
  BY DEF ExecuteTells, Returned
<1>1. call.how \in Endings /\ result = execute(system(call.how))
  BY Kinds, Evaluates DEF Answered
<1>2. call.how.kind \in {"exit", "signal", "core", "no_child", "no_shell"}
  BY <1>1 DEF Endings
<1> DEFINE e == call.how
<1>3. /\ e.kind = "exit" => result = [kind |-> "exit", n |-> e.n]
      /\ e.kind \in {"signal", "core"} => result = [kind |-> "term", n |-> e.n]
      /\ e.kind = "no_child" => result = Throws
  BY <1>1, StatusDecoded
<1> QED
  BY <1>2, <1>3 DEF ExecuteTells

LEMMA InputsHold ==
  ASSUME Asking, Answered, returned
  PROVE  InputsApart
<1> SUFFICES ASSUME call.fn = "read_input" PROVE result <=> call.input \in call.on
  BY DEF InputsApart, Returned
<1>1. /\ call \in [fn : {"read_input"}, on : {{i} : i \in Inputs}, offset : Offsets, input : Inputs]
      /\ result = read_input(Packed(call.on, call.offset, 8), call.offset, call.input)
  BY Kinds, DecodeEvaluates DEF Answered
<1>2. call.offset \in Offsets /\ call.input \in Inputs
  BY <1>1
<1> DEFINE offset == call.offset
           input == call.input
           on == call.on
<1>3. /\ MaxUnsigned \in Nat /\ offset \in Nat /\ 8 \in Nat /\ offset + 8 <= MaxUnsigned + 1
      /\ input \in 1 .. MaxUnsigned /\ input <= 8 * 8
  <2>1. /\ MaxUnsigned \in Nat /\ MaxUnsigned >= 64
    BY MaxUnsignedAssumption
  <2>2. input \in 1 .. 64 /\ offset \in 0 .. MaxUnsigned - 7
    BY <1>2, InputsAssumption
  <2> HIDE DEF input, offset
  <2> QED
    BY <2>1, <2>2
<1> HIDE DEF offset, input, on
<1>4. read_input(Packed(on, offset, 8), offset, input) <=> input \in on
  BY <1>3, InputsKeptApart
<1> QED
  BY <1>1, <1>4 DEF offset, input, on

LEMMA OptionalsKept ==
  ASSUME Asking, Answered, returned
  PROVE  OptionalHolds
<1> SUFFICES ASSUME call.fn = "optional" PROVE OptionalHolds
  BY DEF OptionalHolds, Returned
<1> DEFINE steps == call.steps
           stored == O!StoredLast(steps)
<1>1. steps \in BoundedSeq(O!OptionalSteps, MaxSteps) /\ result = O!Ran(steps)
  BY DecodeKinds, DecodeEvaluates DEF Answered
<1>2. steps \in Seq(O!OptionalSteps)
  <2>1. MaxSteps \in Nat
    BY MaxInputAssumption
  <2> HIDE DEF steps
  <2> QED
    BY <1>1, <2>1, Bounded
<1>3. /\ \A i \in 1 .. 2 : stored[i] = O!Shown(result[i])
      /\ O!equal(result[1], result[2]) <=> stored[1] = stored[2]
  <2> HIDE DEF steps
  <2>1. stored = O!StoredLast(steps)
    OBVIOUS
  <2> HIDE DEF stored
  <2> QED
    BY <1>1, <1>2, <2>1, OptionalsHold
<1> QED
  BY <1>3 DEF OptionalHolds

(* net::address(in_addr_t) and value(): an integer of 32 bits comes back as it
   was given, its four bytes are bytes, and the first one is 127 for the
   addresses 127.0.0.0 to 127.255.255.255 and for no other. *)
THEOREM AddressKept ==
  ASSUME NEW x \in Nat, x < 256 * 256 * 256 * 256
  PROVE  /\ C!address_value(C!address(x)) = x
         /\ C!address(x) \in [1 .. 4 -> 0 .. 255]
         /\ C!address(x)[1] = 127 <=> ((x \div 256) \div 256) \div 256 = 127
<1> DEFINE y == x \div 256
           z == y \div 256
           p == z \div 256
<1>1. /\ y \in Nat /\ x = y * 256 + (x % 256) /\ x % 256 \in 0 .. 255
  BY SMT
<1>2. /\ z \in Nat /\ y = z * 256 + (y % 256) /\ y % 256 \in 0 .. 255
  <2> HIDE DEF y
  <2> QED
    BY <1>1, SMT
<1>3. /\ p \in Nat /\ z = p * 256 + (z % 256) /\ z % 256 \in 0 .. 255
  <2> HIDE DEF z
  <2> QED
    BY <1>2, SMT
<1>4. C!address(x) = <<p, z % 256, y % 256, x % 256>>
  BY DEF C!address
<1>5. p = ((x \div 256) \div 256) \div 256
  OBVIOUS
<1> HIDE DEF p, y, z
<1>6. p \in 0 .. 255
  BY <1>1, <1>2, <1>3, SMT
<1>7. ((p * 256 + (z % 256)) * 256 + (y % 256)) * 256 + (x % 256) = x
  BY <1>1, <1>2, <1>3
<1>8. C!address_value(C!address(x)) = x
  BY <1>4, <1>7 DEF C!address_value
<1>9. C!address(x) \in [1 .. 4 -> 0 .. 255]
  BY SMTT(40), <1>1, <1>2, <1>3, <1>4, <1>6
<1>10. C!address(x)[1] = p
  BY <1>4
<1> QED
  BY <1>5, <1>8, <1>9, <1>10

LEMMA AddressHolds ==
  ASSUME Asking, Answered, returned, call.fn = "address"
  PROVE  /\ C!address_value(result) = call.host
         /\ result[1] = 127 <=> call.host = C!loopback
<1> DEFINE x == call.host
<1>1. x \in {0, 258, 256 * 256 * 5, C!loopback} /\ result = C!address(x)
  BY Kinds, Evaluates DEF Answered
<1>2. /\ x \in Nat /\ x < 256 * 256 * 256 * 256
      /\ (((x \div 256) \div 256) \div 256 = 127 <=> x = C!loopback)
  <2>1. CASE x \in {0, 258, 256 * 256 * 5}
    BY <2>1, SMT DEF C!loopback
  <2>2. CASE x = C!loopback
    <3>1. x = 127 * (256 * (256 * 256)) + 1
      BY <2>2, SMT DEF C!loopback
    <3> QED
      BY <2>2, <3>1, SMT
  <2> QED
    BY <1>1, <2>1, <2>2
<1> HIDE DEF x
<1>3. C!address_value(C!address(x)) = x /\ (C!address(x)[1] = 127 <=> ((x \div 256) \div 256) \div 256 = 127)
  BY <1>2, AddressKept
<1> QED
  BY <1>1, <1>2, <1>3 DEF x

----------------------------------------------------------------------------
(* Environments: names and strings.                                        *)

(* The first '=' of a text, and the text up to its first NUL. *)
LEMMA EqualsFound ==
  ASSUME NEW S, NEW x \in Seq(S)
  PROVE  LET pos == E!find_first_of(x)
         IN  /\ pos \in 0 .. Len(x)
             /\ pos = 0 => \A i \in 1 .. Len(x) : x[i] # E!Equals
             /\ pos # 0 => x[pos] = E!Equals /\ \A i \in 1 .. pos - 1 : x[i] # E!Equals
<1> DEFINE n == Len(x)
           N == {i \in 1 .. n : x[i] = E!Equals}
           pos == E!find_first_of(x)
<1>1. n \in Nat /\ N \in SUBSET (1 .. n)
  BY LenProperties
<1>2. pos = Earliest(N)
  BY DEF E!find_first_of, E!SelectInSeq, E!Min, Earliest
<1> HIDE DEF pos
<1>3. /\ pos \in 0 .. n
      /\ pos = 0 => N = {}
      /\ pos # 0 => pos \in N /\ \A i \in 1 .. pos - 1 : i \notin N
  <2> HIDE DEF N, n
  <2> QED
    BY <1>1, <1>2, FirstPlace
<1>4. \A i \in 1 .. pos - 1 : i \in 1 .. n
  BY <1>1, <1>3
<1> QED
  BY <1>3, <1>4 DEF pos

LEMMA Duplicated ==
  ASSUME NEW S, NEW x \in Seq(S)
  PROVE  /\ E!strdup(x) \in Seq(S) /\ Len(E!strdup(x)) <= Len(x)
         /\ \A i \in 1 .. Len(E!strdup(x)) : E!strdup(x)[i] = x[i] /\ x[i] # "nul"
         /\ Len(E!strdup(x)) = Len(x) => E!strdup(x) = x
         /\ Len(E!strdup(x)) < Len(x) => x[Len(E!strdup(x)) + 1] = "nul"
         /\ E!strdup(x) = x <=> \A i \in 1 .. Len(x) : x[i] # "nul"
<1> DEFINE n == Len(x)
           N == {i \in 1 .. n : x[i] = "nul"}
           k == Earliest(N)
<1>1. n \in Nat /\ N \in SUBSET (1 .. n)
  BY LenProperties
<1>2. E!strdup(x) = IF k = 0 THEN x ELSE SubSeq(x, 1, k - 1)
  BY DEF E!strdup, E!SelectInSeq, E!Min, Earliest
<1>3. /\ k \in 0 .. n
      /\ k = 0 => N = {}
      /\ k # 0 => k \in N /\ \A i \in 1 .. k - 1 : i \notin N
  <2> HIDE DEF N, n
  <2> QED
    BY <1>1, FirstPlace
<1> HIDE DEF k
<1>4. CASE k = 0
  <2>1. E!strdup(x) = x /\ \A i \in 1 .. n : x[i] # "nul"
    BY <1>2, <1>3, <1>4
  <2> QED
    BY <1>1, <2>1
<1>5. CASE k # 0
  <2> DEFINE y == SubSeq(x, 1, k - 1)
  <2>1. k \in 1 .. n /\ x[k] = "nul" /\ \A i \in 1 .. k - 1 : i \in 1 .. n /\ x[i] # "nul"
    BY <1>1, <1>3, <1>5
  <2>2. y \in Seq(S) /\ Len(y) = k - 1 /\ \A i \in 1 .. k - 1 : y[i] = x[i]
    <3>1. 1 \in 1 .. n + 1 /\ k - 1 \in 0 .. n
      BY <1>1, <2>1
    <3>2. /\ y \in Seq(S) /\ Len(y) = IF 1 <= k - 1 THEN (k - 1) - 1 + 1 ELSE 0
          /\ \A i \in 1 .. (k - 1) - 1 + 1 : y[i] = x[1 + i - 1]
      <4> DEFINE b == k - 1
      <4> HIDE DEF b, n
      <4>1. /\ SubSeq(x, 1, b) \in Seq(S)
            /\ Len(SubSeq(x, 1, b)) = IF 1 <= b THEN b - 1 + 1 ELSE 0
            /\ \A i \in 1 .. b - 1 + 1 : SubSeq(x, 1, b)[i] = x[1 + i - 1]
        BY <3>1, Part DEF b, n
      <4> QED
        BY <4>1 DEF b
    <3> QED
      BY <1>1, <2>1, <3>2
  <2>3. E!strdup(x) = y
    BY <1>2, <1>5
  <2> HIDE DEF y
  <2> QED
    BY <1>1, <2>1, <2>2, <2>3
<1> QED
  BY <1>4, <1>5

(* A string that getenv takes for that of a name, and what is behind it.   *)
EntryFor(x, n) == n # <<>> /\ Len(x) > Len(n) /\ SubSeq(x, 1, Len(n)) = n /\ x[Len(n) + 1] = E!Equals
Behind(x, n) == SubSeq(x, Len(n) + 2, Len(x))
Got(x, n) == [found |-> TRUE, value |-> Behind(x, n)]
Missing == [found |-> FALSE, value |-> <<>>]

LEMMA EntryPlaces ==
  ASSUME NEW S, NEW x \in Seq(S), NEW n \in Seq(S)
  PROVE  /\ EntryFor(x, n) <=> /\ Len(n) > 0 /\ Len(x) > Len(n) /\ x[Len(n) + 1] = E!Equals
                               /\ \A i \in 1 .. Len(n) : x[i] = n[i]
         /\ Len(n) < Len(x) => /\ Behind(x, n) \in Seq(S) /\ Len(Behind(x, n)) = Len(x) - Len(n) - 1
                               /\ \A i \in 1 .. Len(x) - Len(n) - 1 : Behind(x, n)[i] = x[Len(n) + 1 + i]
<1> DEFINE a == Len(x)
           b == Len(n)
           y == SubSeq(x, 1, b)
           z == SubSeq(x, b + 2, a)
<1>1. a \in Nat /\ b \in Nat /\ (n # <<>> <=> b > 0)
  BY LenProperties, EmptySeq
<1>2. ASSUME b <= a PROVE y \in Seq(S) /\ Len(y) = b /\ \A i \in 1 .. b : y[i] = x[i]
  <2>1. 1 \in 1 .. a + 1 /\ b \in 0 .. a
    BY <1>1, <1>2
  <2>2. /\ y \in Seq(S) /\ Len(y) = IF 1 <= b THEN b - 1 + 1 ELSE 0
        /\ \A i \in 1 .. b - 1 + 1 : y[i] = x[1 + i - 1]
    <3> HIDE DEF b
    <3> QED
      BY <2>1, Part DEF a
  <2> HIDE DEF a, b, y
  <2> QED
    BY <1>1, <2>2
<1>3. ASSUME b <= a PROVE y = n <=> \A i \in 1 .. b : x[i] = n[i]
  <2>1. (\A i \in 1 .. b : y[i] = n[i]) => y = n
    BY <1>2, <1>3, SeqEqual
  <2> HIDE DEF y
  <2> QED
    BY <1>1, <1>2, <1>3, <2>1
<1>4. ASSUME b < a PROVE z \in Seq(S) /\ Len(z) = a - b - 1 /\ \A i \in 1 .. a - b - 1 : z[i] = x[b + 1 + i]
  <2> DEFINE c == b + 2
  <2>1. c \in 1 .. a + 1 /\ a \in 0 .. a
    BY <1>1, <1>4
  <2>2. /\ z \in Seq(S) /\ Len(z) = IF c <= a THEN a - c + 1 ELSE 0
        /\ \A i \in 1 .. a - c + 1 : z[i] = x[c + i - 1]
    <3> DEFINE w == SubSeq(x, c, a)
    <3>1. /\ w \in Seq(S) /\ Len(w) = IF c <= a THEN a - c + 1 ELSE 0
          /\ \A i \in 1 .. a - c + 1 : w[i] = x[c + i - 1]
      <4> HIDE DEF c
      <4> QED
        BY <2>1, Part DEF a
    <3> QED
      BY <3>1
  <2> HIDE DEF a, b, z
  <2> QED
    BY <1>1, <1>4, <2>2 DEF c
<1> HIDE DEF a, b
<1>5. EntryFor(x, n) <=> b > 0 /\ a > b /\ y = n /\ x[b + 1] = E!Equals
  BY <1>1 DEF EntryFor, a, b
<1>6. Behind(x, n) = z
  BY DEF Behind, a, b
<1> HIDE DEF y, z
<1>7. EntryFor(x, n) <=> b > 0 /\ a > b /\ x[b + 1] = E!Equals /\ \A i \in 1 .. b : x[i] = n[i]
  BY <1>1, <1>3, <1>5
<1> QED
  BY <1>4, <1>6, <1>7 DEF a, b

(* No string is taken for that of two names without an '='. *)
NoEquals(n) == \A i \in 1 .. Len(n) : n[i] # E!Equals

LEMMA OneName ==
  ASSUME NEW S, NEW x \in Seq(S), NEW n \in Seq(S), NEW m \in Seq(S),
         NoEquals(n), NoEquals(m), EntryFor(x, n), EntryFor(x, m)
  PROVE  n = m
<1> DEFINE a == Len(n)
           b == Len(m)
<1>1. a \in Nat /\ b \in Nat
  BY LenProperties
<1>2. a > 0 /\ x[a + 1] = E!Equals /\ \A i \in 1 .. a : x[i] = n[i] /\ n[i] # E!Equals
  BY EntryPlaces DEF NoEquals
<1>3. b > 0 /\ x[b + 1] = E!Equals /\ \A i \in 1 .. b : x[i] = m[i] /\ m[i] # E!Equals
  BY EntryPlaces DEF NoEquals
<1> HIDE DEF a, b
<1>4. ~(a < b)
  <2> SUFFICES ASSUME a < b PROVE FALSE
    OBVIOUS
  <2>1. a + 1 \in 1 .. b
    BY <1>1
  <2> QED
    BY <1>2, <1>3, <2>1
<1>5. ~(b < a)
  <2> SUFFICES ASSUME b < a PROVE FALSE
    OBVIOUS
  <2>1. b + 1 \in 1 .. a
    BY <1>1
  <2> QED
    BY <1>2, <1>3, <2>1
<1>6. a = b
  BY <1>1, <1>4, <1>5
<1> QED
  BY <1>2, <1>3, <1>6, SeqEqual DEF a, b

(* getenv finds the first string of a name. *)
LEMMA GetenvFinds ==
  ASSUME NEW q, Len(q) \in Nat, NEW n
  PROVE  LET k == E!getenv(q, n)
         IN  /\ k \in 0 .. Len(q)
             /\ k = 0 => \A i \in 1 .. Len(q) : ~EntryFor(q[i], n)
             /\ k # 0 => EntryFor(q[k], n) /\ \A i \in 1 .. k - 1 : ~EntryFor(q[i], n)
<1> DEFINE l == Len(q)
           N == {i \in 1 .. l : EntryFor(q[i], n)}
           k == E!getenv(q, n)
<1>1. l \in Nat /\ N \in SUBSET (1 .. l)
  OBVIOUS
<1>2. k = Earliest(N)
  BY DEF E!getenv, E!SelectInSeq, E!Min, Earliest, EntryFor
<1> HIDE DEF k
<1>3. /\ k \in 0 .. l
      /\ k = 0 => N = {}
      /\ k # 0 => k \in N /\ \A i \in 1 .. k - 1 : i \notin N
  <2> HIDE DEF N, l
  <2> QED
    BY <1>1, <1>2, FirstPlace
<1>4. \A i \in 1 .. k - 1 : i \in 1 .. l
  BY <1>1, <1>3
<1> QED
  BY <1>3, <1>4 DEF k

LEMMA GetenvIs ==
  ASSUME NEW q, Len(q) \in Nat, NEW n
  PROVE  /\ (\A i \in 1 .. Len(q) : ~EntryFor(q[i], n)) => E!getenv(q, n) = 0
         /\ \A k \in 1 .. Len(q) :
              EntryFor(q[k], n) /\ (\A i \in 1 .. k - 1 : ~EntryFor(q[i], n)) => E!getenv(q, n) = k
<1> DEFINE j == E!getenv(q, n)
<1>1. /\ j \in 0 .. Len(q)
      /\ j = 0 => \A i \in 1 .. Len(q) : ~EntryFor(q[i], n)
      /\ j # 0 => EntryFor(q[j], n) /\ \A i \in 1 .. j - 1 : ~EntryFor(q[i], n)
  BY GetenvFinds
<1> HIDE DEF j
<1>2. (\A i \in 1 .. Len(q) : ~EntryFor(q[i], n)) => j = 0
  BY <1>1
<1>3. ASSUME NEW k \in 1 .. Len(q), EntryFor(q[k], n), \A i \in 1 .. k - 1 : ~EntryFor(q[i], n)
      PROVE  j = k
  <2>1. j # 0
    BY <1>1, <1>3
  <2>2. ~(j < k)
    BY <1>1, <1>3, <2>1
  <2>3. ~(k < j)
    BY <1>1, <1>3, <2>1
  <2> QED
    BY <1>1, <2>2, <2>3
<1> QED
  BY <1>2, <1>3 DEF j

LEMMA GetIs ==
  ASSUME NEW q, Len(q) \in Nat, NEW n
  PROVE  /\ E!getenv(q, n) = 0 => E!looked_up(q, n) = Missing
         /\ E!getenv(q, n) # 0 => E!looked_up(q, n) = Got(q[E!getenv(q, n)], n)
BY DEF E!looked_up, Missing, Got, Behind

(* One more string: it counts if there was none of that name. *)
LEMMA GetAppend ==
  ASSUME NEW T, NEW q \in Seq(T), NEW x \in T, NEW n
  PROVE  /\ E!looked_up(<<>>, n) = Missing
         /\ E!looked_up(q, n).found <=> \E i \in 1 .. Len(q) : EntryFor(q[i], n)
         /\ E!looked_up(q, n).found => E!looked_up(Append(q, x), n) = E!looked_up(q, n)
         /\ ~E!looked_up(q, n).found =>
              /\ E!looked_up(q, n) = Missing
              /\ E!looked_up(Append(q, x), n) = IF EntryFor(x, n) THEN Got(x, n) ELSE Missing
<1> DEFINE l == Len(q)
           r == Append(q, x)
           k == E!getenv(q, n)
<1>1. l \in Nat /\ Len(r) = l + 1 /\ r[l + 1] = x /\ \A i \in 1 .. l : r[i] = q[i]
  BY LenProperties, AppendProperties
<1>2. /\ k \in 0 .. l
      /\ k = 0 => \A i \in 1 .. l : ~EntryFor(q[i], n)
      /\ k # 0 => EntryFor(q[k], n) /\ \A i \in 1 .. k - 1 : ~EntryFor(q[i], n)
  BY <1>1, GetenvFinds
<1>3. (k = 0 => E!looked_up(q, n) = Missing) /\ (k # 0 => E!looked_up(q, n) = Got(q[k], n))
  BY <1>1, GetIs
<1>4. E!looked_up(<<>>, n) = Missing
  <2> DEFINE empty == <<>>
  <2>1. Len(empty) = 0
    OBVIOUS
  <2> HIDE DEF empty
  <2>2. E!getenv(empty, n) = 0
    BY <2>1, GetenvIs
  <2>3. E!looked_up(empty, n) = Missing
    BY <2>1, <2>2, GetIs
  <2> QED
    BY <2>3 DEF empty
<1> HIDE DEF r, k, l
<1>5. Missing.found = FALSE /\ \A y : Got(y, n).found = TRUE
  BY DEF Missing, Got
<1>6. E!looked_up(q, n).found <=> k # 0
  BY <1>3, <1>5
<1>7. CASE k # 0
  <2>1. k \in 1 .. Len(r) /\ r[k] = q[k] /\ \A i \in 1 .. k - 1 : r[i] = q[i]
    BY <1>1, <1>2, <1>7
  <2>1a. k \in 1 .. Len(r) /\ EntryFor(r[k], n) /\ \A i \in 1 .. k - 1 : ~EntryFor(r[i], n)
    BY <1>2, <1>7, <2>1
  <2>2. E!getenv(r, n) = k
    BY <2>1a, GetenvIs
  <2>3. E!looked_up(r, n) = Got(r[k], n)
    BY <1>1, <1>7, <2>2, GetIs
  <2> QED
    BY <1>2, <1>3, <1>4, <1>6, <1>7, <2>1, <2>3 DEF r, l
<1>8. CASE k = 0
  <2>1. E!looked_up(r, n) = IF EntryFor(x, n) THEN Got(x, n) ELSE Missing
    <3>1. CASE EntryFor(x, n)
      <4>1. l + 1 \in 1 .. Len(r) /\ EntryFor(r[l + 1], n) /\ \A i \in 1 .. (l + 1) - 1 : ~EntryFor(r[i], n)
        BY <1>1, <1>2, <1>8, <3>1
      <4>2. E!getenv(r, n) = l + 1
        BY <1>1, <4>1, GetenvIs
      <4>3. E!getenv(r, n) # 0
        BY <1>1, <4>2
      <4> QED
        BY <1>1, <3>1, <4>2, <4>3, GetIs
    <3>2. CASE ~EntryFor(x, n)
      <4>1. \A i \in 1 .. Len(r) : ~EntryFor(r[i], n)
        BY <1>1, <1>2, <1>8, <3>2
      <4>2. E!getenv(r, n) = 0
        BY <1>1, <4>1, GetenvIs
      <4> QED
        BY <1>1, <3>2, <4>2, GetIs
    <3> QED
      BY <3>1, <3>2
  <2>2. \A i \in 1 .. l : ~EntryFor(q[i], n)
    BY <1>2, <1>8
  <2> QED
    BY <1>3, <1>4, <1>6, <1>8, <2>1, <2>2 DEF r, l
<1> QED
  BY <1>7, <1>8

(* The beginnings of a sequence, one element longer each. *)
LEMMA Beginnings ==
  ASSUME NEW T, NEW q \in Seq(T)
  PROVE  /\ SubSeq(q, 1, 0) = <<>> /\ SubSeq(q, 1, Len(q)) = q
         /\ \A k \in 1 .. Len(q) : /\ SubSeq(q, 1, k - 1) \in Seq(T)
                                   /\ SubSeq(q, 1, k) = Append(SubSeq(q, 1, k - 1), q[k])
<1> DEFINE n == Len(q)
<1>1. n \in Nat
  BY LenProperties
<1>2. ASSUME NEW k \in 0 .. n
      PROVE  SubSeq(q, 1, k) \in Seq(T) /\ Len(SubSeq(q, 1, k)) = k /\ \A i \in 1 .. k : SubSeq(q, 1, k)[i] = q[i]
  <2>1. 1 \in 1 .. n + 1 /\ k \in Nat
    BY <1>1
  <2>2. /\ SubSeq(q, 1, k) \in Seq(T) /\ Len(SubSeq(q, 1, k)) = IF 1 <= k THEN k - 1 + 1 ELSE 0
        /\ \A i \in 1 .. k - 1 + 1 : SubSeq(q, 1, k)[i] = q[1 + i - 1]
    BY <2>1, Part
  <2> QED
    BY <1>1, <2>1, <2>2
<1>3. SubSeq(q, 1, 0) = <<>>
  <2>1. SubSeq(q, 1, 0) \in Seq(T) /\ Len(SubSeq(q, 1, 0)) = 0
    BY <1>1, <1>2
  <2> QED
    BY <2>1, EmptySeq
<1>4. SubSeq(q, 1, n) = q
  <2>1. n \in 0 .. n
    BY <1>1
  <2>2. SubSeq(q, 1, n) \in Seq(T) /\ Len(SubSeq(q, 1, n)) = n /\ \A i \in 1 .. n : SubSeq(q, 1, n)[i] = q[i]
    BY <1>2, <2>1
  <2> QED
    BY <2>2, SeqEqual
<1>5. ASSUME NEW k \in 1 .. n
      PROVE  SubSeq(q, 1, k - 1) \in Seq(T) /\ SubSeq(q, 1, k) = Append(SubSeq(q, 1, k - 1), q[k])
  <2> DEFINE j == k - 1
             a == SubSeq(q, 1, j)
             b == SubSeq(q, 1, k)
  <2>1. j \in 0 .. n /\ k \in 0 .. n /\ q[k] \in T
    BY <1>1, ElementOfSeq
  <2>2. a \in Seq(T) /\ Len(a) = j /\ \A i \in 1 .. j : a[i] = q[i]
    <3> HIDE DEF j
    <3> QED
      BY <1>2, <2>1
  <2>3. b \in Seq(T) /\ Len(b) = k /\ \A i \in 1 .. k : b[i] = q[i]
    BY <1>2, <2>1
  <2> HIDE DEF a, b
  <2>4. /\ Append(a, q[k]) \in Seq(T) /\ Len(Append(a, q[k])) = k /\ Append(a, q[k])[k] = q[k]
        /\ \A i \in 1 .. j : Append(a, q[k])[i] = q[i]
    BY <1>1, <2>1, <2>2, AppendProperties
  <2>5. \A i \in 1 .. k : b[i] = Append(a, q[k])[i]
    BY <1>1, <2>3, <2>4
  <2>6. b = Append(a, q[k])
    BY <2>3, <2>4, <2>5, SeqEqual
  <2> QED
    BY <2>2, <2>6 DEF a, b
<1> QED
  BY <1>3, <1>4, <1>5 DEF n

(* The string of a name and a value. *)
Joined(n, v) == n \o <<E!Equals>> \o v

IsMade(S, x, n, v) ==
  /\ x \in Seq(S) /\ Len(x) = Len(n) + 1 + Len(v) /\ x[Len(n) + 1] = E!Equals
  /\ \A i \in 1 .. Len(n) : x[i] = n[i]
  /\ \A i \in 1 .. Len(v) : x[Len(n) + 1 + i] = v[i]

LEMMA EntryMade ==
  ASSUME NEW S, E!Equals \in S, NEW n \in Seq(S), NEW v \in Seq(S)
  PROVE  /\ IsMade(S, Joined(n, v), n, v)
         /\ Behind(Joined(n, v), n) = v
         /\ n # <<>> => EntryFor(Joined(n, v), n)
<1> DEFINE e == <<E!Equals>>
           f == n \o e
           x == Joined(n, v)
           a == Len(n)
           c == Len(v)
<1>1. e \in Seq(S) /\ Len(e) = 1 /\ e[1] = E!Equals
  OBVIOUS
<1>2. a \in Nat /\ c \in Nat /\ (n # <<>> => a > 0)
  BY LenProperties, EmptySeq
<1> HIDE DEF e
<1>4. x = f \o v
  BY DEF Joined, e
<1>3. /\ f \in Seq(S) /\ Len(f) = a + 1 /\ f[a + 1] = E!Equals
      /\ \A i \in 1 .. a : f[i] = n[i]
  <2>1. f \in Seq(S) /\ Len(f) = a + Len(e)
        /\ \A i \in 1 .. a + Len(e) : f[i] = IF i <= a THEN n[i] ELSE e[i - a]
    BY <1>1, ConcatProperties
  <2> HIDE DEF f, a
  <2> QED
    BY <1>1, <1>2, <2>1
<1> HIDE DEF f, x
<1>5. /\ x \in Seq(S) /\ Len(x) = a + 1 + c
      /\ \A i \in 1 .. a + 1 : x[i] = f[i]
      /\ \A i \in 1 .. c : x[a + 1 + i] = v[i]
  <2>1. /\ x \in Seq(S) /\ Len(x) = Len(f) + c
        /\ \A i \in 1 .. Len(f) + c : x[i] = IF i <= Len(f) THEN f[i] ELSE v[i - Len(f)]
    <3>1. f \in Seq(S)
      BY <1>3
    <3>2. /\ f \o v \in Seq(S) /\ Len(f \o v) = Len(f) + Len(v)
          /\ \A i \in 1 .. Len(f) + Len(v) : (f \o v)[i] = IF i <= Len(f) THEN f[i] ELSE v[i - Len(f)]
      BY <3>1, ConcatProperties
    <3> QED
      BY <1>4, <3>2
  <2> HIDE DEF a, c
  <2>2. \A i \in 1 .. c : a + 1 + i \in 1 .. Len(f) + c /\ ~(a + 1 + i <= Len(f)) /\ a + 1 + i - Len(f) = i
    BY <1>2, <1>3
  <2>3. \A i \in 1 .. a + 1 : i \in 1 .. Len(f) + c /\ i <= Len(f)
    BY <1>2, <1>3
  <2> QED
    BY <1>2, <1>3, <2>1, <2>2, <2>3
<1>6. x[a + 1] = E!Equals /\ \A i \in 1 .. a : x[i] = n[i]
  BY <1>2, <1>3, <1>5
<1>7. /\ Behind(x, n) \in Seq(S) /\ Len(Behind(x, n)) = c
      /\ \A i \in 1 .. c : Behind(x, n)[i] = v[i]
  <2>1. a < Len(x)
    BY <1>2, <1>5
  <2>2. /\ Behind(x, n) \in Seq(S) /\ Len(Behind(x, n)) = Len(x) - a - 1
        /\ \A i \in 1 .. Len(x) - a - 1 : Behind(x, n)[i] = x[a + 1 + i]
    <3>1. Len(n) < Len(x) /\ x \in Seq(S)
      BY <1>5, <2>1
    <3> QED
      BY <3>1, EntryPlaces
  <2>3. Len(x) - a - 1 = c
    BY <1>2, <1>5
  <2> HIDE DEF a, c
  <2> QED
    BY <1>5, <2>2, <2>3
<1>8. Behind(x, n) = v
  BY <1>7, SeqEqual
<1>9. n # <<>> => EntryFor(x, n)
  <2> SUFFICES ASSUME n # <<>> PROVE EntryFor(x, n)
    OBVIOUS
  <2>1. Len(n) > 0 /\ Len(x) > Len(n) /\ x[Len(n) + 1] = E!Equals /\ \A i \in 1 .. Len(n) : x[i] = n[i]
    BY <1>2, <1>5, <1>6
  <2> HIDE DEF a, c
  <2> QED
    BY <1>5, <2>1, EntryPlaces
<1>10. IsMade(S, x, n, v)
  BY <1>5, <1>6 DEF IsMade
<1> QED
  BY <1>8, <1>9, <1>10 DEF x

(* setenv: getenv finds the new value then, or the one that was there when it was
   not to be overwritten, and under any other name what it found before. *)
LEMMA SetenvLookup ==
  ASSUME NEW S, E!Equals \in S, NEW q \in Seq(Seq(S)), NEW n \in Seq(S), NEW v \in Seq(S),
         n # <<>>, NoEquals(n), NEW over \in BOOLEAN,
         NEW r, r = E!setenv(q, n, v, over)
  PROVE  /\ E!looked_up(r, n) = [found |-> TRUE,
                           value |-> IF E!looked_up(q, n).found /\ ~over THEN E!looked_up(q, n).value ELSE v]
         /\ \A m \in Seq(S) : NoEquals(m) /\ m # n => E!looked_up(r, m) = E!looked_up(q, m)
<1> DEFINE x == Joined(n, v)
           k == E!getenv(q, n)
           l == Len(q)
           T == Seq(S)
<1>1. l \in Nat /\ DOMAIN q = 1 .. l /\ \A i \in 1 .. l : q[i] \in Seq(S)
  BY LenProperties, ElementOfSeq
<1>2. x \in T /\ EntryFor(x, n) /\ Behind(x, n) = v
  BY EntryMade DEF IsMade
<1>3. r = IF k = 0 THEN Append(q, x) ELSE IF over THEN [q EXCEPT ![k] = x] ELSE q
  BY DEF E!setenv, Joined
<1>4. /\ k \in 0 .. l
      /\ k = 0 => \A i \in 1 .. l : ~EntryFor(q[i], n)
      /\ k # 0 => EntryFor(q[k], n) /\ \A i \in 1 .. k - 1 : ~EntryFor(q[i], n)
  BY <1>1, GetenvFinds
<1>5. (k = 0 => E!looked_up(q, n) = Missing) /\ (k # 0 => E!looked_up(q, n) = Got(q[k], n))
  BY <1>1, GetIs
<1>6. Got(x, n) = [found |-> TRUE, value |-> v]
  BY <1>2 DEF Got
<1>7. ASSUME NEW m \in T, NoEquals(m), m # n, NEW y \in T, EntryFor(y, n) PROVE ~EntryFor(y, m)
  BY <1>7, OneName
<1>8. \A y : Got(y, n).found = TRUE /\ Got(y, n) = [found |-> TRUE, value |-> Got(y, n).value]
  BY DEF Got
<1>9. Missing.found = FALSE
  BY DEF Missing
<1>10. q \in Seq(T)
  OBVIOUS
<1> HIDE DEF x, k, l, T
<1>11. CASE k = 0
  <2>1. r = Append(q, x) /\ E!looked_up(q, n) = Missing
    BY <1>3, <1>5, <1>11
  <2>2. E!looked_up(r, n) = Got(x, n)
    BY <1>2, <1>9, <1>10, <2>1, GetAppend
  <2>3. ASSUME NEW m \in T, NoEquals(m), m # n PROVE E!looked_up(r, m) = E!looked_up(q, m)
    <3>1. ~EntryFor(x, m)
      BY <1>2, <1>7, <2>3
    <3> QED
      BY <1>2, <1>10, <2>1, <3>1, GetAppend
  <2> QED
    BY <1>6, <1>9, <2>1, <2>2, <2>3 DEF T
<1>12. CASE k # 0 /\ ~over
  <2>1. r = q /\ E!looked_up(q, n) = Got(q[k], n)
    BY <1>3, <1>5, <1>12
  <2> QED
    BY <1>8, <1>12, <2>1
<1>13. CASE k # 0 /\ over
  <2>1. r = [q EXCEPT ![k] = x] /\ k \in 1 .. l
    BY <1>1, <1>3, <1>4, <1>13
  <2>2. Len(r) = l /\ r[k] = x /\ \A i \in 1 .. l : i # k => r[i] = q[i]
    BY <1>1, <1>2, <1>10, <2>1, ExceptSeq DEF l
  <2>3. E!looked_up(r, n) = Got(x, n)
    <3>1. \A i \in 1 .. k - 1 : ~EntryFor(r[i], n)
      <4> SUFFICES ASSUME NEW i \in 1 .. k - 1 PROVE ~EntryFor(r[i], n)
        OBVIOUS
      <4>1. i \in 1 .. l /\ i # k /\ ~EntryFor(q[i], n)
        BY <1>1, <1>4, <1>13, <2>1
      <4> QED
        BY <2>2, <4>1
    <3>2. E!getenv(r, n) = k
      BY <1>1, <1>2, <2>1, <2>2, <3>1, GetenvIs
    <3> QED
      BY <1>1, <1>13, <2>2, <3>2, GetIs
  <2>4. ASSUME NEW m \in T, NoEquals(m), m # n PROVE E!looked_up(r, m) = E!looked_up(q, m)
    <3> DEFINE j == E!getenv(q, m)
    <3>1. /\ j \in 0 .. l
          /\ j = 0 => \A i \in 1 .. l : ~EntryFor(q[i], m)
          /\ j # 0 => EntryFor(q[j], m) /\ \A i \in 1 .. j - 1 : ~EntryFor(q[i], m)
      BY <1>1, GetenvFinds DEF l
    <3>2. (j = 0 => E!looked_up(q, m) = Missing) /\ (j # 0 => E!looked_up(q, m) = Got(q[j], m))
      BY <1>1, GetIs DEF l
    <3> HIDE DEF j
    <3>3. ~EntryFor(x, m) /\ ~EntryFor(q[k], m)
      <4>1. q[k] \in T /\ EntryFor(q[k], n)
        BY <1>1, <1>4, <1>13, <2>1 DEF T
      <4> QED
        BY <1>2, <1>7, <2>4, <4>1
    <3>4. CASE j = 0
      <4>1. \A i \in 1 .. l : ~EntryFor(r[i], m)
        BY <2>2, <3>1, <3>3, <3>4
      <4>2. E!getenv(r, m) = 0
        BY <1>1, <2>2, <4>1, GetenvIs
      <4>3. E!looked_up(r, m) = Missing
        BY <1>1, <2>2, <4>2, GetIs
      <4> QED
        BY <3>2, <3>4, <4>3
    <3>5. CASE j # 0
      <4>1. j \in 1 .. l /\ j # k /\ EntryFor(q[j], m)
        BY <1>1, <3>1, <3>3, <3>5
      <4>2. r[j] = q[j] /\ \A i \in 1 .. j - 1 : ~EntryFor(r[i], m)
        <5>1. ASSUME NEW i \in 1 .. j - 1 PROVE ~EntryFor(r[i], m)
          <6>1. i \in 1 .. l /\ ~EntryFor(q[i], m)
            BY <1>1, <3>1, <4>1
          <6> QED
            BY <2>2, <3>3, <6>1
        <5> QED
          BY <2>2, <4>1, <5>1
      <4>3. E!getenv(r, m) = j
        BY <1>1, <2>2, <4>1, <4>2, GetenvIs
      <4>4. E!looked_up(r, m) = Got(r[j], m)
        BY <1>1, <2>2, <3>5, <4>3, GetIs
      <4> QED
        BY <3>2, <3>5, <4>2, <4>4
    <3> QED
      BY <3>4, <3>5
  <2> QED
    BY <1>6, <1>13, <2>3, <2>4 DEF T
<1> QED
  BY <1>11, <1>12, <1>13

(* unsetenv: one string after the other is kept or left out. *)
Sparing(kept, x, n) == IF E!getenv(<<x>>, n) = 0 THEN Append(kept, x) ELSE kept

Unsetting(S, q, n) ==
  {h \in [0 .. Len(q) -> Seq(Seq(S))] :
     /\ h[0] = <<>>
     /\ \A k \in 1 .. Len(q) : h[k] = Sparing(h[k - 1], q[k], n)
     /\ E!unsetenv(q, n) = h[Len(q)]}

LEMMA UnsetenvFold ==
  ASSUME NEW S, NEW q \in Seq(Seq(S)), NEW n
  PROVE  Unsetting(S, q, n) # {}
<1> DEFINE D == Seq(S)
           T == Seq(Seq(S))
           base == <<>>
           f == [z \in T \X D |-> Sparing(z[1], z[2], n)]
           Body(g) == [s \in SUBSET (DOMAIN q) |->
                         IF s = {} THEN base ELSE Sparing(g[s \ {E!Max(s)}], q[E!Max(s)], n)]
           iter == CHOOSE g : g = Body(g)
<1>1. E!unsetenv(q, n) = iter[DOMAIN q]
  BY DEF E!unsetenv, E!FoldLeft, E!MapThenFoldSet, Sparing
<1>2. base \in T
  OBVIOUS
<1>3. \A s \in T, e \in D : Sparing(s, e, n) \in T
  <2> SUFFICES ASSUME NEW s \in T, NEW e \in D PROVE Sparing(s, e, n) \in T
    OBVIOUS
  <2>1. Append(s, e) \in T
    OBVIOUS
  <2> HIDE DEF T, D
  <2> QED
    BY <2>1 DEF Sparing
<1>4. q \in Seq(D)
  OBVIOUS
<1>5. \A s : E!Max(s) = Max(s)
  BY DEF E!Max, Max
<1> HIDE DEF base, D, T
<1>6. f \in [T \X D -> T]
  BY <1>3
<1>6a. \A s \in T, e \in D : f[<<s, e>>] = Sparing(s, e, n)
  OBVIOUS
<1> HIDE DEF f
<1>7. PICK g : g \in Folding(T, D, base, f, q)
  BY <1>2, <1>4, <1>6, Folds
<1>8. g = Body(g)
  <2>1. g \in [SUBSET (DOMAIN q) -> T] /\ g[{}] = base
    BY <1>7 DEF Folding
  <2>2. \A s \in SUBSET (DOMAIN q) : s # {} => g[s] = Sparing(g[s \ {Max(s)}], q[Max(s)], n)
    BY <1>6a, <1>7 DEF Folding
  <2> QED
    BY <1>5, <2>1, <2>2
<1>9. iter = Body(iter)
  BY <1>8
<1> HIDE DEF iter
<1>10. Recursive(T, base, f, q, iter)
  <2>1. iter[{}] = base
    BY <1>9
  <2>2. ASSUME NEW s \in SUBSET (DOMAIN q), s # {}, iter[s \ {Max(s)}] \in T
        PROVE  iter[s] = f[<<iter[s \ {Max(s)}], q[Max(s)]>>]
    <3>1. q[Max(s)] \in D
      BY <1>7, <2>2 DEF Folding
    <3>2. iter[s] = Sparing(iter[s \ {Max(s)}], q[Max(s)], n)
      BY <1>5, <1>9, <2>2
    <3> QED
      BY <1>6a, <2>2, <3>1, <3>2
  <2> QED
    BY <2>1, <2>2 DEF Recursive
<1>11. PICK h : h \in Stepping(T, D, base, f, q, iter)
  BY <1>2, <1>4, <1>6, <1>10, FoldSteps
<1>12. h \in Unsetting(S, q, n)
  <2>1. \A k \in 1 .. Len(q) : h[k] = Sparing(h[k - 1], q[k], n)
    BY <1>6a, <1>11 DEF Stepping
  <2>2. h \in [0 .. Len(q) -> T] /\ h[0] = base /\ h[Len(q)] = iter[DOMAIN q]
    BY <1>11 DEF Stepping
  <2> QED
    BY <1>1, <2>1, <2>2 DEF Unsetting, base, T
<1> QED
  BY <1>12

LEMMA SparingOne ==
  ASSUME NEW T, NEW kept \in Seq(T), NEW x \in T, NEW n
  PROVE  Sparing(kept, x, n) = IF EntryFor(x, n) THEN kept ELSE Append(kept, x)
<1> DEFINE one == <<x>>
<1>1. Len(one) = 1 /\ one[1] = x
  OBVIOUS
<1> HIDE DEF one
<1>2. EntryFor(x, n) => E!getenv(one, n) = 1
  BY SMTT(40), <1>1, GetenvIs
<1>3. ~EntryFor(x, n) => E!getenv(one, n) = 0
  BY <1>1, GetenvIs
<1> QED
  BY <1>2, <1>3 DEF Sparing, one

(* unsetenv: no entry of the name is left, however many there were, and getenv
   finds under any other name what it found before. *)
LEMMA UnsetenvLookup ==
  ASSUME NEW S, NEW q \in Seq(Seq(S)), NEW n \in Seq(S), NoEquals(n)
  PROVE  /\ E!getenv(E!unsetenv(q, n), n) = 0
         /\ \A m \in Seq(S) : NoEquals(m) /\ m # n => E!looked_up(E!unsetenv(q, n), m) = E!looked_up(q, m)
<1> DEFINE T == Seq(S)
           l == Len(q)
<1>0. PICK h : h \in Unsetting(S, q, n)
  BY UnsetenvFold
<1>1. /\ h \in [0 .. l -> Seq(T)] /\ h[0] = <<>> /\ E!unsetenv(q, n) = h[l]
      /\ \A k \in 1 .. l : h[k] = Sparing(h[k - 1], q[k], n)
  BY <1>0 DEF Unsetting
<1>2. l \in Nat /\ q \in Seq(T) /\ \A k \in 1 .. l : q[k] \in T
  BY LenProperties, ElementOfSeq
<1> HIDE DEF T, l
<1>3. ASSUME NEW k \in 1 .. l
      PROVE  /\ h[k - 1] \in Seq(T) /\ k - 1 \in 0 .. l
             /\ h[k] = IF EntryFor(q[k], n) THEN h[k - 1] ELSE Append(h[k - 1], q[k])
  <2>1. k - 1 \in 0 .. l
    BY <1>2
  <2>2. h[k - 1] \in Seq(T) /\ q[k] \in T
    BY <1>1, <1>2, <2>1
  <2> QED
    BY <1>1, <2>1, <2>2, SparingOne
<1>4. \A i \in 1 .. Len(h[l]) : ~EntryFor(h[l][i], n)
  <2> DEFINE P(k) == k \in 0 .. l => \A i \in 1 .. Len(h[k]) : ~EntryFor(h[k][i], n)
             I == {k \in Nat : P(k)}
  <2>1. 0 \in I
    <3>1. Len(h[0]) = 0
      BY <1>1
    <3> QED
      BY <3>1
  <2>2. ASSUME NEW j \in Nat, j \in I PROVE j + 1 \in I
    <3> SUFFICES ASSUME j + 1 \in 0 .. l PROVE \A i \in 1 .. Len(h[j + 1]) : ~EntryFor(h[j + 1][i], n)
      OBVIOUS
    <3> DEFINE k == j + 1
               a == h[j]
    <3>1. k \in 1 .. l /\ k - 1 = j /\ j \in 0 .. l
      BY <1>2
    <3>2. \A i \in 1 .. Len(a) : ~EntryFor(a[i], n)
      BY <2>2, <3>1
    <3> HIDE DEF k
    <3>3. a \in Seq(T) /\ h[k] = IF EntryFor(q[k], n) THEN a ELSE Append(a, q[k])
      BY <1>3, <3>1
    <3>4. q[k] \in T
      BY <1>2, <3>1
    <3> HIDE DEF a
    <3>5. CASE EntryFor(q[k], n)
      BY <3>2, <3>3, <3>5 DEF k
    <3>6. CASE ~EntryFor(q[k], n)
      <4> DEFINE b == Append(a, q[k])
      <4>1. Len(a) \in Nat /\ Len(b) = Len(a) + 1 /\ b[Len(a) + 1] = q[k] /\ \A i \in 1 .. Len(a) : b[i] = a[i]
        BY <3>3, <3>4, AppendProperties, LenProperties
      <4> HIDE DEF b
      <4>2. \A i \in 1 .. Len(b) : ~EntryFor(b[i], n)
        <5> SUFFICES ASSUME NEW i \in 1 .. Len(b) PROVE ~EntryFor(b[i], n)
          OBVIOUS
        <5>1. i \in 1 .. Len(a) \/ i = Len(a) + 1
          BY <4>1
        <5> QED
          BY <3>2, <3>6, <4>1, <5>1
      <4> QED
        BY <3>3, <3>6, <4>2 DEF k, b
    <3> QED
      BY <3>5, <3>6
  <2> HIDE DEF I
  <2>3. Nat \subseteq I
    BY <2>1, <2>2, Induction
  <2>4. l \in I
    BY <1>2, <2>3
  <2> QED
    BY <1>2, <2>4 DEF I
<1>5. ASSUME NEW m \in T, NoEquals(m), m # n PROVE E!looked_up(h[l], m) = E!looked_up(q, m)
  <2> DEFINE P(k) == k \in 0 .. l => E!looked_up(h[k], m) = E!looked_up(SubSeq(q, 1, k), m)
             I == {k \in Nat : P(k)}
  <2>1. 0 \in I
    <3>1. SubSeq(q, 1, 0) = <<>>
      BY <1>2, Beginnings
    <3>2. h[0] = SubSeq(q, 1, 0)
      BY <1>1, <3>1
    <3> QED
      BY <3>2
  <2>2. ASSUME NEW j \in Nat, j \in I PROVE j + 1 \in I
    <3> SUFFICES ASSUME j + 1 \in 0 .. l PROVE E!looked_up(h[j + 1], m) = E!looked_up(SubSeq(q, 1, j + 1), m)
      OBVIOUS
    <3> DEFINE k == j + 1
               a == h[j]
               b == SubSeq(q, 1, j)
    <3>1. k \in 1 .. l /\ k - 1 = j /\ j \in 0 .. l
      BY <1>2
    <3>2. E!looked_up(a, m) = E!looked_up(b, m)
      BY <2>2, <3>1
    <3> HIDE DEF k
    <3>3. a \in Seq(T) /\ h[k] = IF EntryFor(q[k], n) THEN a ELSE Append(a, q[k])
      BY <1>3, <3>1
    <3>4. q[k] \in T
      BY <1>2, <3>1
    <3>5. b \in Seq(T) /\ SubSeq(q, 1, k) = Append(b, q[k])
      <4>1. SubSeq(q, 1, k - 1) \in Seq(T) /\ SubSeq(q, 1, k) = Append(SubSeq(q, 1, k - 1), q[k])
        BY <1>2, <3>1, Beginnings DEF l
      <4> QED
        BY <3>1, <4>1
    <3> HIDE DEF a, b
    <3>6. CASE EntryFor(q[k], n)
      <4>1. ~EntryFor(q[k], m)
        BY <1>5, <3>4, <3>6, OneName DEF T
      <4>2. E!looked_up(Append(b, q[k]), m) = E!looked_up(b, m)
        <5>1. /\ E!looked_up(b, m).found => E!looked_up(Append(b, q[k]), m) = E!looked_up(b, m)
              /\ ~E!looked_up(b, m).found => E!looked_up(b, m) = Missing /\ E!looked_up(Append(b, q[k]), m) = Missing
          BY <3>4, <3>5, <4>1, GetAppend
        <5> QED
          BY <5>1
      <4> QED
        BY <3>2, <3>3, <3>5, <3>6, <4>2 DEF k
    <3>7. CASE ~EntryFor(q[k], n)
      <4>1. E!looked_up(Append(b, q[k]), m) = E!looked_up(Append(a, q[k]), m)
        <5> DEFINE G == IF EntryFor(q[k], m) THEN Got(q[k], m) ELSE Missing
        <5>1. /\ E!looked_up(b, m).found => E!looked_up(Append(b, q[k]), m) = E!looked_up(b, m)
              /\ ~E!looked_up(b, m).found => E!looked_up(Append(b, q[k]), m) = G
          BY <3>4, <3>5, GetAppend
        <5>2. /\ E!looked_up(a, m).found => E!looked_up(Append(a, q[k]), m) = E!looked_up(a, m)
              /\ ~E!looked_up(a, m).found => E!looked_up(Append(a, q[k]), m) = G
          BY <3>3, <3>4, GetAppend
        <5> HIDE DEF G
        <5> QED
          BY <3>2, <5>1, <5>2
      <4> QED
        BY <3>3, <3>5, <3>7, <4>1 DEF k
    <3> QED
      BY <3>6, <3>7
  <2> HIDE DEF I
  <2>3. Nat \subseteq I
    BY <2>1, <2>2, Induction
  <2>4. l \in I
    BY <1>2, <2>3
  <2>5. E!looked_up(h[l], m) = E!looked_up(SubSeq(q, 1, l), m)
    BY <1>2, <2>4 DEF I
  <2>6. SubSeq(q, 1, l) = q
    BY <1>2, Beginnings DEF l
  <2> QED
    BY <2>5, <2>6
<1>6. E!getenv(h[l], n) = 0
  <2>1. h[l] \in Seq(T)
    BY <1>1, <1>2
  <2>2. Len(h[l]) \in Nat
    BY <2>1, LenProperties
  <2> QED
    BY <1>4, <2>2, GetenvIs
<1> QED
  BY <1>1, <1>5, <1>6 DEF T

LEMMA EqualsNone ==
  ASSUME NEW S, NEW x \in Seq(S)
  PROVE  E!find_first_of(x) = 0 <=> NoEquals(x)
<1>1. /\ E!find_first_of(x) \in 0 .. Len(x)
      /\ E!find_first_of(x) = 0 => \A i \in 1 .. Len(x) : x[i] # E!Equals
      /\ E!find_first_of(x) # 0 => x[E!find_first_of(x)] = E!Equals
  BY EqualsFound
<1>2. Len(x) \in Nat
  BY LenProperties
<1>3. E!find_first_of(x) # 0 => E!find_first_of(x) \in 1 .. Len(x)
  BY <1>1, <1>2
<1> QED
  BY <1>1, <1>3 DEF NoEquals

(* The name getenv is given: that of the caller up to its first NUL. *)
LEMMA NameCut ==
  ASSUME NEW S, NEW x \in Seq(S)
  PROVE  /\ E!strdup(x) \in Seq(S) /\ E!strdup(E!strdup(x)) = E!strdup(x)
         /\ E!find_first_of(E!strdup(x)) = 0 <=> NoEquals(E!strdup(x))
<1> DEFINE n == E!strdup(x)
<1>1. n \in Seq(S) /\ \A i \in 1 .. Len(n) : n[i] # "nul"
  BY Duplicated
<1> HIDE DEF n
<1>2. E!strdup(n) = n /\ (E!find_first_of(n) = 0 <=> NoEquals(n))
  BY <1>1, Duplicated, EqualsNone
<1> QED
  BY <1>1, <1>2 DEF n

(* What get() finds under a name that is another one up to its first NUL, and has
   no '=' there, is what it found before; under this one it finds the value, or
   the old one if there was one that was not to be replaced. *)
Untouched(S, new, q, name) ==
  \A m \in Seq(S) : NoEquals(E!strdup(m)) /\ E!strdup(m) # E!strdup(name) => E!get(new, m) = E!get(q, m)
EntryPut(new, q, name, value, over) ==
  E!get(new, name) =
    [found |-> TRUE,
     value |-> IF E!get(q, name).found /\ ~over THEN E!get(q, name).value ELSE E!strdup(value)]

(* this_environ::insert (environ.cpp:66): the name has the new value then, up to
   its first NUL, or the one it had when it was not to be overwritten, and what
   get() finds under every name that is another one up to its first NUL is not
   touched. *)
THEOREM SetenvKeeps ==
  ASSUME NEW S, E!Equals \in S, NEW q \in Seq(Seq(S)), NEW name \in Seq(S), NEW value \in Seq(S),
         E!named(E!strdup(name)), NEW over \in BOOLEAN,
         NEW r, r = E!this_insert(q, name, value, over), NEW new, new = r.envp
  PROVE  r.threw = FALSE /\ EntryPut(new, q, name, value, over) /\ Untouched(S, new, q, name)
<1> DEFINE n == E!strdup(name)
           v == E!strdup(value)
<1>1. n \in Seq(S) /\ v \in Seq(S) /\ n # <<>> /\ NoEquals(n)
  BY NameCut DEF E!named
<1>2. r.threw = FALSE /\ new = E!setenv(q, n, v, over)
  BY DEF E!this_insert
<1> HIDE DEF n, v
<1>3. /\ E!looked_up(new, n) =
           [found |-> TRUE,
            value |-> IF E!looked_up(q, n).found /\ ~over THEN E!looked_up(q, n).value ELSE v]
      /\ \A m \in Seq(S) : NoEquals(m) /\ m # n => E!looked_up(new, m) = E!looked_up(q, m)
  BY <1>1, <1>2, SetenvLookup
<1>4. ASSUME NEW m \in Seq(S), NoEquals(E!strdup(m)), E!strdup(m) # n
      PROVE  E!get(new, m) = E!get(q, m)
  <2>1. E!strdup(m) \in Seq(S)
    BY NameCut
  <2> QED
    BY <1>3, <1>4, <2>1 DEF E!get
<1>5. E!get(new, name) = E!looked_up(new, n) /\ E!get(q, name) = E!looked_up(q, n)
  BY DEF E!get, n
<1> QED
  BY <1>2, <1>3, <1>4, <1>5 DEF n, v, EntryPut, Untouched

(* this_environ::erase (environ.cpp:73): no entry of the name is left, however
   many there were, and what get() finds under every name that is another one up
   to its first NUL is not touched. *)
THEOREM UnsetenvErases ==
  ASSUME NEW S, NEW q \in Seq(Seq(S)), NEW name \in Seq(S), E!named(E!strdup(name)),
         NEW r, r = E!this_erase(q, name), NEW new, new = r.envp
  PROVE  r.threw = FALSE /\ E!this_count(new, name) = 0 /\ Untouched(S, new, q, name)
<1> DEFINE n == E!strdup(name)
<1>1. n \in Seq(S) /\ NoEquals(n)
  BY NameCut DEF E!named
<1>2. r.threw = FALSE /\ new = E!unsetenv(q, n)
  BY DEF E!this_erase
<1>3. E!this_count(new, name) = IF E!getenv(new, n) # 0 THEN 1 ELSE 0
  BY DEF E!this_count
<1> HIDE DEF n
<1>4. /\ E!getenv(new, n) = 0
      /\ \A m \in Seq(S) : NoEquals(m) /\ m # n => E!looked_up(new, m) = E!looked_up(q, m)
  BY <1>1, <1>2, UnsetenvLookup
<1>5. ASSUME NEW m \in Seq(S), NoEquals(E!strdup(m)), E!strdup(m) # n
      PROVE  E!get(new, m) = E!get(q, m)
  <2>1. E!strdup(m) \in Seq(S)
    BY NameCut
  <2> QED
    BY <1>4, <1>5, <2>1 DEF E!get
<1> QED
  BY <1>2, <1>3, <1>4, <1>5 DEF n, Untouched

----------------------------------------------------------------------------
(* Environments as objects, and as arrays of strings.                      *)

(* Environments; one string after the other is entered into one.           *)
Maps(S) == UNION {[D -> Seq(S)] : D \in SUBSET Seq(S)}
NameOf(x) == SubSeq(x, 1, E!find_first_of(x) - 1)
ValueOf(x) == SubSeq(x, E!find_first_of(x) + 1, Len(x))
WithString(e, x) == LET pos == E!find_first_of(x) IN
                   IF pos = 0 THEN e ELSE E!insert(e, SubSeq(x, 1, pos - 1), SubSeq(x, pos + 1, Len(x)))
NoNul(x) == \A i \in 1 .. Len(x) : x[i] # "nul"
CleanMap(e) == \A n \in DOMAIN e : NoEquals(n) /\ NoNul(n) /\ NoNul(e[n])

(* A string with an '=' is its name, the '=' and its value. *)
LEMMA StringSplit ==
  ASSUME NEW S, NEW x \in Seq(S), E!find_first_of(x) # 0
  PROVE  /\ NameOf(x) \in Seq(S) /\ Len(NameOf(x)) = E!find_first_of(x) - 1 /\ NoEquals(NameOf(x))
         /\ ValueOf(x) \in Seq(S) /\ ValueOf(x) = Behind(x, NameOf(x))
         /\ NameOf(x) # <<>> => EntryFor(x, NameOf(x))
         /\ NoNul(x) => NoNul(NameOf(x)) /\ NoNul(ValueOf(x))
<1> DEFINE pos == E!find_first_of(x)
           a == Len(x)
           n == NameOf(x)
           v == ValueOf(x)
<1>1. a \in Nat /\ pos \in 1 .. a /\ x[pos] = E!Equals /\ \A i \in 1 .. pos - 1 : x[i] # E!Equals
  <2>1. a \in Nat
    BY LenProperties
  <2>2. pos \in 0 .. a /\ (pos # 0 => x[pos] = E!Equals /\ \A i \in 1 .. pos - 1 : x[i] # E!Equals)
    BY EqualsFound
  <2> HIDE DEF a, pos
  <2> QED
    BY <2>1, <2>2 DEF pos
<1>2. n = SubSeq(x, 1, pos - 1)
  BY DEF NameOf
<1> HIDE DEF pos, n
<1>3. n \in Seq(S) /\ Len(n) = pos - 1 /\ \A i \in 1 .. pos - 1 : n[i] = x[i]
  <2> DEFINE b == pos - 1
  <2>1. 1 \in 1 .. a + 1 /\ b \in 0 .. a
    BY <1>1
  <2> HIDE DEF b
  <2>2. /\ SubSeq(x, 1, b) \in Seq(S) /\ Len(SubSeq(x, 1, b)) = IF 1 <= b THEN b - 1 + 1 ELSE 0
        /\ \A i \in 1 .. b - 1 + 1 : SubSeq(x, 1, b)[i] = x[1 + i - 1]
    BY <2>1, Part
  <2>3. b = pos - 1 /\ n = SubSeq(x, 1, b)
    BY <1>2 DEF b
  <2> HIDE DEF a
  <2> QED
    BY <1>1, <2>1, <2>2, <2>3
<1>4. NoEquals(n)
  BY <1>1, <1>3 DEF NoEquals
<1>5. v = Behind(x, n)
  <2>1. v = SubSeq(x, pos + 1, a)
    BY DEF ValueOf, pos
  <2>2. Len(n) + 2 = pos + 1
    BY <1>1, <1>3
  <2> QED
    BY <2>1, <2>2 DEF Behind
<1> HIDE DEF v
<1>6. v \in Seq(S) /\ Len(v) = a - pos /\ \A i \in 1 .. a - pos : v[i] = x[pos + i]
  <2>1. Len(n) < a
    BY <1>1, <1>3
  <2>2. /\ Behind(x, n) \in Seq(S) /\ Len(Behind(x, n)) = a - Len(n) - 1
        /\ \A i \in 1 .. a - Len(n) - 1 : Behind(x, n)[i] = x[Len(n) + 1 + i]
    <3>1. n \in Seq(S) /\ Len(n) < Len(x)
      BY <1>3, <2>1
    <3>2. /\ Behind(x, n) \in Seq(S) /\ Len(Behind(x, n)) = Len(x) - Len(n) - 1
          /\ \A i \in 1 .. Len(x) - Len(n) - 1 : Behind(x, n)[i] = x[Len(n) + 1 + i]
      BY <3>1, EntryPlaces
    <3> QED
      BY <3>2
  <2> HIDE DEF a
  <2> QED
    BY <1>1, <1>3, <1>5, <2>2
<1>7. n # <<>> => EntryFor(x, n)
  <2> SUFFICES ASSUME n # <<>> PROVE EntryFor(x, n)
    OBVIOUS
  <2>1. Len(n) > 0
    BY <1>3, EmptySeq, LenProperties
  <2>2. a > Len(n) /\ x[Len(n) + 1] = E!Equals /\ \A i \in 1 .. Len(n) : x[i] = n[i]
    BY <1>1, <1>3
  <2> QED
    BY <1>3, <2>1, <2>2, EntryPlaces
<1>8. NoNul(x) => NoNul(n) /\ NoNul(v)
  <2> SUFFICES ASSUME NoNul(x) PROVE NoNul(n) /\ NoNul(v)
    OBVIOUS
  <2>1. \A i \in 1 .. a : x[i] # "nul"
    BY DEF NoNul
  <2> HIDE DEF a
  <2>2. \A i \in 1 .. pos - 1 : i \in 1 .. a
    BY <1>1
  <2>3. \A i \in 1 .. a - pos : pos + i \in 1 .. a
    BY <1>1
  <2> QED
    BY <1>3, <1>6, <2>1, <2>2, <2>3 DEF NoNul
<1> QED
  BY <1>3, <1>4, <1>5, <1>6, <1>7, <1>8 DEF n, v, pos

LEMMA EmptyMap ==
  ASSUME NEW S
  PROVE  [n \in {} |-> <<>>] \in Maps(S)
<1>1. [n \in {} |-> <<>>] \in [{} -> Seq(S)]
  OBVIOUS
<1>2. {} \in SUBSET Seq(S)
  OBVIOUS
<1> QED
  BY <1>1, <1>2 DEF Maps

WithEntry(S, e, n, v) ==
  {d \in Maps(S) : /\ DOMAIN d = DOMAIN e \cup {n}
                   /\ \A m \in DOMAIN e : d[m] = e[m]
                   /\ n \notin DOMAIN e => d[n] = v}

LEMMA MapInserted ==
  ASSUME NEW S, NEW e \in Maps(S), NEW n \in Seq(S), NEW v \in Seq(S)
  PROVE  E!insert(e, n, v) \in WithEntry(S, e, n, v)
<1> DEFINE V == Seq(S)
           d == E!insert(e, n, v)
<1>1. PICK D \in SUBSET V : e \in [D -> V]
  BY DEF Maps
<1>2. n \in V /\ v \in V
  OBVIOUS
<1> HIDE DEF V
<1>3. DOMAIN e = D /\ \A m \in D : e[m] \in V
  BY <1>1
<1>4. d = [m \in D \cup {n} |-> IF m \in D THEN e[m] ELSE v]
  BY <1>3 DEF E!insert
<1> HIDE DEF d
<1>5. d \in [D \cup {n} -> V] /\ D \cup {n} \in SUBSET V
  BY <1>2, <1>3, <1>4
<1>6. d \in Maps(S)
  BY <1>5 DEF Maps, V
<1> QED
  BY <1>3, <1>4, <1>6 DEF WithEntry, d

LEMMA Entered ==
  ASSUME NEW S
  PROVE  \A e \in Maps(S), x \in Seq(S) : WithString(e, x) \in Maps(S)
<1> SUFFICES ASSUME NEW e \in Maps(S), NEW x \in Seq(S) PROVE WithString(e, x) \in Maps(S)
  OBVIOUS
<1>1. CASE E!find_first_of(x) = 0
  BY <1>1 DEF WithString
<1>2. CASE E!find_first_of(x) # 0
  <2>1. WithString(e, x) = E!insert(e, NameOf(x), ValueOf(x))
    BY <1>2 DEF WithString, NameOf, ValueOf
  <2>2. NameOf(x) \in Seq(S) /\ ValueOf(x) \in Seq(S)
    BY <1>2, StringSplit
  <2> DEFINE n == NameOf(x)
             v == ValueOf(x)
  <2>3. e \in Maps(S) /\ n \in Seq(S) /\ v \in Seq(S)
    BY <2>2
  <2> HIDE DEF n, v
  <2>4. E!insert(e, n, v) \in Maps(S)
    BY <2>3, MapInserted DEF WithEntry
  <2> QED
    BY <2>1, <2>4 DEF n, v
<1> QED
  BY <1>1, <1>2

Entering(S, q) ==
  {h \in [0 .. Len(q) -> Maps(S)] :
     /\ h[0] = [n \in {} |-> <<>>]
     /\ \A k \in 1 .. Len(q) : h[k] = WithString(h[k - 1], q[k])
     /\ E!from_charpp(q) = h[Len(q)]}

LEMMA FromFold ==
  ASSUME NEW S, NEW q \in Seq(Seq(S))
  PROVE  Entering(S, q) # {}
<1> DEFINE D == Seq(S)
           T == Maps(S)
           base == [n \in {} |-> <<>>]
           f == [z \in T \X D |-> WithString(z[1], z[2])]
           Body(g) == [s \in SUBSET (DOMAIN q) |->
                         IF s = {} THEN base ELSE WithString(g[s \ {E!Max(s)}], q[E!Max(s)])]
           iter == CHOOSE g : g = Body(g)
<1>1. E!from_charpp(q) = iter[DOMAIN q]
  BY DEF E!from_charpp, E!FoldLeft, E!MapThenFoldSet, WithString
<1>2. base \in T
  BY EmptyMap
<1>3. \A s \in T, e \in D : WithString(s, e) \in T
  BY Entered
<1>4. q \in Seq(D)
  OBVIOUS
<1>5. \A s : E!Max(s) = Max(s)
  BY DEF E!Max, Max
<1> HIDE DEF base, D, T
<1>6. f \in [T \X D -> T]
  BY <1>3
<1>6a. \A s \in T, e \in D : f[<<s, e>>] = WithString(s, e)
  OBVIOUS
<1> HIDE DEF f
<1>7. PICK g : g \in Folding(T, D, base, f, q)
  BY <1>2, <1>4, <1>6, Folds
<1>8. g = Body(g)
  <2>1. g \in [SUBSET (DOMAIN q) -> T] /\ g[{}] = base
    BY <1>7 DEF Folding
  <2>2. \A s \in SUBSET (DOMAIN q) : s # {} => g[s] = WithString(g[s \ {Max(s)}], q[Max(s)])
    BY <1>6a, <1>7 DEF Folding
  <2> QED
    BY <1>5, <2>1, <2>2
<1>9. iter = Body(iter)
  BY <1>8
<1> HIDE DEF iter
<1>10. Recursive(T, base, f, q, iter)
  <2>1. iter[{}] = base
    BY <1>9
  <2>2. ASSUME NEW s \in SUBSET (DOMAIN q), s # {}, iter[s \ {Max(s)}] \in T
        PROVE  iter[s] = f[<<iter[s \ {Max(s)}], q[Max(s)]>>]
    <3>1. q[Max(s)] \in D
      BY <1>7, <2>2 DEF Folding
    <3>2. iter[s] = WithString(iter[s \ {Max(s)}], q[Max(s)])
      BY <1>5, <1>9, <2>2
    <3> QED
      BY <1>6a, <2>2, <3>1, <3>2
  <2> QED
    BY <2>1, <2>2 DEF Recursive
<1>11. PICK h : h \in Stepping(T, D, base, f, q, iter)
  BY <1>2, <1>4, <1>6, <1>10, FoldSteps
<1>12. h \in Entering(S, q)
  <2>1. \A k \in 1 .. Len(q) : h[k] = WithString(h[k - 1], q[k])
    BY <1>6a, <1>11 DEF Stepping
  <2>2. h \in [0 .. Len(q) -> T] /\ h[0] = base /\ h[Len(q)] = iter[DOMAIN q]
    BY <1>11 DEF Stepping
  <2> QED
    BY <1>1, <2>1, <2>2 DEF Entering, base, T
<1> QED
  BY <1>12

(* What an environment has under a name, as get() would say it. *)
Entry(e, m) == IF m \in DOMAIN e THEN [found |-> TRUE, value |-> e[m]] ELSE Missing

LEMMA EnteredOne ==
  ASSUME NEW S, NEW e \in Maps(S), NEW x \in Seq(S), NEW d, d = WithString(e, x)
  PROVE  /\ DOMAIN e \subseteq DOMAIN d
         /\ IsFiniteSet(DOMAIN e) => IsFiniteSet(DOMAIN d)
         /\ E!find_first_of(x) # 0 => NameOf(x) \in DOMAIN d
         /\ CleanMap(e) /\ NoNul(x) => CleanMap(d)
         /\ \A m \in Seq(S) : NoEquals(m) /\ m # <<>> =>
              Entry(d, m) = IF m \in DOMAIN e THEN Entry(e, m)
                            ELSE IF EntryFor(x, m) THEN Got(x, m) ELSE Missing
<1>1. CASE E!find_first_of(x) = 0
  <2>1. d = e
    BY <1>1 DEF WithString
  <2>2. ASSUME NEW m \in Seq(S) PROVE ~EntryFor(x, m)
    <3> SUFFICES ASSUME EntryFor(x, m) PROVE FALSE
      OBVIOUS
    <3>1. Len(x) > Len(m) /\ x[Len(m) + 1] = E!Equals
      BY EntryPlaces
    <3>2. \A i \in 1 .. Len(x) : x[i] # E!Equals
      BY <1>1, EqualsFound
    <3>3. Len(m) \in Nat /\ Len(x) \in Nat
      BY LenProperties
    <3>4. Len(m) + 1 \in 1 .. Len(x)
      BY <3>1, <3>3
    <3> QED
      BY <3>1, <3>2, <3>4
  <2> QED
    BY <1>1, <2>1, <2>2 DEF Entry
<1>2. CASE E!find_first_of(x) # 0
  <2> DEFINE n == NameOf(x)
             v == ValueOf(x)
  <2>1. /\ n \in Seq(S) /\ NoEquals(n) /\ v \in Seq(S) /\ v = Behind(x, n)
        /\ n # <<>> => EntryFor(x, n)
        /\ NoNul(x) => NoNul(n) /\ NoNul(v)
    BY <1>2, StringSplit
  <2>2. d = E!insert(e, n, v)
    BY <1>2 DEF WithString, NameOf, ValueOf
  <2> HIDE DEF n, v
  <2>3. /\ DOMAIN d = DOMAIN e \cup {n}
        /\ \A m \in DOMAIN e : d[m] = e[m]
        /\ n \notin DOMAIN e => d[n] = v
    <3>1. n \in Seq(S) /\ v \in Seq(S)
      BY <2>1
    <3>2. e \in Maps(S) /\ d = E!insert(e, n, v)
      BY <2>2
    <3>3. d \in WithEntry(S, e, n, v)
      BY <3>1, <3>2, MapInserted
    <3> QED
      BY <3>3 DEF WithEntry
  <2>4. IsFiniteSet(DOMAIN e) => IsFiniteSet(DOMAIN d)
    BY <2>3, FS_AddElement
  <2>5. CleanMap(e) /\ NoNul(x) => CleanMap(d)
    BY <2>1, <2>3 DEF CleanMap
  <2>6. ASSUME NEW m \in Seq(S), NoEquals(m), m # <<>>
        PROVE  Entry(d, m) = IF m \in DOMAIN e THEN Entry(e, m)
                             ELSE IF EntryFor(x, m) THEN Got(x, m) ELSE Missing
    <3>1. EntryFor(x, m) <=> m = n
      <4>1. ASSUME EntryFor(x, m), n # <<>> PROVE m = n
        <5>1. EntryFor(x, n) /\ NoEquals(n) /\ n \in Seq(S)
          BY <2>1, <4>1
        <5> QED
          BY <2>6, <4>1, <5>1, OneName
      <4>2. ASSUME EntryFor(x, m) PROVE n # <<>>
        <5> SUFFICES ASSUME n = <<>> PROVE FALSE
          OBVIOUS
        <5>1. x[1] = E!Equals
          <6>1. Len(n) = 0 /\ Len(NameOf(x)) = E!find_first_of(x) - 1 /\ E!find_first_of(x) \in 0 .. Len(x)
            BY <1>2, StringSplit, EqualsFound DEF n
          <6>2. x[E!find_first_of(x)] = E!Equals
            BY <1>2, EqualsFound
          <6> QED
            BY <1>2, <6>1, <6>2, LenProperties DEF n
        <5>2. Len(m) > 0 /\ x[1] = m[1] /\ Len(m) \in Nat
          <6>1. Len(m) > 0 /\ \A i \in 1 .. Len(m) : x[i] = m[i]
            BY <4>2, EntryPlaces
          <6> QED
            BY <6>1, LenProperties
        <5> QED
          BY <2>6, <5>1, <5>2 DEF NoEquals
      <4> QED
        BY <2>1, <2>6, <4>1, <4>2
    <3>2. CASE m \in DOMAIN e
      BY <2>3, <3>2 DEF Entry
    <3>3. CASE m \notin DOMAIN e /\ m = n
      BY <2>1, <2>3, <3>1, <3>3 DEF Entry, Got
    <3>4. CASE m \notin DOMAIN e /\ m # n
      BY <2>3, <3>1, <3>4 DEF Entry
    <3> QED
      BY <3>2, <3>3, <3>4
  <2> QED
    BY <2>3, <2>4, <2>5, <2>6 DEF n
<1> QED
  BY <1>1, <1>2

(* from_charpp: the map holds for each name what getenv finds in the array. *)
LEMMA ReadLookup ==
  ASSUME NEW S, NEW q \in Seq(Seq(S)), NEW e, e = E!from_charpp(q)
  PROVE  /\ e \in Maps(S) /\ IsFiniteSet(DOMAIN e)
         /\ \A m \in Seq(S) : NoEquals(m) /\ m # <<>> => E!looked_up(q, m) = Entry(e, m)
         /\ \A i \in 1 .. Len(q) : E!find_first_of(q[i]) # 0 => NameOf(q[i]) \in DOMAIN e
         /\ (\A i \in 1 .. Len(q) : NoNul(q[i])) => CleanMap(e)
<1> DEFINE l == Len(q)
           T == Seq(S)
<1>1. PICK h : h \in Entering(S, q)
  BY FromFold
<1>2. /\ h \in [0 .. l -> Maps(S)] /\ h[0] = [n \in {} |-> <<>>] /\ e = h[l]
      /\ \A k \in 1 .. l : h[k] = WithString(h[k - 1], q[k])
  BY <1>1 DEF Entering
<1>3. l \in Nat /\ q \in Seq(T) /\ \A k \in 1 .. l : q[k] \in T
  BY LenProperties, ElementOfSeq
<1>4. DOMAIN h[0] = {}
  BY <1>2
<1> DEFINE Agrees(k) == \A m \in T : NoEquals(m) /\ m # <<>> => E!looked_up(SubSeq(q, 1, k), m) = Entry(h[k], m)
           Has(k) == \A i \in 1 .. k : E!find_first_of(q[i]) # 0 => NameOf(q[i]) \in DOMAIN h[k]
           Neat(k) == (\A i \in 1 .. l : NoNul(q[i])) => CleanMap(h[k])
           P(k) == k \in 0 .. l => IsFiniteSet(DOMAIN h[k]) /\ Agrees(k) /\ Has(k) /\ Neat(k)
           I == {k \in Nat : P(k)}
<1>5. 0 \in I
  <2>1. SubSeq(q, 1, 0) = <<>>
    BY <1>3, Beginnings
  <2>2. ASSUME NEW m \in T PROVE E!looked_up(SubSeq(q, 1, 0), m) = Missing
    <3>1. PICK x \in T : TRUE
      BY <2>2
    <3>2. E!looked_up(<<>>, m) = Missing
      BY <1>3, <3>1, GetAppend
    <3> QED
      BY <2>1, <3>2
  <2>3. Agrees(0)
    BY <1>4, <2>2 DEF Entry
  <2>4. IsFiniteSet(DOMAIN h[0])
    BY <1>4, FS_EmptySet
  <2>5. Has(0) /\ Neat(0)
    BY <1>4 DEF CleanMap
  <2> QED
    BY <2>3, <2>4, <2>5
<1>6. ASSUME NEW j \in Nat, j \in I PROVE j + 1 \in I
  <2> DEFINE k == j + 1
             a == SubSeq(q, 1, j)
             c == h[j]
             d == h[k]
             x == q[k]
  <2> SUFFICES ASSUME k \in 0 .. l PROVE IsFiniteSet(DOMAIN h[k]) /\ Agrees(k) /\ Has(k) /\ Neat(k)
    OBVIOUS
  <2>1. k \in 1 .. l /\ k - 1 = j /\ j \in 0 .. l
    BY <1>3
  <2>2. IsFiniteSet(DOMAIN h[j]) /\ Agrees(j) /\ Has(j) /\ Neat(j)
    BY <1>6, <2>1
  <2>3. c \in Maps(S) /\ x \in T /\ d = WithString(c, x)
    BY <1>2, <1>3, <2>1
  <2>4. a \in Seq(T) /\ SubSeq(q, 1, k) = Append(a, x)
    <3> HIDE DEF k
    <3>1. SubSeq(q, 1, k - 1) \in Seq(T) /\ SubSeq(q, 1, k) = Append(SubSeq(q, 1, k - 1), q[k])
      BY <1>3, <2>1, Beginnings DEF l
    <3> QED
      BY <2>1, <3>1
  <2> HIDE DEF k, a, c, d, x
  <2>5. /\ DOMAIN c \subseteq DOMAIN d
        /\ IsFiniteSet(DOMAIN c) => IsFiniteSet(DOMAIN d)
        /\ E!find_first_of(x) # 0 => NameOf(x) \in DOMAIN d
        /\ CleanMap(c) /\ NoNul(x) => CleanMap(d)
        /\ \A m \in T : NoEquals(m) /\ m # <<>> =>
             Entry(d, m) = IF m \in DOMAIN c THEN Entry(c, m)
                           ELSE IF EntryFor(x, m) THEN Got(x, m) ELSE Missing
    <3>1. c \in Maps(S) /\ x \in Seq(S)
      BY <2>3
    <3> QED
      BY <2>3, <3>1, EnteredOne
  <2>6. IsFiniteSet(DOMAIN d)
    BY <2>2, <2>5 DEF c
  <2>7. ASSUME NEW m \in T, NoEquals(m), m # <<>> PROVE E!looked_up(Append(a, x), m) = Entry(d, m)
    <3>1. E!looked_up(a, m) = Entry(c, m)
      BY <2>2, <2>7 DEF a, c
    <3>2. Entry(d, m) = IF m \in DOMAIN c THEN Entry(c, m)
                        ELSE IF EntryFor(x, m) THEN Got(x, m) ELSE Missing
      BY <2>5, <2>7
    <3>3. E!looked_up(a, m).found <=> m \in DOMAIN c
      BY <3>1 DEF Entry, Missing
    <3>4. /\ E!looked_up(a, m).found => E!looked_up(Append(a, x), m) = E!looked_up(a, m)
          /\ ~E!looked_up(a, m).found =>
               E!looked_up(Append(a, x), m) = IF EntryFor(x, m) THEN Got(x, m) ELSE Missing
      BY <2>3, <2>4, GetAppend
    <3> QED
      BY <3>1, <3>2, <3>3, <3>4
  <2>8. Agrees(k)
    BY <2>4, <2>7 DEF d
  <2>9. Has(k)
    <3> SUFFICES ASSUME NEW i \in 1 .. k, E!find_first_of(q[i]) # 0 PROVE NameOf(q[i]) \in DOMAIN d
      BY DEF d
    <3>1. i = k \/ i \in 1 .. j
      BY <2>1
    <3>2. CASE i = k
      BY <2>5, <3>2 DEF x
    <3>3. CASE i \in 1 .. j
      <4>1. NameOf(q[i]) \in DOMAIN c
        BY <2>2, <3>3 DEF c
      <4> QED
        BY <2>5, <4>1
    <3> QED
      BY <3>1, <3>2, <3>3
  <2>10. Neat(k)
    BY <2>1, <2>2, <2>5 DEF c, d, x
  <2> QED
    BY <2>6, <2>8, <2>9, <2>10 DEF d
<1> HIDE DEF I
<1>7. Nat \subseteq I
  BY <1>5, <1>6, Induction
<1>8. l \in I
  BY <1>3, <1>7
<1>9. IsFiniteSet(DOMAIN h[l]) /\ Agrees(l) /\ Has(l) /\ Neat(l)
  BY <1>3, <1>8 DEF I
<1>10. SubSeq(q, 1, l) = q /\ h[l] \in Maps(S)
  <2>1. SubSeq(q, 1, l) = q
    BY <1>3, Beginnings
  <2> QED
    BY <1>2, <1>3, <2>1
<1> QED
  BY <1>2, <1>9, <1>10

(* environ::from_charpp (environ.cpp:34): the map has for every name what
   this_environ::get() of the array finds, the name being taken up to its first
   NUL: the first of several entries, and nothing if there is none.  It has no
   '=' in a name, and no NUL when the array was one of C strings. *)
THEOREM EnvironmentRead ==
  ASSUME NEW S, NEW q \in Seq(Seq(S)), NEW e, e = E!from_charpp(q)
  PROVE  /\ e \in Maps(S) /\ IsFiniteSet(DOMAIN e)
         /\ \A m \in Seq(S) : NoEquals(E!strdup(m)) /\ E!strdup(m) # <<>> =>
              E!get(q, m) = Entry(e, E!strdup(m))
         /\ \A i \in 1 .. Len(q) : E!find_first_of(q[i]) # 0 => NameOf(q[i]) \in DOMAIN e
         /\ (\A i \in 1 .. Len(q) : NoNul(q[i])) => CleanMap(e)
<1>1. ASSUME NEW m \in Seq(S), NoEquals(E!strdup(m)), E!strdup(m) # <<>>
      PROVE  E!get(q, m) = Entry(e, E!strdup(m))
  <2>1. E!strdup(m) \in Seq(S)
    BY NameCut
  <2>2. E!looked_up(q, E!strdup(m)) = Entry(e, E!strdup(m))
    BY <1>1, <2>1, ReadLookup
  <2> QED
    BY <2>2 DEF E!get
<1> QED
  BY <1>1, ReadLookup

(* A string that was made of a name without an '=' is split where it was joined. *)
LEMMA MadeSplit ==
  ASSUME NEW S, E!Equals \in S, NEW n \in Seq(S), NEW v \in Seq(S), NoEquals(n), NEW x, x = Joined(n, v)
  PROVE  /\ x \in Seq(S) /\ E!find_first_of(x) = Len(n) + 1 /\ NameOf(x) = n /\ ValueOf(x) = v
         /\ NoNul(n) /\ NoNul(v) => E!strdup(x) = x
<1> DEFINE a == Len(n)
           c == Len(v)
           pos == E!find_first_of(x)
<1>1. /\ x \in Seq(S) /\ Len(x) = a + 1 + c /\ x[a + 1] = E!Equals
      /\ \A i \in 1 .. a : x[i] = n[i]
      /\ \A i \in 1 .. c : x[a + 1 + i] = v[i]
  <2> DEFINE y == Joined(n, v)
  <2>1. /\ y \in Seq(S) /\ Len(y) = Len(n) + 1 + Len(v) /\ y[Len(n) + 1] = E!Equals
        /\ \A i \in 1 .. Len(n) : y[i] = n[i]
        /\ \A i \in 1 .. Len(v) : y[Len(n) + 1 + i] = v[i]
    <3>1. IsMade(S, y, n, v)
      BY EntryMade
    <3> HIDE DEF y
    <3> QED
      BY <3>1 DEF IsMade
  <2> QED
    BY <2>1
<1>2. Behind(x, n) = v
  BY EntryMade
<1>3. a \in Nat /\ c \in Nat
  BY LenProperties
<1>4. /\ pos \in 0 .. Len(x)
      /\ pos = 0 => \A i \in 1 .. Len(x) : x[i] # E!Equals
      /\ pos # 0 => x[pos] = E!Equals /\ \A i \in 1 .. pos - 1 : x[i] # E!Equals
  BY <1>1, EqualsFound
<1>5. \A i \in 1 .. a : n[i] # E!Equals
  BY DEF NoEquals
<1> HIDE DEF pos, a, c
<1>6. pos = a + 1
  <2>1. a + 1 \in 1 .. Len(x) /\ Len(x) \in Nat
    BY <1>1, <1>3
  <2>2. pos # 0 /\ ~(a + 1 < pos)
    BY <1>1, <1>3, <1>4, <2>1
  <2>3. ~(pos < a + 1)
    BY <1>1, <1>3, <1>4, <1>5, <2>2
  <2> QED
    BY <1>3, <1>4, <2>1, <2>2, <2>3
<1>7. NameOf(x) = n
  <2>1. NameOf(x) = SubSeq(x, 1, a)
    <3>1. pos - 1 = a
      BY <1>3, <1>6
    <3> QED
      BY <3>1 DEF NameOf, pos
  <2>2. 1 \in 1 .. Len(x) + 1 /\ a \in 0 .. Len(x)
    BY <1>1, <1>3
  <2>3. /\ SubSeq(x, 1, a) \in Seq(S) /\ Len(SubSeq(x, 1, a)) = IF 1 <= a THEN a - 1 + 1 ELSE 0
        /\ \A i \in 1 .. a - 1 + 1 : SubSeq(x, 1, a)[i] = x[1 + i - 1]
    BY <1>1, <2>2, Part
  <2>4. Len(SubSeq(x, 1, a)) = a /\ \A i \in 1 .. a : SubSeq(x, 1, a)[i] = n[i]
    BY <1>1, <1>3, <2>3
  <2> QED
    BY <2>1, <2>3, <2>4, SeqEqual DEF a
<1>8. ValueOf(x) = v
  <2>1. pos + 1 = a + 2
    BY <1>3, <1>6
  <2> QED
    BY <1>2, <2>1 DEF ValueOf, Behind, pos, a
<1>9. NoNul(n) /\ NoNul(v) => E!strdup(x) = x
  <2> SUFFICES ASSUME NoNul(n), NoNul(v) PROVE E!strdup(x) = x
    OBVIOUS
  <2>1. (\A i \in 1 .. a : n[i] # "nul") /\ (\A i \in 1 .. c : v[i] # "nul")
    BY DEF NoNul, a, c
  <2>2. ASSUME NEW i \in 1 .. Len(x) PROVE x[i] # "nul"
    <3>1. i \in 1 .. a \/ i = a + 1 \/ (i - a - 1 \in 1 .. c /\ i = a + 1 + (i - a - 1))
      BY <1>1, <1>3
    <3>2. E!Equals # "nul"
      BY DEF E!Equals
    <3>3. CASE i - a - 1 \in 1 .. c /\ i = a + 1 + (i - a - 1)
      <4> DEFINE j == i - a - 1
      <4>1. j \in 1 .. c /\ i = a + 1 + j
        BY <3>3
      <4> HIDE DEF j
      <4> QED
        BY <1>1, <2>1, <4>1
    <3> QED
      BY <1>1, <2>1, <3>1, <3>2, <3>3
  <2> QED
    BY <1>1, <2>2, Duplicated
<1> QED
  BY <1>1, <1>6, <1>7, <1>8, <1>9 DEF pos, a

(* The array of an environment. *)
LEMMA ArrayMade ==
  ASSUME NEW S, E!Equals \in S, NEW e \in Maps(S), IsFiniteSet(DOMAIN e), NEW q, q = E!to_charpp(e)
  PROVE  /\ q \in Seq(Seq(S)) /\ Len(q) = Cardinality(DOMAIN e) /\ Len(q) \in Nat
         /\ \A i \in 1 .. Len(q) :
              LET n == E!SetToSeq(DOMAIN e)[i]
              IN  /\ n \in DOMAIN e /\ n \in Seq(S) /\ e[n] \in Seq(S)
                  /\ q[i] = E!strdup(Joined(n, e[n])) /\ NoNul(q[i])
<1> DEFINE D == DOMAIN e
           c == Cardinality(D)
           s == E!SetToSeq(D)
<1>1. c \in Nat /\ E!Cardinality(D) = c /\ s \in [1 .. c -> D]
  BY SetListed
<1>2. D \subseteq Seq(S) /\ \A n \in D : e[n] \in Seq(S)
  BY DEF Maps
<1>3. q = [i \in 1 .. c |-> E!strdup(Joined(s[i], e[s[i]]))]
  BY <1>1 DEF E!to_charpp, Joined
<1> HIDE DEF D, c, s
<1>4. ASSUME NEW i \in 1 .. c
      PROVE  /\ s[i] \in D /\ s[i] \in Seq(S) /\ e[s[i]] \in Seq(S)
             /\ q[i] = E!strdup(Joined(s[i], e[s[i]])) /\ NoNul(q[i]) /\ q[i] \in Seq(S)
  <2> DEFINE n == s[i]
             v == e[n]
             x == Joined(n, v)
  <2>1. n \in D /\ n \in Seq(S) /\ v \in Seq(S) /\ q[i] = E!strdup(x)
    BY <1>1, <1>2, <1>3
  <2> HIDE DEF n, v
  <2>2. x \in Seq(S)
    BY <2>1, EntryMade DEF IsMade
  <2> HIDE DEF x
  <2>3. E!strdup(x) \in Seq(S) /\ \A j \in 1 .. Len(E!strdup(x)) : E!strdup(x)[j] = x[j] /\ x[j] # "nul"
    BY <2>2, Duplicated
  <2>4. NoNul(E!strdup(x))
    BY <2>3 DEF NoNul
  <2> QED
    BY <2>1, <2>3, <2>4 DEF n, v, x
<1>5. q \in Seq(Seq(S)) /\ Len(q) = c
  <2>1. q \in [1 .. c -> Seq(S)]
    BY <1>3, <1>4
  <2> QED
    BY <1>1, <2>1
<1> QED
  BY <1>1, <1>4, <1>5 DEF D, c, s

(* An environment survives the array unless a name has an '=' or anything a NUL in it. *)
LEMMA ArrayRead ==
  ASSUME NEW S, E!Equals \in S, NEW e \in Maps(S), IsFiniteSet(DOMAIN e), CleanMap(e)
  PROVE  E!from_charpp(E!to_charpp(e)) = e
<1> DEFINE q == E!to_charpp(e)
           D == DOMAIN e
           c == Len(q)
           s == E!SetToSeq(D)
           V == Seq(S)
<1>1. /\ q \in Seq(V) /\ c = Cardinality(D) /\ c \in Nat
      /\ \A i \in 1 .. c : LET n == s[i]
                           IN  /\ n \in D /\ n \in V /\ e[n] \in V
                               /\ q[i] = E!strdup(Joined(n, e[n])) /\ NoNul(q[i])
  BY ArrayMade
<1>2. \A d \in D : \E i \in 1 .. c : s[i] = d
  BY <1>1, SetListed
<1>3. PICK h : h \in Entering(S, q)
  <2>1. q \in Seq(Seq(S))
    BY <1>1
  <2> HIDE DEF q
  <2> QED
    BY <2>1, FromFold
<1>4. /\ h \in [0 .. c -> Maps(S)] /\ h[0] = [n \in {} |-> <<>>] /\ E!from_charpp(q) = h[c]
      /\ \A k \in 1 .. c : h[k] = WithString(h[k - 1], q[k])
  BY <1>3 DEF Entering
<1>5. D \subseteq V /\ e \in [D -> V] /\ \A n \in D : NoEquals(n) /\ NoNul(n) /\ NoNul(e[n])
  <2>1. \A n \in DOMAIN e : NoEquals(n) /\ NoNul(n) /\ NoNul(e[n])
    BY DEF CleanMap
  <2>2. PICK G \in SUBSET V : e \in [G -> V]
    BY DEF Maps
  <2> QED
    BY <2>1, <2>2
<1> HIDE DEF c, q, s, D, V
<1>6. ASSUME NEW i \in 1 .. c
      PROVE  /\ E!find_first_of(q[i]) # 0 /\ NameOf(q[i]) = s[i] /\ ValueOf(q[i]) = e[s[i]]
             /\ s[i] \in D /\ q[i] \in V /\ s[i] \in V /\ e[s[i]] \in V
  <2> DEFINE n == s[i]
             v == e[n]
             x == Joined(n, v)
  <2>1. n \in D /\ n \in V /\ v \in V /\ q[i] = E!strdup(x) /\ NoEquals(n) /\ NoNul(n) /\ NoNul(v)
    BY <1>1, <1>5
  <2> HIDE DEF n, v
  <2>2. /\ x \in Seq(S) /\ E!find_first_of(x) = Len(n) + 1 /\ NameOf(x) = n /\ ValueOf(x) = v
        /\ E!strdup(x) = x
    <3>1. n \in Seq(S) /\ v \in Seq(S)
      BY <2>1 DEF V
    <3> HIDE DEF x
    <3>2. x = Joined(n, v)
      BY DEF x
    <3> QED
      BY <2>1, <3>1, <3>2, MadeSplit
  <2>3. Len(n) \in Nat
    BY <2>1, LenProperties DEF V
  <2> HIDE DEF x
  <2> QED
    BY <2>1, <2>2, <2>3 DEF n, v, V
<1> DEFINE P(k) == k \in 0 .. c => /\ DOMAIN h[k] = {s[i] : i \in 1 .. k}
                                  /\ \A m \in DOMAIN h[k] : h[k][m] = e[m]
           I == {k \in Nat : P(k)}
<1>7. 0 \in I
  <2>1. DOMAIN h[0] = {} /\ {s[i] : i \in 1 .. 0} = {}
    BY <1>4
  <2> QED
    BY <2>1
<1>8. ASSUME NEW j \in Nat, j \in I PROVE j + 1 \in I
  <2> DEFINE k == j + 1
             n == s[k]
             v == e[n]
             a == h[j]
             b == h[k]
  <2> SUFFICES ASSUME k \in 0 .. c PROVE DOMAIN h[k] = {s[i] : i \in 1 .. k} /\ \A m \in DOMAIN h[k] : h[k][m] = e[m]
    OBVIOUS
  <2>1. k \in 1 .. c /\ k - 1 = j /\ j \in 0 .. c
    BY <1>1
  <2>2. DOMAIN h[j] = {s[i] : i \in 1 .. j} /\ \A m \in DOMAIN h[j] : h[j][m] = e[m]
    BY <1>8, <2>1
  <2> HIDE DEF k
  <2>3. E!find_first_of(q[k]) # 0 /\ NameOf(q[k]) = n /\ ValueOf(q[k]) = v /\ n \in V /\ v \in V
    BY <1>6, <2>1
  <2>4. a \in Maps(S) /\ b = E!insert(a, n, v)
    <3>1. b = WithString(a, q[k]) /\ a \in Maps(S)
      BY <1>4, <2>1
    <3> QED
      BY <2>3, <3>1 DEF WithString, NameOf, ValueOf
  <2> HIDE DEF a, b, n, v
  <2>5. b \in WithEntry(S, a, n, v)
    <3>1. n \in Seq(S) /\ v \in Seq(S)
      BY <2>3 DEF V
    <3> QED
      BY <2>4, <3>1, MapInserted
  <2>6. /\ DOMAIN b = DOMAIN a \cup {n}
        /\ \A m \in DOMAIN a : b[m] = a[m]
        /\ n \notin DOMAIN a => b[n] = v
    BY <2>5 DEF WithEntry
  <2>7. DOMAIN b = {s[i] : i \in 1 .. k}
    <3>1. 1 .. k = 1 .. j \cup {k}
      BY <2>1
    <3>2. DOMAIN a = {s[i] : i \in 1 .. j}
      BY <2>2 DEF a
    <3>3. {s[i] : i \in 1 .. k} = {s[i] : i \in 1 .. j} \cup {s[k]}
      BY <3>1
    <3> QED
      BY <2>6, <3>2, <3>3 DEF n
  <2>8. \A m \in DOMAIN b : b[m] = e[m]
    BY <2>2, <2>6 DEF a, v
  <2> QED
    BY <2>7, <2>8 DEF b
<1> HIDE DEF I
<1>9. Nat \subseteq I
  BY <1>7, <1>8, Induction
<1>10. c \in I
  BY <1>1, <1>9
<1>11. DOMAIN h[c] = {s[i] : i \in 1 .. c} /\ \A m \in DOMAIN h[c] : h[c][m] = e[m]
  BY <1>1, <1>10 DEF I
<1>12. DOMAIN h[c] = D
  BY <1>2, <1>6, <1>11
<1>13. h[c] \in Maps(S)
  BY <1>1, <1>4
<1>14. h[c] = e
  <2> DEFINE d == h[c]
  <2>1. PICK G \in SUBSET V : d \in [G -> V]
    BY <1>13 DEF Maps, V
  <2>2. DOMAIN d = D /\ \A m \in D : d[m] = e[m]
    BY <1>11, <1>12
  <2> HIDE DEF d
  <2>3. d = [m \in D |-> d[m]] /\ e = [m \in D |-> e[m]]
    BY <1>5, <2>1, <2>2
  <2>4. d = e
    BY <2>2, <2>3
  <2> QED
    BY <2>4 DEF d
<1> QED
  BY <1>4, <1>14 DEF q

(* from_charpp after to_charpp (environ.hpp) gives the map back exactly when no
   name of it holds '=' and no name or value a null character: the condition is
   necessary as well. *)
THEOREM ArrayWhole ==
  ASSUME NEW S, E!Equals \in S, NEW e \in Maps(S), IsFiniteSet(DOMAIN e)
  PROVE  E!from_charpp(E!to_charpp(e)) = e <=> CleanMap(e)
<1>1. CleanMap(e) => E!from_charpp(E!to_charpp(e)) = e
  BY ArrayRead
<1>2. ASSUME E!from_charpp(E!to_charpp(e)) = e PROVE CleanMap(e)
  <2> DEFINE q == E!to_charpp(e)
  <2>1. q \in Seq(Seq(S)) /\ \A i \in 1 .. Len(q) : NoNul(q[i])
    BY ArrayMade
  <2>2. e = E!from_charpp(q)
    BY <1>2
  <2> HIDE DEF q
  <2> QED
    BY <2>1, <2>2, EnvironmentRead
<1> QED
  BY <1>1, <1>2

----------------------------------------------------------------------------
(* The calls of environments and arguments.                                *)

Letters == {"A", "B", "=", "v", "w", "nul"}

LEMMA EnvTexts ==
  /\ E!Equals \in Letters
  /\ EnvStrings \subseteq Seq(Letters) /\ \A x \in EnvStrings : NoNul(x)
  /\ EnvNames \subseteq Seq(Letters) /\ \A x \in EnvNames : x # <<>> /\ E!strdup(x) # <<>>
  /\ EnvValues \subseteq Seq(Letters)
  /\ IsFiniteSet(EnvNames)
<1>1. E!Equals \in Letters
  BY DEF E!Equals, Letters
<1>2. EnvStrings \subseteq Seq(Letters) /\ \A x \in EnvStrings : NoNul(x)
  <2> SUFFICES ASSUME NEW x \in EnvStrings PROVE x \in Seq(Letters) /\ NoNul(x)
    OBVIOUS
  <2>1. CASE x = <<"A", "=", "v">>
    <3>1. x \in Seq(Letters)
      BY <2>1 DEF Letters
    <3>2. Len(x) = 3 /\ x[1] = "A" /\ x[2] = "=" /\ x[3] = "v"
      BY <2>1
    <3> QED
      BY <3>1, <3>2 DEF NoNul
  <2>2. CASE x = <<"A", "=", "w">>
    <3>1. x \in Seq(Letters)
      BY <2>2 DEF Letters
    <3>2. Len(x) = 3 /\ x[1] = "A" /\ x[2] = "=" /\ x[3] = "w"
      BY <2>2
    <3> QED
      BY <3>1, <3>2 DEF NoNul
  <2>3. CASE x = <<"B", "=", "=">>
    <3>1. x \in Seq(Letters)
      BY <2>3 DEF Letters
    <3>2. Len(x) = 3 /\ x[1] = "B" /\ x[2] = "=" /\ x[3] = "="
      BY <2>3
    <3> QED
      BY <3>1, <3>2 DEF NoNul
  <2>4. CASE x = <<"B", "=">>
    <3>1. x \in Seq(Letters)
      BY <2>4 DEF Letters
    <3>2. Len(x) = 2 /\ x[1] = "B" /\ x[2] = "="
      BY <2>4
    <3> QED
      BY <3>1, <3>2 DEF NoNul
  <2>5. CASE x = <<"A">>
    <3>1. x \in Seq(Letters)
      BY <2>5 DEF Letters
    <3>2. Len(x) = 1 /\ x[1] = "A"
      BY <2>5
    <3> QED
      BY <3>1, <3>2 DEF NoNul
  <2>6. CASE x = <<"=", "v">>
    <3>1. x \in Seq(Letters)
      BY <2>6 DEF Letters
    <3>2. Len(x) = 2 /\ x[1] = "=" /\ x[2] = "v"
      BY <2>6
    <3> QED
      BY <3>1, <3>2 DEF NoNul
  <2> QED
    BY <2>1, <2>2, <2>3, <2>4, <2>5, <2>6 DEF EnvStrings
<1>3. ASSUME NEW x \in EnvNames PROVE x \in Seq(Letters) /\ x # <<>> /\ Len(x) > 0 /\ x[1] # "nul"
  <2>1. CASE x = <<"A">>
    <3>1. x \in Seq(Letters)
      BY <2>1 DEF Letters
    <3>2. Len(x) = 1 /\ x[1] = "A"
      BY <2>1
    <3>3. x # <<>>
      <4>1. \A y : y = <<>> => Len(y) = 0
        OBVIOUS
      <4> QED
        BY <3>2, <4>1
    <3>4. Len(x) > 0
      BY <3>2
    <3>5. x[1] # "nul"
      BY <3>2
    <3> QED
      BY <3>1, <3>3, <3>4, <3>5
  <2>2. CASE x = <<"B">>
    <3>1. x \in Seq(Letters)
      BY <2>2 DEF Letters
    <3>2. Len(x) = 1 /\ x[1] = "B"
      BY <2>2
    <3>3. x # <<>>
      <4>1. \A y : y = <<>> => Len(y) = 0
        OBVIOUS
      <4> QED
        BY <3>2, <4>1
    <3>4. Len(x) > 0
      BY <3>2
    <3>5. x[1] # "nul"
      BY <3>2
    <3> QED
      BY <3>1, <3>3, <3>4, <3>5
  <2>3. CASE x = <<"B", "=">>
    <3>1. x \in Seq(Letters)
      BY <2>3 DEF Letters
    <3>2. Len(x) = 2 /\ x[1] = "B"
      BY <2>3
    <3>3. x # <<>>
      <4>1. \A y : y = <<>> => Len(y) = 0
        OBVIOUS
      <4> QED
        BY <3>2, <4>1
    <3>4. Len(x) > 0
      BY <3>2
    <3>5. x[1] # "nul"
      BY <3>2
    <3> QED
      BY <3>1, <3>3, <3>4, <3>5
  <2>4. CASE x = <<"A", "nul">>
    <3>1. x \in Seq(Letters)
      BY <2>4 DEF Letters
    <3>2. Len(x) = 2 /\ x[1] = "A"
      BY <2>4
    <3>3. x # <<>>
      <4>1. \A y : y = <<>> => Len(y) = 0
        OBVIOUS
      <4> QED
        BY <3>2, <4>1
    <3>4. Len(x) > 0
      BY <3>2
    <3>5. x[1] # "nul"
      BY <3>2
    <3> QED
      BY <3>1, <3>3, <3>4, <3>5
  <2> QED
    BY <2>1, <2>2, <2>3, <2>4 DEF EnvNames
<1>4. ASSUME NEW x \in EnvNames PROVE E!strdup(x) # <<>>
  <2> SUFFICES ASSUME E!strdup(x) = <<>> PROVE FALSE
    OBVIOUS
  <2>1. Len(E!strdup(x)) = 0
    OBVIOUS
  <2>2. Len(E!strdup(x)) < Len(x) => x[Len(E!strdup(x)) + 1] = "nul"
    BY <1>3, Duplicated
  <2> QED
    BY <1>3, <2>1, <2>2
<1>5. EnvValues \subseteq Seq(Letters)
  BY DEF EnvValues, Letters
<1>6. IsFiniteSet(EnvNames)
  <2>1. /\ IsFiniteSet({<<"A">>}) /\ IsFiniteSet({<<"B">>})
        /\ IsFiniteSet({<<"B", "=">>}) /\ IsFiniteSet({<<"A", "nul">>})
    BY FS_Singleton
  <2> DEFINE a == {<<"A">>}
             b == {<<"B">>}
             c == {<<"B", "=">>}
             d == {<<"A", "nul">>}
  <2>2. EnvNames = (a \cup b) \cup (c \cup d)
    BY DEF EnvNames
  <2> HIDE DEF a, b, c, d
  <2>3. IsFiniteSet(a \cup b) /\ IsFiniteSet(c \cup d)
    BY <2>1, FS_Union DEF a, b, c, d
  <2> QED
    BY <2>2, <2>3, FS_Union
<1> QED
  BY <1>1, <1>2, <1>3, <1>4, <1>5, <1>6

(* The environment of the program: what was inserted is found, what was erased is gone. *)
LEMMA ChangesHold ==
  ASSUME Asking, Answered, returned, call.fn \in {"setenv", "unsetenv"}
  PROVE  LET n == E!strdup(call.name)
             old == E!get(call.envp, call.name)
             new == E!get(result.envp, call.name)
         IN  /\ result.threw <=> E!find_first_of(n) # 0
             /\ ~result.threw /\ call.fn = "setenv" =>
                  new.found /\ new.value = IF old.found /\ ~call.over THEN old.value
                                                                  ELSE E!strdup(call.value)
             /\ ~result.threw /\ call.fn = "unsetenv" => E!this_count(result.envp, call.name) = 0
             /\ \A m \in EnvNames : E!strdup(m) # n /\ E!find_first_of(E!strdup(m)) = 0 =>
                  E!get(result.envp, m) = E!get(call.envp, m)
<1> DEFINE name == call.name
           value == call.value
           over == call.over
           n == E!strdup(name)
           q == call.envp
           r == result.envp
           V == Seq(Letters)
<1>1. q \in BoundedSeq(EnvStrings, MaxSteps) /\ name \in EnvNames /\ value \in EnvValues /\ over \in BOOLEAN
  BY DecodeKinds
<1>2. q \in Seq(V)
  <2>1. MaxSteps \in Nat /\ EnvStrings \subseteq V
    BY MaxInputAssumption, EnvTexts
  <2> HIDE DEF q, V
  <2>2. q \in Seq(EnvStrings)
    BY <1>1, <2>1, Bounded
  <2> QED
    BY <2>1, <2>2
<1>3. name \in V /\ value \in V /\ n # <<>> /\ E!Equals \in Letters
  BY <1>1, EnvTexts
<1>4. /\ call.fn = "setenv" => result = E!this_insert(q, name, value, over)
      /\ call.fn = "unsetenv" => result = E!this_erase(q, name)
  BY DecodeEvaluates DEF Answered
<1>5. E!named(n) <=> E!find_first_of(n) = 0
  BY <1>3 DEF E!named
<1>6. \A m \in EnvNames : m \in V /\ (E!find_first_of(E!strdup(m)) = 0 <=> NoEquals(E!strdup(m)))
  BY EnvTexts, NameCut
<1> HIDE DEF name, value, over, q
<1>7. CASE ~E!named(n)
  <2>1. result.threw = TRUE /\ r = q
    BY <1>4, <1>7 DEF E!this_insert, E!this_erase
  <2> HIDE DEF r
  <2> QED
    BY <1>5, <1>7, <2>1 DEF name, q, r
<1>8. CASE E!named(n) /\ call.fn = "setenv"
  <2> DEFINE now == result
             new == now.envp
  <2>1. /\ E!Equals \in Letters /\ q \in Seq(Seq(Letters)) /\ name \in Seq(Letters)
        /\ value \in Seq(Letters) /\ over \in BOOLEAN /\ E!named(E!strdup(name))
        /\ now = E!this_insert(q, name, value, over) /\ new = now.envp
    BY <1>1, <1>2, <1>3, <1>4, <1>8
  <2> HIDE DEF now, new
  <2>2. now.threw = FALSE /\ EntryPut(new, q, name, value, over) /\ Untouched(Letters, new, q, name)
    BY <2>1, SetenvKeeps
  <2>3. \A m \in EnvNames : E!strdup(m) # n /\ E!find_first_of(E!strdup(m)) = 0 =>
          E!get(new, m) = E!get(q, m)
    BY <1>6, <2>2 DEF Untouched
  <2> QED
    BY <1>5, <1>8, <2>2, <2>3 DEF EntryPut, new, now, name, value, over, q
<1>9. CASE E!named(n) /\ call.fn = "unsetenv"
  <2> DEFINE now == result
             new == now.envp
  <2>1. /\ q \in Seq(Seq(Letters)) /\ name \in Seq(Letters) /\ E!named(E!strdup(name))
        /\ now = E!this_erase(q, name) /\ new = now.envp
    BY <1>2, <1>3, <1>4, <1>9
  <2> HIDE DEF now, new
  <2>2. now.threw = FALSE /\ E!this_count(new, name) = 0 /\ Untouched(Letters, new, q, name)
    BY <2>1, UnsetenvErases
  <2>3. \A m \in EnvNames : E!strdup(m) # n /\ E!find_first_of(E!strdup(m)) = 0 =>
          E!get(new, m) = E!get(q, m)
    BY <1>6, <2>2 DEF Untouched
  <2> QED
    BY <1>5, <1>9, <2>2, <2>3 DEF new, now, name, q
<1> QED
  BY <1>7, <1>8, <1>9

LEMMA ArgumentsHold ==
  ASSUME Asking, Answered, returned, call.fn = "arguments"
  PROVE  /\ Len(result) = Len(call.args) + 1
         /\ Tail(result) = call.args <=> \A i \in DOMAIN call.args : E!strdup(call.args[i]) = call.args[i]
<1> DEFINE args == call.args
           l == Len(args)
           one == <<E!strdup(call.prepend)>>
           rest == [i \in DOMAIN args |-> E!strdup(args[i])]
           V == Seq(Letters)
<1>1. args \in BoundedSeq(EnvValues, MaxSteps) /\ call.prepend \in EnvValues
  BY DecodeKinds
<1>2. result = one \o rest
  BY DecodeEvaluates DEF Answered, E!arguments_to_charpp_prepend, E!arguments_to_charpp
<1>3. args \in Seq(V)
  <2>1. MaxSteps \in Nat /\ EnvValues \subseteq V
    BY MaxInputAssumption, EnvTexts
  <2> HIDE DEF args, V
  <2>2. args \in Seq(EnvValues)
    BY <1>1, <2>1, Bounded
  <2> QED
    BY <2>1, <2>2
<1>4. one \in Seq(V) /\ Len(one) = 1
  <2>1. E!strdup(call.prepend) \in V
    BY <1>1, EnvTexts, Duplicated
  <2> HIDE DEF V
  <2> QED
    BY <2>1
<1> HIDE DEF args
<1>5. l \in Nat /\ DOMAIN args = 1 .. l /\ \A i \in 1 .. l : args[i] \in V
  BY <1>3, LenProperties, ElementOfSeq
<1>6. \A i \in 1 .. l : E!strdup(args[i]) \in V
  BY <1>5, Duplicated
<1>7. rest \in Seq(V) /\ Len(rest) = l /\ \A i \in 1 .. l : rest[i] = E!strdup(args[i])
  <2> HIDE DEF V, l
  <2>1. rest \in [1 .. l -> V]
    BY <1>5, <1>6
  <2> QED
    BY <1>5, <2>1
<1> HIDE DEF one, rest, V, l
<1>8. /\ one \o rest \in Seq(V) /\ Len(one \o rest) = Len(one) + Len(rest)
      /\ \A i \in 1 .. Len(one) + Len(rest) : (one \o rest)[i] = IF i <= Len(one) THEN one[i] ELSE rest[i - Len(one)]
  BY <1>4, <1>7, ConcatProperties
<1>9. /\ result \in Seq(V) /\ Len(result) = l + 1
      /\ \A i \in 1 .. l : result[i + 1] = rest[i]
  <2>1. \A i \in 1 .. l : i + 1 \in 1 .. Len(one) + Len(rest) /\ ~(i + 1 <= Len(one)) /\ i + 1 - Len(one) = i
    BY <1>4, <1>5, <1>7
  <2>2. Len(one) + Len(rest) = l + 1
    BY <1>4, <1>5, <1>7
  <2> QED
    BY <1>2, <1>8, <2>1, <2>2
<1>10. /\ Tail(result) \in Seq(V) /\ Len(Tail(result)) = l
       /\ \A i \in 1 .. l : Tail(result)[i] = rest[i]
  <2> DEFINE t == Tail(result)
  <2>1. result # <<>>
    BY <1>5, <1>9, EmptySeq
  <2>2. t \in Seq(V) /\ Len(t) = Len(result) - 1 /\ \A i \in 1 .. Len(t) : t[i] = result[i + 1]
    BY <1>9, <2>1, HeadTailProperties
  <2> HIDE DEF t
  <2> QED
    BY <1>5, <1>9, <2>2 DEF t
<1>11. Tail(result) = args <=> \A i \in 1 .. l : Tail(result)[i] = args[i]
  <2>1. (\A i \in 1 .. l : Tail(result)[i] = args[i]) => Tail(result) = args
    BY <1>3, <1>10, SeqEqual DEF l
  <2> QED
    BY <2>1
<1> QED
  BY <1>5, <1>7, <1>9, <1>10, <1>11 DEF args, l

(* The environment as an object and as the program sees it. *)
LEMMA FromHolds ==
  ASSUME Asking, Answered, returned, call.fn = "from_charpp"
  PROVE  /\ E!from_charpp(E!to_charpp(result.env)) = result.env
         /\ LET n == E!strdup(call.name)
            IN  E!find_first_of(n) = 0 =>
                  /\ result.one.found <=> n \in DOMAIN result.env
                  /\ result.one.found => result.one.value = result.env[n]
         /\ \A i \in DOMAIN call.envp :
              E!name(call.envp[i]) # E!Throws => E!name(call.envp[i]) \in DOMAIN result.env
<1> DEFINE q == call.envp
           name == call.name
           n == E!strdup(name)
           e == result.env
           V == Seq(Letters)
           l == Len(q)
<1>1. q \in BoundedSeq(EnvStrings, MaxSteps) /\ name \in EnvNames
  BY DecodeKinds
<1>2. result = [env |-> E!from_charpp(q), one |-> E!get(q, name)]
  BY DecodeEvaluates DEF Answered
<1>3. e = E!from_charpp(q) /\ result.one = E!get(q, name)
  BY <1>2
<1>4. q \in Seq(V) /\ l \in Nat /\ DOMAIN q = 1 .. l /\ \A i \in 1 .. l : NoNul(q[i])
  <2>1. MaxSteps \in Nat /\ EnvStrings \subseteq V /\ \A x \in EnvStrings : NoNul(x)
    BY MaxInputAssumption, EnvTexts
  <2> HIDE DEF q, V
  <2>2. q \in Seq(EnvStrings)
    BY <1>1, <2>1, Bounded
  <2>3. l \in Nat /\ DOMAIN q = 1 .. l /\ \A i \in 1 .. l : q[i] \in EnvStrings
    BY <2>2, LenProperties, ElementOfSeq
  <2> QED
    BY <2>1, <2>2, <2>3
<1>5. name \in V /\ n # <<>> /\ (E!find_first_of(n) = 0 <=> NoEquals(n))
  BY <1>1, EnvTexts, NameCut
<1> HIDE DEF q, name, e, l
<1>6. /\ e \in Maps(Letters) /\ IsFiniteSet(DOMAIN e)
      /\ \A m \in V : NoEquals(E!strdup(m)) /\ E!strdup(m) # <<>> =>
           E!get(q, m) = Entry(e, E!strdup(m))
      /\ \A i \in 1 .. l : E!find_first_of(q[i]) # 0 => NameOf(q[i]) \in DOMAIN e
      /\ CleanMap(e)
  <2>1. q \in Seq(Seq(Letters)) /\ \A i \in 1 .. Len(q) : NoNul(q[i])
    BY <1>4 DEF l
  <2>2. /\ e \in Maps(Letters) /\ IsFiniteSet(DOMAIN e)
        /\ \A i \in 1 .. Len(q) : E!find_first_of(q[i]) # 0 => NameOf(q[i]) \in DOMAIN e
    BY <1>3, <2>1, EnvironmentRead
  <2>3. CleanMap(e)
    BY <1>3, <2>1, EnvironmentRead
  <2>4. \A m \in Seq(Letters) : NoEquals(E!strdup(m)) /\ E!strdup(m) # <<>> =>
          E!get(q, m) = Entry(e, E!strdup(m))
    BY <1>3, <2>1, EnvironmentRead
  <2> QED
    BY <2>2, <2>3, <2>4 DEF l
<1>7. E!from_charpp(E!to_charpp(e)) = e
  <2>1. E!Equals \in Letters
    BY EnvTexts
  <2> QED
    BY <1>6, <2>1, ArrayRead
<1>8. E!find_first_of(n) = 0 => result.one = Entry(e, n)
  BY <1>3, <1>5, <1>6
<1>9. /\ result.one = Entry(e, n) => (result.one.found <=> n \in DOMAIN e)
      /\ result.one = Entry(e, n) /\ n \in DOMAIN e => result.one.value = e[n]
  BY DEF Entry, Missing
<1>10. ASSUME NEW i \in 1 .. l, E!name(q[i]) # E!Throws PROVE E!name(q[i]) \in DOMAIN e
  <2>1. E!find_first_of(q[i]) # 0 /\ E!name(q[i]) = NameOf(q[i])
    BY <1>10 DEF E!name, NameOf
  <2> QED
    BY <1>6, <2>1
<1> QED
  BY <1>4, <1>7, <1>8, <1>9, <1>10 DEF q, name, e

LEMMA ToHolds ==
  ASSUME Asking, Answered, returned, call.fn = "to_charpp"
  PROVE  LET whole(x) == E!strdup(x) = x
         IN  E!from_charpp(result) = call.env <=>
               \A x \in DOMAIN call.env : E!find_first_of(x) = 0 /\ whole(x) /\ whole(call.env[x])
<1> DEFINE e == call.env
           V == Seq(Letters)
<1>1. e \in UNION {[D -> EnvValues] : D \in SUBSET EnvNames}
  BY DecodeKinds
<1>2. result = E!to_charpp(e)
  BY DecodeEvaluates DEF Answered
<1> HIDE DEF e
<1>3. PICK D \in SUBSET EnvNames : e \in [D -> EnvValues]
  BY <1>1
<1>4. /\ D \subseteq V /\ IsFiniteSet(D) /\ EnvValues \subseteq V /\ E!Equals \in Letters
  <2>1. IsFiniteSet(D)
    BY EnvTexts, FS_Subset
  <2> QED
    BY <2>1, EnvTexts
<1>5. DOMAIN e = D /\ \A x \in D : x \in V /\ e[x] \in V
  BY <1>3, <1>4
<1>6. e \in Maps(Letters)
  <2>1. e \in [D -> V] /\ D \in SUBSET V
    BY <1>3, <1>4
  <2> QED
    BY <2>1 DEF Maps
<1>7. E!from_charpp(E!to_charpp(e)) = e <=> CleanMap(e)
  BY <1>4, <1>5, <1>6, ArrayWhole
<1>8. \A x \in V : (E!strdup(x) = x <=> NoNul(x)) /\ (E!find_first_of(x) = 0 <=> NoEquals(x))
  BY Duplicated, EqualsNone DEF NoNul
<1>9. CleanMap(e) <=> \A x \in DOMAIN e : E!find_first_of(x) = 0 /\ E!strdup(x) = x /\ E!strdup(e[x]) = e[x]
  BY <1>5, <1>8 DEF CleanMap
<1> QED
  BY <1>2, <1>7, <1>9 DEF e

LEMMA EnvironHolds ==
  ASSUME Asking, Answered, returned
  PROVE  EnvironSame
<1>1. Returned("setenv") \/ Returned("unsetenv") =>
       LET n == E!strdup(call.name)
           old == E!get(call.envp, call.name)
           new == E!get(result.envp, call.name)
       IN  /\ result.threw <=> E!find_first_of(n) # 0
           /\ ~result.threw /\ call.fn = "setenv" =>
                new.found /\ new.value = IF old.found /\ ~call.over THEN old.value
                                                                ELSE E!strdup(call.value)
           /\ ~result.threw /\ call.fn = "unsetenv" => E!this_count(result.envp, call.name) = 0
           /\ \A m \in EnvNames : E!strdup(m) # n /\ E!find_first_of(E!strdup(m)) = 0 =>
                E!get(result.envp, m) = E!get(call.envp, m)
  BY ChangesHold DEF Returned
<1>2. Returned("arguments") =>
        /\ Len(result) = Len(call.args) + 1
        /\ Tail(result) = call.args <=> \A i \in DOMAIN call.args : E!strdup(call.args[i]) = call.args[i]
  BY ArgumentsHold DEF Returned
<1>3. Returned("from_charpp") =>
       /\ E!from_charpp(E!to_charpp(result.env)) = result.env
       /\ LET n == E!strdup(call.name)
          IN  E!find_first_of(n) = 0 =>
                /\ result.one.found <=> n \in DOMAIN result.env
                /\ result.one.found => result.one.value = result.env[n]
       /\ \A i \in DOMAIN call.envp :
            E!name(call.envp[i]) # E!Throws => E!name(call.envp[i]) \in DOMAIN result.env
  BY FromHolds DEF Returned
<1>4. Returned("to_charpp") =>
       LET whole(x) == E!strdup(x) = x
       IN  E!from_charpp(result) = call.env <=>
             \A x \in DOMAIN call.env : E!find_first_of(x) = 0 /\ whole(x) /\ whole(call.env[x])
  BY ToHolds DEF Returned
<1> QED
  BY <1>1, <1>2, <1>3, <1>4 DEF EnvironSame

----------------------------------------------------------------------------
(* Numbers: texts of digits and what they denote.                          *)

(* trim: a part of the text, all of it if there is no space in it. *)
LEMMA Trimmed ==
  ASSUME NEW S, NEW x \in Seq(S)
  PROVE  /\ C!trim(x, C!Both) \in Seq(S)
         /\ x # <<>> /\ (\A i \in 1 .. Len(x) : x[i] # " ") => C!trim(x, C!Both) = x
<1> DEFINE n == Len(x)
           N == {i \in 1 .. n : x[i] # " "}
           a == Earliest(N)
           b == IF N # {} THEN Max(N) ELSE 0
<1>1. n \in Nat /\ N \in SUBSET (1 .. n)
  BY Zenon, LenProperties
<1>2. C!trim(x, C!Both) = IF a = 0 THEN <<>> ELSE SubSeq(x, a, b)
  BY DEF C!trim, C!Both, C!SelectInSeq, C!SelectLastInSeq, C!Min, C!Max, Max, Earliest
<1>3. /\ a \in 0 .. n
      /\ a = 0 => N = {}
      /\ a # 0 => a \in N /\ \A i \in 1 .. a - 1 : i \notin N
  <2> HIDE DEF N, n
  <2> QED
    BY <1>1, FirstPlace
<1>4. N # {} => b \in N /\ \A y \in N : y <= b
  <2> HIDE DEF N, n
  <2> QED
    BY <1>1, Largest
<1>7. N = {i \in 1 .. n : x[i] # " "} /\ n = Len(x) /\ (x # <<>> => n > 0)
  BY LenProperties, EmptySeq
<1> HIDE DEF a, b, N, n
<1>5. CASE a = 0
  <2>1. N = {}
    BY <1>3, <1>5
  <2>2. n > 0 => 1 \in 1 .. n
    BY <1>1
  <2>4. <<>> \in Seq(S)
    OBVIOUS
  <2>5. ~(x # <<>> /\ \A i \in 1 .. n : x[i] # " ")
    BY Zenon, <1>7, <2>1, <2>2
  <2> QED
    BY Zenon, <1>2, <1>5, <1>7, <2>4, <2>5
<1>6. CASE a # 0
  <2>1. a \in N /\ b \in N /\ a \in 1 .. n /\ b \in 1 .. n
    BY <1>1, <1>3, <1>4, <1>6
  <2>2. SubSeq(x, a, b) \in Seq(S)
    <3>1. a \in 1 .. n + 1 /\ b \in 0 .. n
      BY <1>1, <2>1
    <3>2. a \in 1 .. Len(x) + 1 /\ b \in 0 .. Len(x)
      BY Zenon, <1>7, <3>1
    <3> QED
      BY <3>2, Part
  <2>3. ASSUME \A i \in 1 .. n : x[i] # " " PROVE SubSeq(x, a, b) = x
    <3>1. N = 1 .. n
      BY Zenon, <1>7, <2>3
    <3>2. a = 1
      <4>1. 1 \in N /\ a >= 1
        BY <1>1, <2>1, <3>1
      <4>2. ~(1 < a)
        <5> SUFFICES ASSUME 1 < a PROVE FALSE
          OBVIOUS
        <5>1. 1 \in 1 .. a - 1
          BY <2>1
        <5> QED
          BY <1>3, <1>6, <4>1, <5>1
      <4> QED
        BY <2>1, <4>1, <4>2
    <3>3. b = n
      BY SMTT(40), <1>1, <1>4, <2>1, <3>1
    <3>4. SubSeq(x, 1, Len(x)) = x
      BY Beginnings
    <3> QED
      BY Zenon, <1>7, <3>2, <3>3, <3>4
  <2> QED
    BY Zenon, <1>2, <1>6, <1>7, <2>2, <2>3
<1> QED
  BY Zenon, <1>5, <1>6

LEMMA DigitTyped ==
  ASSUME NEW c
  PROVE  C!Digit(c) \in -1 .. 15
<1> DEFINE q == C!DigitChars
           N == {i \in 1 .. 16 : q[i] = c}
<1>1. Len(q) = 16
  BY DEF C!DigitChars
<1>2. C!Digit(c) = Earliest(N) - 1
  BY <1>1 DEF C!Digit, C!SelectInSeq, C!Min, Earliest
<1>3. N \in SUBSET (1 .. 16)
  OBVIOUS
<1> HIDE DEF N
<1>4. Earliest(N) \in 0 .. 16
  BY <1>3, FirstPlace
<1> QED
  BY <1>2, <1>4

DigitSet == {C!DigitChars[i] : i \in 1 .. 16}

LEMMA DigitKnown ==
  /\ \A j \in 0 .. 15 : C!DigitChars[j + 1] \in DigitSet /\ C!Digit(C!DigitChars[j + 1]) = j
  /\ \A c \in DigitSet : c \notin {" ", "-", "x"}
<1> DEFINE q == C!DigitChars
<1>1. /\ q[1] = "0" /\ q[2] = "1" /\ q[3] = "2" /\ q[4] = "3"
      /\ q[5] = "4" /\ q[6] = "5" /\ q[7] = "6" /\ q[8] = "7"
      /\ q[9] = "8" /\ q[10] = "9" /\ q[11] = "a" /\ q[12] = "b"
      /\ q[13] = "c" /\ q[14] = "d" /\ q[15] = "e" /\ q[16] = "f" /\ Len(q) = 16
  BY DEF C!DigitChars
<1> HIDE DEF q
<1>2. \A i, k \in 1 .. 16 : q[i] = q[k] => i = k
  BY <1>1, SMT
<1>3. \A i \in 1 .. 16 : q[i] # " " /\ q[i] # "-" /\ q[i] # "x"
  <2> SUFFICES ASSUME NEW i \in 1 .. 16 PROVE q[i] # " " /\ q[i] # "-" /\ q[i] # "x"
    BY Zenon
  <2>1. \A c \in {"0", "1", "2", "3", "4", "5", "6", "7", "8", "9", "a", "b", "c", "d", "e", "f"} :
          c # " " /\ c # "-" /\ c # "x"
    BY Zenon
  <2>2. q[i] \in {"0", "1", "2", "3", "4", "5", "6", "7", "8", "9", "a", "b", "c", "d", "e", "f"}
    BY <1>1, SMT
  <2> QED
    BY ONLY <2>1, <2>2, Zenon
<1>4. ASSUME NEW j \in 0 .. 15 PROVE C!Digit(q[j + 1]) = j /\ q[j + 1] \in DigitSet
  <2> DEFINE d == q[j + 1]
             N == {i \in 1 .. 16 : q[i] = d}
  <2>1. C!Digit(d) = Earliest(N) - 1
    BY <1>1 DEF C!Digit, C!SelectInSeq, C!Min, Earliest, q
  <2>2. j + 1 \in 1 .. 16 /\ N \in SUBSET (1 .. 16) /\ j + 1 \in N /\ \A i \in N : i = j + 1
    BY <1>2
  <2> HIDE DEF N
  <2>3. Earliest(N) \in 0 .. 16 /\ (Earliest(N) = 0 => N = {}) /\ (Earliest(N) # 0 => Earliest(N) \in N)
    BY <2>2, FirstPlace
  <2>4. Earliest(N) = j + 1
    BY <2>2, <2>3
  <2> QED
    BY <2>1, <2>2, <2>4 DEF DigitSet, q
<1> QED
  BY Zenon, <1>3, <1>4 DEF DigitSet, q

(* What digits are worth: from the front, and weighed from the end. *)
Worth(q, b) == C!FoldLeft(LAMBDA n, c : n * b + C!Digit(c), 0, q)
Weighed(q, b) ==
  C!FoldLeft(LAMBDA z, c : [sum |-> z.sum + C!Digit(c) * z.weight, weight |-> z.weight * b],
             [sum |-> 0, weight |-> 1], q)

Worths(S, q, b) ==
  {h \in [0 .. Len(q) -> Int] :
     /\ h[0] = 0
     /\ \A k \in 1 .. Len(q) : h[k] = h[k - 1] * b + C!Digit(q[k])
     /\ Worth(q, b) = h[Len(q)]}

LEMMA WorthFold ==
  ASSUME NEW S, NEW q \in Seq(S), NEW b \in Nat
  PROVE  Worths(S, q, b) # {}
<1> DEFINE D == S
           T == Int
           base == 0
           f == [z \in T \X D |-> z[1] * b + C!Digit(z[2])]
           Body(g) == [s \in SUBSET (DOMAIN q) |->
                         IF s = {} THEN base ELSE g[s \ {C!Max(s)}] * b + C!Digit(q[C!Max(s)])]
           iter == CHOOSE g : g = Body(g)
<1>1. Worth(q, b) = iter[DOMAIN q]
  BY DEF Worth, C!FoldLeft, C!MapThenFoldSet
<1>2. base \in T
  OBVIOUS
<1>3. \A s \in T, e \in D : s * b + C!Digit(e) \in T
  <2> SUFFICES ASSUME NEW s \in Int, NEW e PROVE s * b + C!Digit(e) \in Int
    BY DEF T
  <2>1. C!Digit(e) \in Int
    BY DigitTyped
  <2> QED
    BY <2>1
<1>4. q \in Seq(D)
  OBVIOUS
<1>5. \A s : C!Max(s) = Max(s)
  BY DEF C!Max, Max
<1> HIDE DEF base, D, T
<1>6. f \in [T \X D -> T]
  BY <1>3
<1>6a. \A s \in T, e \in D : f[<<s, e>>] = s * b + C!Digit(e)
  OBVIOUS
<1> HIDE DEF f
<1>7. PICK g : g \in Folding(T, D, base, f, q)
  BY <1>2, <1>4, <1>6, Folds
<1>8. g = Body(g)
  <2>1. g \in [SUBSET (DOMAIN q) -> T] /\ g[{}] = base
    BY <1>7 DEF Folding
  <2>2. \A s \in SUBSET (DOMAIN q) : s # {} => g[s] = g[s \ {Max(s)}] * b + C!Digit(q[Max(s)])
    BY <1>6a, <1>7 DEF Folding
  <2> QED
    BY <1>5, <2>1, <2>2
<1>9. iter = Body(iter)
  BY <1>8
<1> HIDE DEF iter
<1>10. Recursive(T, base, f, q, iter)
  <2>1. iter[{}] = base
    BY <1>9
  <2>2. ASSUME NEW s \in SUBSET (DOMAIN q), s # {}, iter[s \ {Max(s)}] \in T
        PROVE  iter[s] = f[<<iter[s \ {Max(s)}], q[Max(s)]>>]
    <3>1. q[Max(s)] \in D
      BY <1>7, <2>2 DEF Folding
    <3>2. iter[s] = iter[s \ {Max(s)}] * b + C!Digit(q[Max(s)])
      BY <1>5, <1>9, <2>2
    <3> QED
      BY <1>6a, <2>2, <3>1, <3>2
  <2> QED
    BY <2>1, <2>2 DEF Recursive
<1>11. PICK h : h \in Stepping(T, D, base, f, q, iter)
  BY <1>2, <1>4, <1>6, <1>10, FoldSteps
<1>12. h \in Worths(S, q, b)
  <2>1. \A k \in 1 .. Len(q) : h[k] = h[k - 1] * b + C!Digit(q[k])
    BY <1>6a, <1>11 DEF Stepping
  <2>2. h \in [0 .. Len(q) -> T] /\ h[0] = base /\ h[Len(q)] = iter[DOMAIN q]
    BY <1>11 DEF Stepping
  <2> QED
    BY <1>1, <2>1, <2>2 DEF Worths, base, T
<1> QED
  BY <1>12

Weighings(S, q, b) ==
  {h \in [0 .. Len(q) -> [sum : Int, weight : Int]] :
     /\ h[0] = [sum |-> 0, weight |-> 1]
     /\ \A k \in 1 .. Len(q) : h[k] = [sum |-> h[k - 1].sum + C!Digit(q[k]) * h[k - 1].weight,
                                       weight |-> h[k - 1].weight * b]
     /\ Weighed(q, b) = h[Len(q)]}

LEMMA WeighedFold ==
  ASSUME NEW S, NEW q \in Seq(S), NEW b \in Nat
  PROVE  Weighings(S, q, b) # {}
<1> DEFINE D == S
           T == [sum : Int, weight : Int]
           base == [sum |-> 0, weight |-> 1]
           f == [z \in T \X D |-> [sum |-> z[1].sum + C!Digit(z[2]) * z[1].weight, weight |-> z[1].weight * b]]
           Body(g) == [s \in SUBSET (DOMAIN q) |->
                         IF s = {} THEN base
                         ELSE [sum |-> g[s \ {C!Max(s)}].sum
                                       + C!Digit(q[C!Max(s)]) * g[s \ {C!Max(s)}].weight,
                               weight |-> g[s \ {C!Max(s)}].weight * b]]
           iter == CHOOSE g : g = Body(g)
<1>1. Weighed(q, b) = iter[DOMAIN q]
  BY DEF Weighed, C!FoldLeft, C!MapThenFoldSet
<1>2. base \in T
  OBVIOUS
<1>3. \A s \in T, e \in D : [sum |-> s.sum + C!Digit(e) * s.weight, weight |-> s.weight * b] \in T
  <2> SUFFICES ASSUME NEW s \in T, NEW e
               PROVE [sum |-> s.sum + C!Digit(e) * s.weight, weight |-> s.weight * b] \in T
    OBVIOUS
  <2>1. C!Digit(e) \in Int /\ s.sum \in Int /\ s.weight \in Int
    BY SMTT(40), DigitTyped
  <2>2. s.sum + C!Digit(e) * s.weight \in Int /\ s.weight * b \in Int
    BY <2>1
  <2> QED
    BY <2>2
<1>4. q \in Seq(D)
  OBVIOUS
<1>5. \A s : C!Max(s) = Max(s)
  BY DEF C!Max, Max
<1> HIDE DEF base, D, T
<1>6. f \in [T \X D -> T]
  BY <1>3
<1>6a. \A s \in T, e \in D : f[<<s, e>>] = [sum |-> s.sum + C!Digit(e) * s.weight, weight |-> s.weight * b]
  OBVIOUS
<1> HIDE DEF f
<1>7. PICK g : g \in Folding(T, D, base, f, q)
  BY <1>2, <1>4, <1>6, Folds
<1>8. g = Body(g)
  <2>1. g \in [SUBSET (DOMAIN q) -> T] /\ g[{}] = base
    BY <1>7 DEF Folding
  <2>2. \A s \in SUBSET (DOMAIN q) : s # {} =>
           g[s] = [sum |-> g[s \ {Max(s)}].sum + C!Digit(q[Max(s)]) * g[s \ {Max(s)}].weight,
                   weight |-> g[s \ {Max(s)}].weight * b]
    BY Zenon, <1>6a, <1>7 DEF Folding
  <2> QED
    BY <1>5, <2>1, <2>2
<1>9. iter = Body(iter)
  BY Zenon, <1>8
<1> HIDE DEF iter
<1>10. Recursive(T, base, f, q, iter)
  <2>1. iter[{}] = base
    BY <1>9
  <2>2. ASSUME NEW s \in SUBSET (DOMAIN q), s # {}, iter[s \ {Max(s)}] \in T
        PROVE  iter[s] = f[<<iter[s \ {Max(s)}], q[Max(s)]>>]
    <3>1. q[Max(s)] \in D
      BY <1>7, <2>2 DEF Folding
    <3>2. iter[s] = [sum |-> iter[s \ {Max(s)}].sum + C!Digit(q[Max(s)]) * iter[s \ {Max(s)}].weight,
                     weight |-> iter[s \ {Max(s)}].weight * b]
      BY <1>5, <1>9, <2>2
    <3> QED
      BY <1>6a, <2>2, <3>1, <3>2
  <2> QED
    BY <2>1, <2>2 DEF Recursive
<1>11. PICK h : h \in Stepping(T, D, base, f, q, iter)
  BY <1>2, <1>4, <1>6, <1>10, FoldSteps
<1>12. h \in Weighings(S, q, b)
  <2>1. \A k \in 1 .. Len(q) :
           h[k] = [sum |-> h[k - 1].sum + C!Digit(q[k]) * h[k - 1].weight, weight |-> h[k - 1].weight * b]
    BY <1>6a, <1>11 DEF Stepping
  <2>2. h \in [0 .. Len(q) -> T] /\ h[0] = base /\ h[Len(q)] = iter[DOMAIN q]
    BY <1>11 DEF Stepping
  <2> QED
    BY <1>1, <2>1, <2>2 DEF Weighings, base, T
<1> QED
  BY <1>12

LEMMA WorthAppend ==
  ASSUME NEW S, NEW q \in Seq(S), NEW c \in S, NEW b \in Nat
  PROVE  /\ Worth(<<>>, b) = 0 /\ Worth(q, b) \in Int
         /\ Worth(Append(q, c), b) = Worth(q, b) * b + C!Digit(c)
<1> DEFINE r == Append(q, c)
           n == Len(q)
<1>1. /\ n \in Nat /\ Len(r) = n + 1 /\ r \in Seq(S)
      /\ r[n + 1] = c /\ \A i \in 1 .. n : r[i] = q[i]
  BY LenProperties, AppendProperties
<1> HIDE DEF r
<1>2. PICK g : g \in Worths(S, q, b)
  BY WorthFold
<1>3. PICK h : h \in Worths(S, r, b)
  BY <1>1, WorthFold
<1>4. /\ g \in [0 .. n -> Int] /\ g[0] = 0 /\ Worth(q, b) = g[n]
      /\ \A k \in 1 .. n : g[k] = g[k - 1] * b + C!Digit(q[k])
  BY <1>2 DEF Worths
<1>5. /\ h \in [0 .. n + 1 -> Int] /\ h[0] = 0 /\ Worth(r, b) = h[n + 1]
      /\ \A k \in 1 .. n + 1 : h[k] = h[k - 1] * b + C!Digit(r[k])
  BY <1>1, <1>3 DEF Worths
<1> HIDE DEF n
<1> DEFINE I == {k \in Nat : k \in 0 .. n => g[k] = h[k]}
<1>6. 0 \in I
  BY <1>4, <1>5
<1>7. ASSUME NEW j \in Nat, j \in I PROVE j + 1 \in I
  <2> SUFFICES ASSUME j + 1 \in 0 .. n PROVE g[j + 1] = h[j + 1]
    OBVIOUS
  <2> DEFINE k == j + 1
  <2>1. k \in 1 .. n /\ k \in 1 .. n + 1 /\ k - 1 = j /\ g[j] = h[j]
    BY <1>1, <1>7
  <2> HIDE DEF k
  <2>2. g[k] = g[j] * b + C!Digit(q[k]) /\ h[k] = h[j] * b + C!Digit(r[k]) /\ r[k] = q[k]
    BY <1>1, <1>4, <1>5, <2>1
  <2>3. g[k] = h[k]
    BY <2>1, <2>2
  <2> QED
    BY <2>3 DEF k
<1> HIDE DEF I
<1>8. Nat \subseteq I
  BY <1>6, <1>7, Induction
<1>9. n \in I
  BY <1>1, <1>8
<1>10. g[n] = h[n]
  BY <1>1, <1>9 DEF I
<1>11. h[n + 1] = g[n] * b + C!Digit(c) /\ g[n] \in Int
  <2>1. n + 1 \in 1 .. n + 1 /\ (n + 1) - 1 = n /\ n \in 0 .. n
    BY <1>1
  <2>2. h[n + 1] = h[n] * b + C!Digit(r[n + 1])
    BY <1>5, <2>1
  <2> QED
    BY <1>1, <1>4, <1>10, <2>1, <2>2
<1>12. Worth(<<>>, b) = 0
  <2> DEFINE empty == <<>>
  <2>1. empty \in Seq(S) /\ Len(empty) = 0
    OBVIOUS
  <2> HIDE DEF empty
  <2>2. PICK f : f \in Worths(S, empty, b)
    BY <2>1, WorthFold
  <2>3. Worth(empty, b) = 0
    BY <2>1, <2>2 DEF Worths
  <2> QED
    BY <2>3 DEF empty
<1> QED
  BY <1>4, <1>5, <1>11, <1>12 DEF r

LEMMA WorthNatural ==
  ASSUME NEW S, NEW q \in Seq(S), NEW b \in Nat, \A i \in 1 .. Len(q) : C!Digit(q[i]) \in Nat
  PROVE  Worth(q, b) \in Nat
<1> DEFINE n == Len(q)
<1>1. n \in Nat
  BY LenProperties
<1>2. PICK g : g \in Worths(S, q, b)
  BY WorthFold
<1>3. /\ g \in [0 .. n -> Int] /\ g[0] = 0 /\ Worth(q, b) = g[n]
      /\ \A k \in 1 .. n : g[k] = g[k - 1] * b + C!Digit(q[k])
  BY <1>2 DEF Worths
<1>4. \A i \in 1 .. n : C!Digit(q[i]) \in Nat
  OBVIOUS
<1> HIDE DEF n
<1> DEFINE I == {k \in Nat : k \in 0 .. n => g[k] \in Nat}
<1>5. 0 \in I
  BY <1>3
<1>6. ASSUME NEW j \in Nat, j \in I PROVE j + 1 \in I
  <2> SUFFICES ASSUME j + 1 \in 0 .. n PROVE g[j + 1] \in Nat
    OBVIOUS
  <2> DEFINE k == j + 1
  <2>1. k \in 1 .. n /\ k - 1 = j /\ g[j] \in Nat
    BY <1>1, <1>6
  <2> HIDE DEF k
  <2>2. g[k] = g[j] * b + C!Digit(q[k]) /\ C!Digit(q[k]) \in Nat
    BY <1>3, <1>4, <2>1
  <2>3. g[j] * b \in Nat
    BY <2>1
  <2>4. g[k] \in Nat
    BY <2>2, <2>3
  <2> QED
    BY <2>4 DEF k
<1> HIDE DEF I
<1>7. Nat \subseteq I
  BY <1>5, <1>6, Induction
<1>8. n \in I
  BY <1>1, <1>7
<1> QED
  BY <1>1, <1>3, <1>8 DEF I

LEMMA Distributes ==
  ASSUME NEW s \in Int, NEW h \in Int, NEW d \in Int, NEW w \in Int, NEW b \in Int
  PROVE  s + (h * b + d) * w = (s + d * w) + h * (w * b)
OBVIOUS

(* Weighing the digits from the last one on gives the same. *)
LEMMA WeighedIsWorth ==
  ASSUME NEW S, NEW q \in Seq(S), NEW b \in Nat
  PROVE  Weighed(C!Reverse(q), b).sum = Worth(q, b)
<1> DEFINE n == Len(q)
           r == C!Reverse(q)
<1>1. n \in Nat /\ \A i \in 1 .. n : q[i] \in S
  BY LenProperties, ElementOfSeq
<1>2. r = [i \in 1 .. n |-> q[(n - i) + 1]]
  BY DEF C!Reverse
<1> HIDE DEF n, r
<1>3. r \in Seq(S) /\ Len(r) = n /\ \A i \in 1 .. n : r[i] = q[(n - i) + 1]
  <2>1. \A i \in 1 .. n : q[(n - i) + 1] \in S
    BY <1>1
  <2>2. r \in [1 .. n -> S]
    BY <1>2, <2>1
  <2> QED
    BY <1>1, <1>2, <2>2
<1>4. PICK h : h \in Worths(S, q, b)
  BY WorthFold
<1>5. PICK g : g \in Weighings(S, r, b)
  BY <1>3, WeighedFold
<1>6. /\ h \in [0 .. n -> Int] /\ h[0] = 0 /\ Worth(q, b) = h[n]
      /\ \A k \in 1 .. n : h[k] = h[k - 1] * b + C!Digit(q[k])
  BY <1>4 DEF Worths, n
<1>7. /\ g \in [0 .. n -> [sum : Int, weight : Int]] /\ g[0] = [sum |-> 0, weight |-> 1]
      /\ Weighed(r, b) = g[n]
      /\ \A k \in 1 .. n : g[k] = [sum |-> g[k - 1].sum + C!Digit(r[k]) * g[k - 1].weight,
                                   weight |-> g[k - 1].weight * b]
  BY <1>3, <1>5 DEF Weighings
<1> DEFINE I == {k \in Nat : k \in 0 .. n => g[k].sum + h[n - k] * g[k].weight = h[n]}
<1>8. 0 \in I
  <2>1. h[n] \in Int /\ n - 0 = n
    BY <1>1, <1>6
  <2>2. g[0].sum = 0 /\ g[0].weight = 1
    BY <1>7
  <2> QED
    BY <2>1, <2>2
<1>9. ASSUME NEW j \in Nat, j \in I PROVE j + 1 \in I
  <2> DEFINE k == j + 1
             m == n - j
             s == g[j].sum
             w == g[j].weight
             d == C!Digit(q[m])
             p == h[m - 1]
  <2> SUFFICES ASSUME k \in 0 .. n PROVE g[k].sum + h[n - k] * g[k].weight = h[n]
    OBVIOUS
  <2>1. /\ k \in 1 .. n /\ k - 1 = j /\ j \in 0 .. n /\ m \in 1 .. n /\ m - 1 \in 0 .. n
        /\ n - k = m - 1 /\ (n - k) + 1 = m
    BY <1>1
  <2>2. s + h[m] * w = h[n]
    BY <1>9, <2>1
  <2> HIDE DEF k, m
  <2>3. h[m] = p * b + d
    BY <1>6, <2>1
  <2>4. g[k].sum = s + d * w /\ g[k].weight = w * b
    <3>1. r[k] = q[m]
      BY <1>3, <2>1
    <3>2. g[k] = [sum |-> g[j].sum + C!Digit(r[k]) * g[j].weight, weight |-> g[j].weight * b]
      BY <1>7, <2>1
    <3> QED
      BY <3>1, <3>2
  <2>5. s \in Int /\ w \in Int /\ d \in Int /\ p \in Int
    <3>1. g[j] \in [sum : Int, weight : Int]
      BY <1>7, <2>1
    <3>2. d \in Int
      BY SMTT(40), DigitTyped
    <3>3. p \in Int
      BY <1>6, <2>1
    <3> QED
      BY <3>1, <3>2, <3>3
  <2> HIDE DEF s, w, d, p
  <2>6. s + (p * b + d) * w = (s + d * w) + p * (w * b)
    BY <2>5, Distributes
  <2>7. h[n - k] = p
    BY <2>1 DEF p
  <2> QED
    BY <2>2, <2>3, <2>4, <2>6, <2>7
<1> HIDE DEF I
<1>10. Nat \subseteq I
  BY <1>8, <1>9, Induction
<1>11. n \in I
  BY <1>1, <1>10
<1>12. g[n].sum + h[0] * g[n].weight = h[n] /\ g[n].sum \in Int /\ g[n].weight \in Int
  <2>1. n \in 0 .. n /\ n - n = 0
    BY <1>1
  <2>2. g[n] \in [sum : Int, weight : Int]
    BY <1>7, <2>1
  <2> QED
    BY <1>11, <2>1, <2>2 DEF I
<1>13. g[n].sum = h[n]
  BY <1>6, <1>12
<1> QED
  BY <1>6, <1>7, <1>13 DEF r

(* Digits without a space, a minus or a prefix, written in hexadecimal.    *)
(* The numbers up to n are written by one function and only one.           *)
Hex(f, k) == IF k < 16 THEN <<C!DigitChars[k + 1]>>
             ELSE Append(f[k \div 16], C!DigitChars[(k % 16) + 1])
Writing(n) == {f \in [0 .. n -> Seq(DigitSet)] : \A k \in 0 .. n : f[k] = Hex(f, k)}

LEMMA WritingExists ==
  \A n \in Nat : Writing(n) # {}
<1> DEFINE I == {n \in Nat : Writing(n) # {}}
           V == Seq(DigitSet)
<1>1. \A k \in 0 .. 15 : C!DigitChars[k + 1] \in DigitSet
  BY Zenon, DigitKnown
<1>2. 0 \in I
  <2> DEFINE f == [k \in 0 .. 0 |-> <<C!DigitChars[k + 1]>>]
  <2>1. \A k \in 0 .. 0 : k = 0 /\ k \in 0 .. 15
    OBVIOUS
  <2>2. f \in [0 .. 0 -> V]
    BY <1>1, <2>1
  <2>3. \A k \in 0 .. 0 : f[k] = Hex(f, k)
    BY <2>1 DEF Hex
  <2> HIDE DEF f
  <2>4. f \in Writing(0)
    BY <2>2, <2>3 DEF Writing
  <2> QED
    BY <2>4
<1>3. ASSUME NEW n \in Nat, n \in I PROVE n + 1 \in I
  <2> DEFINE m == n + 1
  <2>1. PICK f : f \in Writing(n)
    BY <1>3
  <2>2. f \in [0 .. n -> V] /\ \A k \in 0 .. n : f[k] = Hex(f, k)
    BY <2>1 DEF Writing
  <2> DEFINE g == [k \in 0 .. m |-> IF k \in 0 .. n THEN f[k] ELSE Hex(f, m)]
  <2>3. \A k \in Nat : k \div 16 \in 0 .. k /\ k % 16 \in 0 .. 15 /\ (k >= 16 => k \div 16 < k)
    OBVIOUS
  <2>4. \A k \in 0 .. m : k \in 0 .. n \/ k = m
    OBVIOUS
  <2>5. \A k \in 0 .. m : k >= 16 => k \div 16 \in 0 .. n
    BY <2>3
  <2>6. m \in 0 .. m /\ m \notin 0 .. n /\ m \in Nat /\ m % 16 \in 0 .. 15
    BY <2>3
  <2> HIDE DEF m, V
  <2>7. Hex(f, m) \in V
    <3>1. CASE m < 16
      <4>1. m \in 0 .. 15
        BY <2>6, <3>1
      <4>2. C!DigitChars[m + 1] \in DigitSet
        BY <1>1, <4>1
      <4>3. <<C!DigitChars[m + 1]>> \in Seq(DigitSet)
        BY <4>2
      <4> QED
        BY <3>1, <4>3 DEF Hex, V
    <3>2. CASE ~(m < 16)
      <4>1. f[m \div 16] \in V /\ C!DigitChars[(m % 16) + 1] \in DigitSet
        <5>1. m >= 16 /\ m \div 16 \in 0 .. n
          BY <2>5, <2>6, <3>2
        <5>2. f[m \div 16] \in V
          BY <2>2, <5>1
        <5> DEFINE d == m % 16
        <5>3. d \in 0 .. 15
          BY <2>6
        <5> HIDE DEF d
        <5>4. C!DigitChars[d + 1] \in DigitSet
          BY <1>1, <5>3
        <5> QED
          BY <5>2, <5>4 DEF d
      <4> DEFINE p == f[m \div 16]
                 c == C!DigitChars[(m % 16) + 1]
      <4> HIDE DEF p, c
      <4>2. Append(p, c) \in Seq(DigitSet)
        BY <4>1 DEF p, c, V
      <4> QED
        BY <3>2, <4>2 DEF Hex, p, c, V
    <3> QED
      BY <3>1, <3>2
  <2>8. g \in [0 .. m -> V]
    BY <2>2, <2>4, <2>7
  <2>9. \A k \in 0 .. n : g[k] = f[k]
    <3>1. \A k \in 0 .. n : k \in 0 .. m
      BY DEF m
    <3> QED
      BY <3>1
  <2>10. ASSUME NEW k \in 0 .. m PROVE g[k] = Hex(g, k)
    <3>1. g[k] = Hex(f, k)
      BY <2>2, <2>4, <2>6
    <3> HIDE DEF g
    <3>2. k >= 16 => g[k \div 16] = f[k \div 16]
      BY <2>5, <2>9
    <3>3. k < 16 \/ k >= 16
      OBVIOUS
    <3> QED
      BY <3>1, <3>2, <3>3 DEF Hex
  <2> HIDE DEF g
  <2>11. g \in Writing(m)
    BY <2>8, <2>10 DEF Writing, V
  <2> QED
    BY <2>6, <2>11 DEF m
<1> HIDE DEF I
<1>4. Nat \subseteq I
  BY <1>2, <1>3, Induction
<1> QED
  BY <1>4 DEF I

LEMMA WritingUnique ==
  ASSUME NEW n \in Nat, NEW m \in Nat, NEW f \in Writing(n), NEW g \in Writing(m), NEW k \in Nat, k <= n, k <= m
  PROVE  f[k] = g[k]
<1> DEFINE I == {i \in Nat : \A j \in 0 .. i : j <= n /\ j <= m => f[j] = g[j]}
<1>1. (\A j \in 0 .. n : f[j] = Hex(f, j)) /\ (\A j \in 0 .. m : g[j] = Hex(g, j))
  BY DEF Writing
<1>2. 0 \in I
  <2>1. \A j \in 0 .. 0 : j = 0
    OBVIOUS
  <2>2. Hex(f, 0) = Hex(g, 0)
    BY DEF Hex
  <2>3. f[0] = g[0]
    BY <1>1, <2>2
  <2> QED
    BY <2>1, <2>3
<1>3. ASSUME NEW i \in Nat, i \in I PROVE i + 1 \in I
  <2> SUFFICES ASSUME NEW j \in 0 .. i + 1, j <= n, j <= m PROVE f[j] = g[j]
    OBVIOUS
  <2>1. CASE j \in 0 .. i
    BY <1>3, <2>1
  <2>2. CASE j = i + 1
    <3>1. f[j] = Hex(f, j) /\ g[j] = Hex(g, j)
      BY <1>1
    <3>2. j >= 16 => j \div 16 \in 0 .. i /\ j \div 16 <= n /\ j \div 16 <= m
      BY <2>2
    <3>3. j >= 16 => f[j \div 16] = g[j \div 16]
      BY <1>3, <3>2
    <3>4. j < 16 \/ j >= 16
      OBVIOUS
    <3> QED
      BY <3>1, <3>3, <3>4 DEF Hex
  <2> QED
    BY <2>1, <2>2
<1> HIDE DEF I
<1>4. Nat \subseteq I
  BY <1>2, <1>3, Induction
<1> QED
  BY <1>4 DEF I

OneWriting(k) == CHOOSE f : f \in Writing(k)

LEMMA WrittenIs ==
  ASSUME NEW k \in Nat
  PROVE  C!Written(k, 16) = IF k < 16 THEN <<C!DigitChars[k + 1]>>
                            ELSE Append(C!Written(k \div 16, 16), C!DigitChars[(k % 16) + 1])
<1> DEFINE F1 == [n \in Nat |-> OneWriting(n)[n]]
           Body(f) == [n \in Nat |-> IF n < 16 THEN <<C!DigitChars[n + 1]>>
                                     ELSE Append(f[n \div 16], C!DigitChars[(n % 16) + 1])]
           digits == CHOOSE f : f = Body(f)
<1>1. \A n : C!Written(n, 16) = digits[n]
  BY DEF C!Written
<1>2. \A n \in Nat : OneWriting(n) \in Writing(n)
  BY WritingExists DEF OneWriting
<1>3. ASSUME NEW n \in Nat PROVE F1[n] = Hex(F1, n)
  <2> DEFINE f == OneWriting(n)
             m == n \div 16
  <2>1. f \in Writing(n) /\ F1[n] = f[n]
    BY <1>2
  <2> HIDE DEF f
  <2>2. f[n] = Hex(f, n)
    BY <2>1 DEF Writing
  <2>3. CASE n < 16
    BY <2>1, <2>2, <2>3 DEF Hex
  <2>4. CASE n >= 16
    <3>1. m \in Nat /\ m <= n
      BY <2>4
    <3> HIDE DEF m
    <3>2. OneWriting(m) \in Writing(m) /\ F1[m] = OneWriting(m)[m]
      BY <1>2, <3>1
    <3>3. m <= m
      BY <3>1
    <3>4. f[m] = OneWriting(m)[m]
      BY <2>1, <3>1, <3>2, <3>3, WritingUnique
    <3>5. F1[n \div 16] = f[n \div 16]
      BY <3>2, <3>4 DEF m
    <3> HIDE DEF F1
    <3>6. Hex(F1, n) = Hex(f, n)
      BY <3>5 DEF Hex
    <3> QED
      BY <2>1, <2>2, <3>6
  <2> QED
    BY <2>3, <2>4
<1>4. F1 = Body(F1)
  <2>1. Body(F1) = [n \in Nat |-> Hex(F1, n)]
    BY DEF Hex
  <2>2. F1 = [n \in Nat |-> F1[n]]
    BY SMTT(40)
  <2> HIDE DEF F1, Body
  <2> QED
    BY <1>3, <2>1, <2>2
<1> HIDE DEF F1
<1>5. digits = Body(digits)
  BY <1>4
<1> HIDE DEF digits
<1>6. digits[k] = IF k < 16 THEN <<C!DigitChars[k + 1]>>
                  ELSE Append(digits[k \div 16], C!DigitChars[(k % 16) + 1])
  BY <1>5
<1> QED
  BY <1>1, <1>6

(* What is written in hexadecimal is digits, one at least, worth the number. *)
LEMMA WrittenRead ==
  ASSUME NEW k \in Nat
  PROVE  /\ C!Written(k, 16) \in Seq(DigitSet) /\ C!Written(k, 16) # <<>>
         /\ Worth(C!Written(k, 16), 16) = k
<1> DEFINE W(i) == C!Written(i, 16)
           P(i) == W(i) \in Seq(DigitSet) /\ Len(W(i)) > 0 /\ Worth(W(i), 16) = i
           I == {i \in Nat : \A j \in 0 .. i : P(j)}
<1>1. ASSUME NEW j \in Nat, j < 16 PROVE P(j)
  <2> DEFINE c == C!DigitChars[j + 1]
             empty == <<>>
  <2>1. j \in 0 .. 15
    BY <1>1
  <2>2. c \in DigitSet /\ C!Digit(c) = j
    BY Zenon, <2>1, DigitKnown
  <2>3. W(j) = <<c>>
    BY <1>1, WrittenIs
  <2> HIDE DEF c
  <2>4. empty \in Seq(DigitSet) /\ Append(empty, c) = <<c>>
    OBVIOUS
  <2>5. Worth(empty, 16) = 0
    BY <2>2, <2>4, WorthAppend
  <2> HIDE DEF empty
  <2>6. Worth(Append(empty, c), 16) = Worth(empty, 16) * 16 + C!Digit(c)
    BY <2>2, <2>4, WorthAppend
  <2>7. Worth(<<c>>, 16) = j
    BY <2>2, <2>4, <2>5, <2>6
  <2>8. <<c>> \in Seq(DigitSet) /\ Len(<<c>>) = 1
    BY <2>2
  <2> DEFINE one == <<c>>
  <2> HIDE DEF one
  <2>9. one \in Seq(DigitSet) /\ Len(one) = 1 /\ Worth(one, 16) = j /\ W(j) = one
    BY <2>3, <2>7, <2>8 DEF one
  <2> HIDE DEF W
  <2> QED
    BY SMTT(40), <2>9
<1>2. ASSUME NEW j \in Nat, j >= 16, P(j \div 16) PROVE P(j)
  <2> DEFINE d == j % 16
             m == j \div 16
             c == C!DigitChars[d + 1]
             q == W(m)
  <2>1. d \in 0 .. 15 /\ m \in Nat /\ j = m * 16 + d
    BY <1>2
  <2> HIDE DEF d
  <2>2. c \in DigitSet /\ C!Digit(c) = d
    BY Zenon, <2>1, DigitKnown
  <2>3. W(j) = Append(q, c)
    <3>1. ~(j < 16)
      BY <1>2
    <3>2. C!Written(j, 16) = IF j < 16 THEN <<C!DigitChars[j + 1]>>
                             ELSE Append(C!Written(j \div 16, 16), C!DigitChars[(j % 16) + 1])
      BY WrittenIs
    <3>3. C!Written(j, 16) = Append(C!Written(j \div 16, 16), C!DigitChars[(j % 16) + 1])
      BY ONLY <3>1, <3>2, Zenon
    <3> QED
      BY <3>3 DEF d
  <2>4. q \in Seq(DigitSet) /\ Worth(q, 16) = m
    BY <1>2
  <2> HIDE DEF c, q, m
  <2>5. Worth(Append(q, c), 16) = Worth(q, 16) * 16 + C!Digit(c)
    BY <2>2, <2>4, WorthAppend
  <2>6. Append(q, c) \in Seq(DigitSet) /\ Len(Append(q, c)) = Len(q) + 1 /\ Len(q) \in Nat
    BY <2>2, <2>4, AppendProperties, LenProperties
  <2>7. Worth(Append(q, c), 16) = j /\ Len(Append(q, c)) > 0
    BY <2>1, <2>2, <2>4, <2>5, <2>6
  <2> QED
    BY <2>3, <2>6, <2>7
<1> HIDE DEF W
<1>3. 0 \in I
  <2>1. \A j \in 0 .. 0 : j \in Nat /\ j < 16
    OBVIOUS
  <2> HIDE DEF P
  <2> QED
    BY <1>1, <2>1
<1>4. ASSUME NEW i \in Nat, i \in I PROVE i + 1 \in I
  <2> HIDE DEF P
  <2> SUFFICES ASSUME NEW j \in 0 .. i + 1 PROVE P(j)
    OBVIOUS
  <2>1. CASE j \in 0 .. i
    BY <1>4, <2>1
  <2>2. CASE j < 16
    BY <1>1, <2>2
  <2>3. CASE j = i + 1 /\ j >= 16
    <3>1. j \div 16 \in 0 .. i
      BY <2>3
    <3>2. P(j \div 16)
      BY <1>4, <3>1
    <3> QED
      BY <1>2, <2>3, <3>2
  <2> QED
    BY <2>1, <2>2, <2>3
<1> HIDE DEF I
<1>5. Nat \subseteq I
  BY <1>3, <1>4, Induction
<1>6. P(k)
  <2>1. k \in I /\ k \in 0 .. k
    BY <1>5
  <2> HIDE DEF P
  <2> QED
    BY <2>1 DEF I
<1>7. W(k) # <<>>
  <2>1. \A y : y = <<>> => Len(y) = 0
    OBVIOUS
  <2> QED
    BY <1>6, <2>1
<1> QED
  BY <1>6, <1>7 DEF W

LEMMA Modulo ==
  ASSUME NEW v \in Nat \ {0}, NEW x \in Int
  PROVE  /\ x % v \in 0 .. v - 1
         /\ x \in 0 .. v - 1 => x % v = x /\ (x + v) % v = x /\ (x - v) % v = x
<1>1. x % v \in 0 .. v - 1
  OBVIOUS
<1>2. x \in 0 .. v - 1 => x % v = x
  OBVIOUS
<1>3. x \in 0 .. v - 1 => (x + v) % v = x
  OBVIOUS
<1>4. x - v \in Int /\ (x \in 0 .. v - 1 => (x - v) % v = x)
  OBVIOUS
<1> QED
  BY <1>1, <1>2, <1>3, <1>4

(* The parts of a number: its sign, its prefix, its digits. *)
Minus(s) == s # <<>> /\ s[1] = "-"
Bare(s) == IF Minus(s) THEN Tail(s) ELSE s
Prefixed(s, base) == Len(Bare(s)) > 1 /\ Bare(s)[1] = "0" /\ Bare(s)[2] = "x" /\ base \in {0, 16}
Radix(s, base) ==
  IF Prefixed(s, base) THEN 16
  ELSE IF base = 0 THEN IF Bare(s) # <<>> /\ Bare(s)[1] = "0" THEN 8 ELSE 10 ELSE base
DigitsOf(s, base) == IF Prefixed(s, base) THEN SubSeq(Bare(s), 3, Len(Bare(s))) ELSE Bare(s)
Size(s, base) == Worth(DigitsOf(s, base), Radix(s, base))
Most(s, signed, max) ==
  IF signed THEN IF Minus(s) THEN max + 1 ELSE max ELSE C!Values(max) - 1
Fitting(s, base, signed, max) ==
  /\ DigitsOf(s, base) # <<>>
  /\ \A i \in DOMAIN DigitsOf(s, base) : C!Digit(DigitsOf(s, base)[i]) \in 0 .. Radix(s, base) - 1
  /\ ~(Size(s, base) > Most(s, signed, max))
Meant(s, base, signed, max) ==
  IF ~Minus(s) THEN Size(s, base)
  ELSE IF signed THEN -Size(s, base) ELSE (C!Values(max) - Size(s, base)) % C!Values(max)

LEMMA ExtractedIs ==
  ASSUME NEW s, NEW base, NEW signed \in BOOLEAN, NEW max
  PROVE  C!Extracted(s, base, signed, max) =
           IF Fitting(s, base, signed, max) THEN C!Number(Meant(s, base, signed, max)) ELSE C!Failed
<1> DEFINE minus == s # <<>> /\ s[1] = "-"
           t == IF minus THEN Tail(s) ELSE s
           hex == Len(t) > 1 /\ t[1] = "0" /\ t[2] = "x" /\ base \in {0, 16}
           radix == CASE hex -> 16
                      [] ~hex /\ base = 0 -> IF t # <<>> /\ t[1] = "0" THEN 8 ELSE 10
                      [] OTHER -> base
           digits == IF hex THEN SubSeq(t, 3, Len(t)) ELSE t
           size == C!FoldLeft(LAMBDA n, c : n * radix + C!Digit(c), 0, digits)
           most == CASE signed /\ minus -> max + 1 [] signed /\ ~minus -> max
                     [] ~signed -> C!Values(max) - 1
           value == IF ~minus THEN size ELSE IF signed THEN -size ELSE (C!Values(max) - size) % C!Values(max)
<1>1. C!Extracted(s, base, signed, max) =
        IF digits = <<>> \/ size > most \/ \E i \in DOMAIN digits : C!Digit(digits[i]) \notin 0 .. radix - 1
        THEN C!Failed ELSE C!Number(value)
  BY Zenon DEF C!Extracted
<1>2. minus = Minus(s)
  BY DEF Minus
<1>3. t = Bare(s)
  BY DEF Bare, Minus
<1> HIDE DEF minus, t
<1>4. hex = Prefixed(s, base)
  BY <1>3 DEF Prefixed
<1> HIDE DEF hex
<1>5. radix = Radix(s, base)
  <2>1. CASE hex
    BY <1>4, <2>1 DEF Radix
  <2>2. CASE ~hex /\ base = 0
    BY <1>3, <1>4, <2>2 DEF Radix
  <2>3. CASE ~hex /\ base # 0
    BY <1>4, <2>3 DEF Radix
  <2> QED
    BY <2>1, <2>2, <2>3
<1>6. digits = DigitsOf(s, base)
  BY <1>3, <1>4 DEF DigitsOf
<1>7. most = Most(s, signed, max)
  <2>1. CASE signed /\ minus
    BY <1>2, <2>1 DEF Most
  <2>2. CASE signed /\ ~minus
    BY <1>2, <2>2 DEF Most
  <2>3. CASE ~signed
    BY <2>3 DEF Most
  <2> QED
    BY <2>1, <2>2, <2>3
<1> HIDE DEF radix, digits, most
<1>8. size = Worth(digits, radix)
  BY Zenon DEF Worth
<1>9. size = Size(s, base)
  BY Zenon, <1>5, <1>6, <1>8 DEF Size
<1> HIDE DEF size
<1>10. value = Meant(s, base, signed, max)
  BY <1>2, <1>9 DEF Meant
<1> HIDE DEF value
<1>11. (digits = <<>> \/ size > most \/ \E i \in DOMAIN digits : C!Digit(digits[i]) \notin 0 .. radix - 1)
         <=> ~Fitting(s, base, signed, max)
  BY <1>5, <1>6, <1>7, <1>9 DEF Fitting
<1> QED
  BY <1>1, <1>10, <1>11

(* The digits of a number are part of it; those of one that fits are worth a natural number. *)
LEMMA SizeTyped ==
  ASSUME NEW S, NEW s \in Seq(S), NEW base \in {0, 8, 10, 16}
  PROVE  /\ DigitsOf(s, base) \in Seq(S) /\ Radix(s, base) \in Nat
         /\ DigitsOf(s, base) # <<>> => s # <<>>
         /\ (\A i \in DOMAIN DigitsOf(s, base) : C!Digit(DigitsOf(s, base)[i]) \in 0 .. Radix(s, base) - 1)
              => Size(s, base) \in Nat
<1> DEFINE t == Bare(s)
           q == DigitsOf(s, base)
           r == Radix(s, base)
<1>1. t \in Seq(S) /\ (s = <<>> => t = <<>>)
  <2>1. CASE Minus(s)
    <3>1. s # <<>> /\ t = Tail(s)
      BY <2>1 DEF Minus, Bare
    <3>2. Tail(s) \in Seq(S)
      BY <3>1, HeadTailProperties
    <3> QED
      BY <3>1, <3>2
  <2>2. CASE ~Minus(s)
    BY <2>2 DEF Bare
  <2> QED
    BY <2>1, <2>2
<1>2. r \in Nat
  BY DEF Radix
<1>3. q = IF Prefixed(s, base) THEN SubSeq(t, 3, Len(t)) ELSE t
  BY DEF DigitsOf
<1>4. Prefixed(s, base) => Len(t) > 1
  BY DEF Prefixed
<1> HIDE DEF t, q, r
<1>5. q \in Seq(S) /\ (s = <<>> => q = <<>>)
  <2>1. CASE Prefixed(s, base)
    <3> DEFINE n == Len(t)
    <3>1. n \in Nat /\ n > 1
      BY <1>1, <1>4, <2>1, LenProperties
    <3>2. s # <<>>
      <4>1. \A y : y = <<>> => Len(y) = 0
        OBVIOUS
      <4> QED
        BY <1>1, <3>1, <4>1
    <3>3. SubSeq(t, 3, n) \in Seq(S)
      <4>1. 3 \in 1 .. n + 1 /\ n \in 0 .. n
        BY <3>1
      <4> QED
        BY <1>1, <4>1, Part
    <3> QED
      BY <1>3, <2>1, <3>2, <3>3
  <2>2. CASE ~Prefixed(s, base)
    BY <1>1, <1>3, <2>2
  <2> QED
    BY <2>1, <2>2
<1>6. ASSUME \A i \in DOMAIN q : C!Digit(q[i]) \in 0 .. r - 1 PROVE Worth(q, r) \in Nat
  <2>1. \A i \in 1 .. Len(q) : C!Digit(q[i]) \in Nat
    <3>1. DOMAIN q = 1 .. Len(q)
      BY <1>5, LenProperties
    <3>2. \A x \in 0 .. r - 1 : x \in Nat
      BY <1>2
    <3> QED
      BY <1>6, <3>1, <3>2
  <2> QED
    BY <1>2, <1>5, <2>1, WorthNatural
<1> QED
  BY <1>2, <1>5, <1>6 DEF q, r, Size

(* A number fits. *)
LEMMA MeantFits ==
  ASSUME NEW S, NEW s \in Seq(S), NEW base \in {0, 8, 10, 16}, NEW signed \in BOOLEAN, NEW max \in Nat,
         Fitting(s, base, signed, max)
  PROVE  /\ Meant(s, base, signed, max) \in IF signed THEN -(max + 1) .. max ELSE 0 .. C!Values(max) - 1
         /\ Size(s, base) \in Nat /\ (~signed => Size(s, base) \in 0 .. C!Values(max) - 1)
<1> DEFINE z == Size(s, base)
           v == C!Values(max)
<1>1. z \in Nat
  BY SizeTyped DEF Fitting
<1>2. v \in Nat \ {0} /\ v = 2 * (max + 1)
  BY DEF C!Values
<1>3. ~(z > Most(s, signed, max))
  BY DEF Fitting
<1> HIDE DEF z, v
<1>4. CASE signed
  <2>1. Meant(s, base, signed, max) = IF Minus(s) THEN -z ELSE z
    BY <1>4 DEF Meant, z
  <2>2. Most(s, signed, max) = IF Minus(s) THEN max + 1 ELSE max
    BY <1>4 DEF Most
  <2>3. CASE Minus(s)
    <3>1. z <= max + 1
      BY <1>1, <1>3, <2>2, <2>3
    <3>2. -z \in -(max + 1) .. max
      BY <1>1, <3>1
    <3>3. Meant(s, base, signed, max) = -z
      BY <2>1, <2>3
    <3>4. Meant(s, base, signed, max) \in -(max + 1) .. max
      BY <3>2, <3>3
    <3> QED
      BY <1>1, <1>4, <3>4 DEF z
  <2>4. CASE ~Minus(s)
    <3>1. z <= max
      BY <1>1, <1>3, <2>2, <2>4
    <3>2. z \in -(max + 1) .. max
      BY <1>1, <3>1
    <3>3. Meant(s, base, signed, max) = z
      BY <2>1, <2>4
    <3>4. Meant(s, base, signed, max) \in -(max + 1) .. max
      BY <3>2, <3>3
    <3> QED
      BY <1>1, <1>4, <3>4 DEF z
  <2> QED
    BY <2>3, <2>4
<1>5. CASE ~signed
  <2>1. Meant(s, base, signed, max) = IF Minus(s) THEN (v - z) % v ELSE z
    BY <1>5 DEF Meant, z, v
  <2>2. Most(s, signed, max) = v - 1
    BY <1>5 DEF Most, v
  <2>3. z \in 0 .. v - 1
    BY <1>1, <1>2, <1>3, <2>2
  <2>4. (v - z) % v \in 0 .. v - 1
    <3>1. v - z \in Int
      BY <1>1, <1>2
    <3> QED
      BY <1>2, <3>1, Modulo
  <2> QED
    BY <1>1, <1>5, <2>1, <2>3, <2>4 DEF z, v
<1> QED
  BY <1>4, <1>5

(* The extraction under from_string (convert.hpp): the number that was read is
   the one its digits denote, whatever their number, and for an unsigned type
   what its negation is modulo the number of values of the type. *)
THEOREM MeantDenotes ==
  ASSUME NEW S, NEW s \in Seq(S), NEW base \in {8, 10}, NEW signed \in BOOLEAN, NEW max \in Nat,
         Fitting(s, base, signed, max)
  PROVE  Meant(s, base, signed, max) =
           IF signed THEN C!Denotes(s, base) ELSE (C!Denotes(s, base) + C!Values(max)) % C!Values(max)
<1> DEFINE z == Size(s, base)
           v == C!Values(max)
           q == Bare(s)
           y == C!Denotes(s, base)
<1>1. base \in {0, 8, 10, 16} /\ base \in Nat
  OBVIOUS
<1>2. z \in Nat /\ (~signed => z \in 0 .. v - 1)
  BY <1>1, MeantFits
<1>3. ~Prefixed(s, base) /\ DigitsOf(s, base) = q /\ Radix(s, base) = base
  BY DEF Prefixed, DigitsOf, Radix
<1>4. q \in Seq(S) /\ q # <<>> /\ s # <<>>
  <2>1. DigitsOf(s, base) \in Seq(S) /\ (DigitsOf(s, base) # <<>> => s # <<>>)
    BY <1>1, SizeTyped
  <2> QED
    BY <1>3, <2>1 DEF Fitting
<1>5. Weighed(C!Reverse(q), base).sum = z
  <2>1. z = Worth(q, base)
    BY <1>3 DEF Size
  <2> HIDE DEF z, q
  <2> QED
    BY <1>1, <1>4, <2>1, WeighedIsWorth
<1>6. y = IF Minus(s) THEN -z ELSE z
  <2> DEFINE minus == s[1] = "-"
             digits == IF minus THEN Tail(s) ELSE s
             size == Weighed(C!Reverse(digits), base).sum
  <2>1. y = IF minus THEN -size ELSE size
    BY Zenon DEF C!Denotes, Weighed
  <2>2. minus = Minus(s)
    BY <1>4 DEF Minus
  <2>3. digits = q
    BY <2>2 DEF Bare
  <2> HIDE DEF minus, digits
  <2>4. size = z
    BY <1>5, <2>3
  <2> QED
    BY <2>1, <2>2, <2>4
<1>7. v \in Nat \ {0}
  BY DEF C!Values
<1>8. Meant(s, base, signed, max) = IF ~Minus(s) THEN z ELSE IF signed THEN -z ELSE (v - z) % v
  BY DEF Meant
<1> HIDE DEF z, v, q, y
<1>9. CASE signed
  BY <1>6, <1>8, <1>9 DEF y
<1>10. CASE ~signed
  <2>1. CASE Minus(s)
    <3>1. y + v = v - z
      BY <1>2, <1>6, <1>7, <2>1
    <3> QED
      BY <1>8, <1>10, <2>1, <3>1 DEF v, y
  <2>2. CASE ~Minus(s)
    <3>1. y = z /\ z \in 0 .. v - 1 /\ z \in Int
      BY <1>2, <1>6, <1>10, <2>2
    <3>2. (z + v) % v = z
      BY <1>7, <3>1, Modulo
    <3> QED
      BY <1>8, <1>10, <2>2, <3>1, <3>2 DEF v, y
  <2> QED
    BY <2>1, <2>2
<1> QED
  BY <1>9, <1>10

(* A number written by to_hex (convert.hpp), of whatever length, is read again by
   from_string as itself if the type holds it, and is refused if it does not. *)
THEOREM HexRead ==
  ASSUME NEW m \in Nat, NEW max \in Nat
  PROVE  C!to_int(C!Written(m, 16), 16, TRUE, max) = IF m > max THEN C!Failed ELSE C!Number(m)
<1> DEFINE w == C!Written(m, 16)
           n == Len(w)
<1>1. w \in Seq(DigitSet) /\ w # <<>> /\ Worth(w, 16) = m
  BY WrittenRead
<1> HIDE DEF w
<1>2. n \in Nat /\ n > 0 /\ DOMAIN w = 1 .. n /\ \A i \in 1 .. n : w[i] \in DigitSet
  BY <1>1, LenProperties, EmptySeq, ElementOfSeq
<1> HIDE DEF n
<1>3. \A c \in DigitSet : c # " " /\ c # "-" /\ c # "x" /\ C!Digit(c) \in 0 .. 15
  <2>1. ASSUME NEW i \in 1 .. 16 PROVE C!Digit(C!DigitChars[i]) \in 0 .. 15
    <3> DEFINE j == i - 1
    <3>1. j \in 0 .. 15 /\ j + 1 = i
      OBVIOUS
    <3> HIDE DEF j
    <3>2. C!Digit(C!DigitChars[j + 1]) = j
      BY Zenon, <3>1, DigitKnown
    <3> QED
      BY <3>1, <3>2
  <2>2. \A c \in DigitSet : C!Digit(c) \in 0 .. 15
    BY <2>1 DEF DigitSet
  <2> QED
    BY Zenon, <2>2, DigitKnown
<1>4. C!trim(w, C!Both) = w
  <2>1. \A i \in 1 .. Len(w) : w[i] # " "
    BY Zenon, <1>2, <1>3 DEF n
  <2> QED
    BY Zenon, <1>1, <2>1, Trimmed
<1>5. ~Minus(w) /\ Bare(w) = w
  <2>1. w[1] \in DigitSet
    <3>1. 1 \in 1 .. n
      BY <1>2
    <3> QED
      BY <1>2, <3>1
  <2>2. w[1] # "-"
    BY Zenon, <1>3, <2>1
  <2> QED
    BY <2>2 DEF Minus, Bare
<1>6. ~Prefixed(w, 16)
  <2>1. n > 1 => w[2] # "x"
    <3>1. n > 1 => 2 \in 1 .. n
      BY <1>2
    <3>2. n > 1 => w[2] \in DigitSet
      BY <1>2, <3>1
    <3> QED
      BY Zenon, <1>3, <3>2
  <2> QED
    BY <1>5, <2>1 DEF Prefixed, n
<1>7. DigitsOf(w, 16) = w /\ Radix(w, 16) = 16
  BY <1>5, <1>6 DEF DigitsOf, Radix
<1>8. Size(w, 16) = m
  BY <1>1, <1>7 DEF Size
<1>9. Most(w, TRUE, max) = max
  BY <1>5 DEF Most
<1>10. \A i \in DOMAIN w : C!Digit(w[i]) \in 0 .. 16 - 1
  <2> SUFFICES ASSUME NEW i \in DOMAIN w PROVE C!Digit(w[i]) \in 0 .. 16 - 1
    OBVIOUS
  <2>1. w[i] \in DigitSet
    BY <1>2
  <2>2. C!Digit(w[i]) \in 0 .. 15
    BY Zenon, <1>3, <2>1
  <2> QED
    BY <2>2
<1>11. Fitting(w, 16, TRUE, max) <=> ~(m > max)
  BY <1>1, <1>7, <1>8, <1>9, <1>10 DEF Fitting
<1>12. Meant(w, 16, TRUE, max) = m
  BY <1>5, <1>8 DEF Meant
<1>13. C!Extracted(w, 16, TRUE, max) = IF Fitting(w, 16, TRUE, max) THEN C!Number(Meant(w, 16, TRUE, max)) ELSE C!Failed
  BY ExtractedIs
<1>14. C!to_int(w, 16, TRUE, max) = C!Extracted(w, 16, TRUE, max)
  BY <1>4 DEF C!to_int
<1> QED
  BY <1>11, <1>12, <1>13, <1>14 DEF w

LEMMA IntegersHold ==
  ASSUME Asking, Answered, returned, call.fn = "to_int", result.is = "number"
  PROVE  LET s == C!trim(call.source, C!Both)
             hex == C!to_base(call.source, 16, MaxInt)
         IN  /\ result.n \in IF call.signed THEN -(MaxInt + 1) .. MaxInt ELSE 0 .. C!Values(MaxInt) - 1
             /\ call.base \in {8, 10} =>
                  result.n = IF call.signed THEN C!Denotes(s, call.base)
                                            ELSE (C!Denotes(s, call.base) + C!Values(MaxInt)) % C!Values(MaxInt)
             /\ call.signed /\ call.base = 0 =>
                  (C!to_int(hex, 16, TRUE, MaxInt) = result <=> result.n >= 0)
<1> DEFINE x == call.source
           base == call.base
           signed == call.signed
           s == C!trim(x, C!Both)
           n == Meant(s, base, signed, MaxInt)
           v == C!Values(MaxInt)
           hex == C!to_base(x, 16, MaxInt)
<1>1. x \in BoundedSeq(C!Chars, MaxText) /\ base \in {0, 8, 10, 16} /\ signed \in BOOLEAN
  BY DecodeKinds
<1>2. result = C!to_int(x, base, signed, MaxInt)
  BY DecodeEvaluates DEF Answered
<1>3. MaxInt \in Nat /\ MaxText \in Nat
  BY MaxInputAssumption
<1> HIDE DEF x, base, signed
<1>4. s \in Seq(C!Chars)
  <2>1. x \in Seq(C!Chars)
    BY <1>1, <1>3, Bounded
  <2> QED
    BY Zenon, <2>1, Trimmed
<1>5. result = C!Extracted(s, base, signed, MaxInt)
  BY <1>2 DEF C!to_int
<1> HIDE DEF s
<1>6. Fitting(s, base, signed, MaxInt) /\ result = C!Number(n)
  <2>1. result = IF Fitting(s, base, signed, MaxInt) THEN C!Number(n) ELSE C!Failed
    BY <1>1, <1>5, ExtractedIs
  <2>2. C!Failed.is = "throws"
    BY DEF C!Failed
  <2> HIDE DEF n
  <2> QED
    BY <2>1, <2>2
<1>7. result.n = n
  BY <1>6 DEF C!Number
<1>8. n \in IF signed THEN -(MaxInt + 1) .. MaxInt ELSE 0 .. C!Values(MaxInt) - 1
  BY <1>1, <1>3, <1>4, <1>6, MeantFits
<1>9. base \in {8, 10} =>
        n = IF signed THEN C!Denotes(s, base) ELSE (C!Denotes(s, base) + C!Values(MaxInt)) % C!Values(MaxInt)
  BY <1>1, <1>3, <1>4, <1>6, MeantDenotes
<1> HIDE DEF n
<1>10. ASSUME signed, base = 0 PROVE C!to_int(hex, 16, TRUE, MaxInt) = result <=> n >= 0
  <2> DEFINE m == n % v
  <2>1. v \in Nat \ {0} /\ v = 2 * (MaxInt + 1)
    BY <1>3 DEF C!Values
  <2>2. n \in -(MaxInt + 1) .. MaxInt
    BY <1>8, <1>10
  <2>3. C!to_int(x, 0, TRUE, MaxInt) = result
    <3>1. signed = TRUE
      BY <1>1, <1>10
    <3> QED
      BY <1>2, <1>10, <3>1
  <2>4. result # C!Failed
    BY <1>6 DEF C!Number, C!Failed
  <2>5. hex = C!Written(m, 16)
    BY <1>7, <2>3, <2>4 DEF C!to_base
  <2> HIDE DEF v
  <2>6. m = IF n >= 0 THEN n ELSE n + v
    <3>1. CASE n >= 0
      <4>1. n \in 0 .. v - 1 /\ n \in Int
        BY <1>3, <2>1, <2>2, <3>1
      <4>2. n % v = n
        BY <2>1, <4>1, Modulo
      <4> QED
        BY <3>1, <4>2
    <3>2. CASE n < 0
      <4> DEFINE p == n + v
      <4>1. p \in 0 .. v - 1 /\ p \in Int /\ p - v = n
        BY <1>3, <2>1, <2>2, <3>2
      <4> HIDE DEF p
      <4>2. (p - v) % v = p
        BY <2>1, <4>1, Modulo
      <4>3. ~(n >= 0)
        BY <2>2, <3>2
      <4> QED
        BY <4>1, <4>2, <4>3 DEF p
    <3> QED
      BY <2>2, <3>1, <3>2
  <2> HIDE DEF m
  <2>7. m \in Nat /\ (m > MaxInt <=> ~(n >= 0)) /\ (n >= 0 => m = n)
    BY <1>3, <2>1, <2>2, <2>6
  <2>8. C!to_int(hex, 16, TRUE, MaxInt) = IF m > MaxInt THEN C!Failed ELSE C!Number(m)
    BY <1>3, <2>5, <2>7, HexRead
  <2> QED
    BY <1>6, <2>4, <2>7, <2>8
<1> QED
  BY <1>7, <1>8, <1>9, <1>10 DEF x, base, signed, s, v

LEMMA NumbersHold ==
  ASSUME Asking, Answered, returned
  PROVE  NumbersRead
<1>1. Returned("to_int") /\ result.is = "number" =>
       LET s == C!trim(call.source, C!Both)
           hex == C!to_base(call.source, 16, MaxInt)
       IN  /\ result.n \in IF call.signed THEN -(MaxInt + 1) .. MaxInt ELSE 0 .. C!Values(MaxInt) - 1
           /\ call.base \in {8, 10} =>
                result.n = IF call.signed THEN C!Denotes(s, call.base)
                                          ELSE (C!Denotes(s, call.base) + C!Values(MaxInt)) % C!Values(MaxInt)
           /\ call.signed /\ call.base = 0 =>
                (C!to_int(hex, 16, TRUE, MaxInt) = result <=> result.n >= 0)
  BY IntegersHold DEF Returned
<1>2. ASSUME call.fn = "to_bool"
      PROVE  LET s == C!trim(call.source, C!Both)
                 number == C!to_int(call.source, 10, TRUE, MaxInt)
             IN  IF call.text THEN result.is = "number" <=> s \in {<<"true">>, <<"false">>}
                 ELSE result = IF number.n \in {0, 1} THEN number ELSE C!Failed
  <2> DEFINE s == C!trim(call.source, C!Both)
             number == C!to_int(call.source, 10, TRUE, MaxInt)
             text == CASE s = <<"true">> -> C!Number(1) [] s = <<"false">> -> C!Number(0) [] OTHER -> C!Failed
  <2>1. number = C!Extracted(s, 10, TRUE, MaxInt)
    BY DEF C!to_int
  <2>2. result = IF call.text THEN text ELSE IF number.n \in {0, 1} THEN number ELSE C!Failed
    BY <1>2, <2>1, DecodeEvaluates DEF Answered, C!to_bool
  <2>3. C!Number(1).is = "number" /\ C!Number(0).is = "number" /\ C!Failed.is # "number"
    BY DEF C!Number, C!Failed
  <2> HIDE DEF s, number
  <2>4. text.is = "number" <=> s = <<"true">> \/ s = <<"false">>
    <3> DEFINE true == <<"true">>
               false == <<"false">>
    <3> HIDE DEF true, false
    <3>1. text = CASE s = true -> C!Number(1) [] s = false -> C!Number(0) [] OTHER -> C!Failed
      BY DEF true, false
    <3> HIDE DEF text
    <3>2. CASE s = true /\ s # false
      BY <2>3, <3>1, <3>2 DEF true, false
    <3>3. CASE s = false /\ s # true
      BY <2>3, <3>1, <3>3 DEF true, false
    <3>4. CASE s # true /\ s # false
      BY <2>3, <3>1, <3>4 DEF true, false
    <3>5. true # false
      BY DEF true, false
    <3> QED
      BY <3>2, <3>3, <3>4, <3>5
  <2> HIDE DEF text
  <2> QED
    BY <2>2, <2>4 DEF s, number
<1> QED
  BY <1>1, <1>2 DEF NumbersRead, Returned

LEMMA DecodesHold ==
  ASSUME Asking, Answered, returned
  PROVE  Decodes
<1>1. Returned("address") =>
        /\ C!address_value(result) = call.host
        /\ result[1] = 127 <=> call.host = C!loopback
  BY AddressHolds DEF Returned
<1> QED
  BY <1>1, ExecuteHolds, InputsHold, NumbersHold, EnvironHolds, OptionalsKept DEF Decodes
----------------------------------------------------------------------------
(* Credentials: whoever a process has changed to is who it was asked to   *)
(* be, and an ordinary user for good.                                      *)

(* A final user is not root, or the process could change again. *)
Ordinary == final # invalid_uid => final \in Users /\ final # root_uid /\ user = Triple(final)

IdsInv == IdsTypeOK /\ IdentityWhole /\ Ordinary

LEMMA Ids == Users \subseteq Int /\ invalid_uid \notin Users /\ Gid \in [Users -> Nat] /\ root_uid \in Users
  BY UsersAssumption, GidAssumption DEF invalid_uid

(* Ids and their changes are three numbers. *)
LEMMA Triples ==
  ASSUME NEW n
  PROVE  /\ Triple(n).real = n /\ Triple(n).effective = n /\ Triple(n).saved = n
         /\ DOMAIN Triple(n) = {"real", "effective", "saved"}
         /\ \A t : t = Triple(n) => t.effective = n
  BY DEF Triple

(* What setresuid, and setresgid, make of three ids when they may.         *)
LEMMA Becomes ==
  ASSUME NEW S, NEW t \in Three(S), NEW n, NEW perm \in BOOLEAN
  PROVE  /\ Become(t, New(n, perm)) =
              [real |-> IF perm /\ n # -1 THEN n ELSE t.real,
               effective |-> IF n # -1 THEN n ELSE t.effective,
               saved |-> IF perm /\ n # -1 THEN n ELSE t.saved]
         /\ {New(n, perm).real, New(n, perm).effective, New(n, perm).saved} \ {-1} = {n} \ {-1}
<1>1. DOMAIN t = {"real", "effective", "saved"}
  BY DEF Three
<1> QED
  BY <1>1 DEF Become, New

(* Once three ids are one that is not root, they stay.                     *)
LEMMA Stays ==
  ASSUME NEW u \in Users, u # root_uid, NEW n, NEW perm \in BOOLEAN,
         MayBecome(Privileged(Triple(u)), Triple(u), New(n, perm))
  PROVE  Become(Triple(u), New(n, perm)) = Triple(u)
<1>1. Triple(u) \in Three(Users)
  BY DEF Triple, Three
<1>2. n = -1 \/ n = u
  <2>1. ~Privileged(Triple(u))
    BY Triples DEF Privileged
  <2>2. {New(n, perm).real, New(n, perm).effective, New(n, perm).saved} \ {-1} \subseteq {u}
    BY <2>1, Triples DEF MayBecome
  <2>3. {n} \ {-1} \subseteq {u}
    BY <1>1, <2>2, Becomes
  <2> QED
    BY <2>3
<1> QED
  BY <1>1, <1>2, Becomes DEF Triple

(* A user who is settled is none of the others, and not root.              *)
LEMMA Settles ==
  ASSUME NEW t \in Three(Users), Settled(t) # invalid_uid
  PROVE  Settled(t) \in Users /\ Settled(t) # root_uid /\ t = Triple(Settled(t))
  BY DEF Settled, Three

(* The common end of every call: the final user is kept up to date. *)
LEMMA FinalKept ==
  ASSUME IdsInv, IdsTypeOK', final' = IF Settled(user') # invalid_uid THEN Settled(user') ELSE final,
         final # invalid_uid => user' = user
  PROVE  Ordinary'
<1>1. user' \in Three(Users)
  BY DEF IdsTypeOK
<1>2. CASE Settled(user') # invalid_uid
  BY <1>1, <1>2, Settles, Ids DEF Ordinary
<1>3. CASE Settled(user') = invalid_uid
  BY <1>3 DEF Ordinary, IdsInv
<1> QED
  BY <1>2, <1>3

LEMMA FinalType ==
  ASSUME IdsTypeOK, user' \in Three(Users),
         final' = IF Settled(user') # invalid_uid THEN Settled(user') ELSE final
  PROVE  final' \in Users \cup {invalid_uid}
  BY Settles DEF IdsTypeOK

LEMMA IdsInitInv == IdsInit => IdsInv
<1> SUFFICES ASSUME IdsInit PROVE IdsInv
  OBVIOUS
<1>1. PICK u \in Users : user = Triple(u) /\ group = Triple(Gid[u]) /\ groups = Groups(u)
  BY DEF IdsInit
<1>2. /\ Gid[u] \in Nat /\ final = invalid_uid
      /\ last = [form |-> "none", uid |-> -1, gid |-> -1, perm |-> FALSE, threw |-> FALSE]
  BY Ids DEF IdsInit, Call, invalid_uid, invalid_gid
<1>3. user \in Three(Users) /\ group \in Three(Nat) /\ groups \subseteq Nat
  BY <1>1, <1>2 DEF Triple, Three, Groups
<1>4. IdsTypeOK
  BY <1>2, <1>3 DEF IdsTypeOK
<1> QED
  BY <1>2, <1>4 DEF IdsInv, IdentityWhole, Ordinary

----------------------------------------------------------------------------
LEMMA MorphIntoInv ==
  ASSUME IdsInv, NEW c \in Objects, NEW fails \in {"none", "setgroups", "setgid", "setuid"},
         MorphInto(c, fails)
  PROVE  IdsInv'
<1> DEFINE root == Privileged(user)
           a == root /\ fails # "setgroups"
           b == a /\ MaySet(root, group, c.gid) /\ fails # "setgid"
           d == b /\ MaySet(root, user, c.uid) /\ fails # "setuid"
<1>1. /\ groups' = IF a THEN c.groups ELSE groups
      /\ group' = IF b THEN Triple(c.gid) ELSE group
      /\ user' = IF d THEN Triple(c.uid) ELSE user
      /\ last' = [form |-> "object", uid |-> c.uid, gid |-> c.gid, perm |-> TRUE, threw |-> ~d]
      /\ final' = IF Settled(user') # invalid_uid THEN Settled(user') ELSE final
  BY DEF MorphInto, Set, Call
<1>2. /\ c.uid \in Users \cup {-1} /\ c.gid \in Nat \cup {-1} /\ c.groups \subseteq Nat
      /\ c.uid # -1 => c.groups = Groups(c.uid)
      /\ b => c.gid # -1
      /\ d => c.uid # -1
  <2>1. CASE c = Default
    BY <2>1 DEF Default, invalid_uid, invalid_gid, MaySet
  <2>2. ASSUME NEW u \in Users, c = Object(u)
        PROVE  /\ c.uid \in Users /\ c.gid \in Nat /\ c.groups \subseteq Nat
               /\ c.groups = Groups(c.uid) /\ c.gid # -1 /\ c.uid # -1
    BY <2>2, UsersAssumption, GidAssumption DEF Object, Groups
  <2> HIDE DEF b, d
  <2> QED
    BY <2>1, <2>2 DEF Objects
<1>3. IdsTypeOK'
  <2>1. user' \in Three(Users) /\ group' \in Three(Nat) /\ groups' \subseteq Nat
    BY <1>1, <1>2 DEF IdsInv, IdsTypeOK, Triple, Three
  <2>2. last' \in [form : {"none", "object", "user", "both"}, uid : Int, gid : Int,
                   perm : BOOLEAN, threw : BOOLEAN]
    <3> HIDE DEF a, b, d, root
    <3>1. c.uid \in Int /\ c.gid \in Int
      <4>1. c.uid \in Users \cup {-1} /\ c.gid \in Nat \cup {-1}
        BY <1>2
      <4>2. \A u \in Users \cup {-1} : u \in Int
        BY UsersAssumption
      <4>3. \A g \in Nat \cup {-1} : g \in Int
        OBVIOUS
      <4> QED
        BY <4>1, <4>2, <4>3
    <3>2. (~d) \in BOOLEAN
      OBVIOUS
    <3> QED
      BY <1>1, <3>1, <3>2
  <2> QED
    BY <1>1, <2>1, <2>2, FinalType DEF IdsInv, IdsTypeOK
<1>4. final # invalid_uid => user' = user
  BY <1>1, Triples DEF IdsInv, Ordinary, Privileged
<1>5. Ordinary'
  BY <1>1, <1>3, <1>4, FinalKept
<1>6. ~last'.threw => user' = Triple(last'.uid) /\ group' = Triple(last'.gid) /\ groups' = Groups(last'.uid)
  BY <1>1, <1>2
<1> QED
  BY <1>1, <1>3, <1>5, <1>6 DEF IdsInv, IdentityWhole, Ordinary

LEMMA MorphBothInv ==
  ASSUME IdsInv, NEW u \in Users \cup {-1}, NEW g \in Int, g \in Nat \cup {-1}, NEW perm \in BOOLEAN,
         MorphBoth(u, g, perm)
  PROVE  IdsInv'
<1> DEFINE root == Privileged(user)
           a == MayBecome(root, group, New(g, perm))
           b == a /\ MayBecome(root, user, New(u, perm))
<1>1. /\ group' = IF a THEN Become(group, New(g, perm)) ELSE group
      /\ user' = IF b THEN Become(user, New(u, perm)) ELSE user
      /\ last' = [form |-> "both", uid |-> u, gid |-> g, perm |-> perm, threw |-> ~b]
      /\ final' = IF Settled(user') # invalid_uid THEN Settled(user') ELSE final
      /\ groups' = groups
  BY DEF MorphBoth, Call
<1>2. user \in Three(Users) /\ group \in Three(Nat)
  BY DEF IdsInv, IdsTypeOK
<1>3. IdsTypeOK'
  <2>1. user' \in Three(Users) /\ group' \in Three(Nat)
    BY <1>1, <1>2, Becomes, Ids DEF Three
  <2>2. last' \in [form : {"none", "object", "user", "both"}, uid : Int, gid : Int,
                   perm : BOOLEAN, threw : BOOLEAN]
    BY <1>1, Ids
  <2> QED
    BY <1>1, <2>1, <2>2, FinalType DEF IdsInv, IdsTypeOK
<1>4. final # invalid_uid => user' = user
  BY <1>1, Stays DEF IdsInv, Ordinary
<1>5. Ordinary'
  BY <1>1, <1>3, <1>4, FinalKept
<1>6. ~last'.threw => /\ last'.uid # -1 => user'.effective = last'.uid /\ (last'.perm => user' = Triple(last'.uid))
                      /\ last'.gid # -1 => group'.effective = last'.gid /\ (last'.perm => group' = Triple(last'.gid))
  <2>1. last'.uid = u /\ last'.gid = g /\ last'.perm = perm /\ last'.threw = ~b
    BY <1>1
  <2>2. ASSUME b
        PROVE  /\ u # -1 => user'.effective = u /\ (perm => user' = Triple(u))
               /\ g # -1 => group'.effective = g /\ (perm => group' = Triple(g))
    BY <1>1, <1>2, <2>2, Becomes DEF Triple
  <2> HIDE DEF b
  <2> QED
    BY <2>1, <2>2
<1> QED
  BY <1>1, <1>3, <1>5, <1>6 DEF IdsInv, IdentityWhole, Ordinary, invalid_uid, invalid_gid

LEMMA MorphUserInv ==
  ASSUME IdsInv, NEW u \in Users \cup {-1}, NEW perm \in BOOLEAN, MorphUser(u, perm)
  PROVE  IdsInv'
<1> DEFINE may == MayBecome(Privileged(user), user, New(u, perm))
<1>1. /\ user' = IF may THEN Become(user, New(u, perm)) ELSE user
      /\ last' = [form |-> "user", uid |-> u, gid |-> -1, perm |-> perm, threw |-> ~may]
      /\ final' = IF Settled(user') # invalid_uid THEN Settled(user') ELSE final
      /\ groups' = groups /\ group' = group
  BY DEF MorphUser, Call, invalid_gid
<1>2. user \in Three(Users)
  BY DEF IdsInv, IdsTypeOK
<1>3. IdsTypeOK'
  <2>1. user' \in Three(Users)
    BY <1>1, <1>2, Becomes, Ids DEF Three
  <2>2. last' \in [form : {"none", "object", "user", "both"}, uid : Int, gid : Int,
                   perm : BOOLEAN, threw : BOOLEAN]
    BY <1>1, Ids
  <2> QED
    BY <1>1, <2>1, <2>2, FinalType DEF IdsInv, IdsTypeOK
<1>4. final # invalid_uid => user' = user
  BY <1>1, Stays DEF IdsInv, Ordinary
<1>5. Ordinary'
  BY <1>1, <1>3, <1>4, FinalKept
<1>6. ~last'.threw /\ last'.uid # -1 =>
        user'.effective = last'.uid /\ (last'.perm => user' = Triple(last'.uid))
  <2>1. last'.uid = u /\ last'.perm = perm /\ last'.threw = ~may
    BY <1>1
  <2>2. ASSUME may PROVE u # -1 => user'.effective = u /\ (perm => user' = Triple(u))
    BY <1>1, <1>2, <2>2, Becomes DEF Triple
  <2> HIDE DEF may
  <2> QED
    BY <2>1, <2>2
<1> QED
  BY <1>1, <1>3, <1>5, <1>6 DEF IdsInv, IdentityWhole, Ordinary, invalid_uid, invalid_gid

LEMMA IdsStepInv == IdsInv /\ [IdsNext]_ids => IdsInv'
<1> SUFFICES ASSUME IdsInv, [IdsNext]_ids PROVE IdsInv'
  OBVIOUS
<1>1. ASSUME NEW c \in Objects, NEW perm \in BOOLEAN, MorphBoth(uid(c), gid(c), perm) PROVE IdsInv'
  <2>1. uid(c) \in Users \cup {-1} /\ gid(c) \in Int /\ gid(c) \in Nat \cup {-1}
    BY Ids, UsersAssumption DEF Objects, Object, Default, uid, gid, invalid_uid
  <2> QED
    BY <1>1, <2>1, MorphBothInv
<1>2. ASSUME NEW u \in get_uid, NEW perm \in BOOLEAN, MorphUser(u, perm) PROVE IdsInv'
  BY <1>2, MorphUserInv DEF get_uid, invalid_uid
<1>3. ASSUME NEW u \in get_uid, NEW g \in get_gid, NEW perm \in BOOLEAN, MorphBoth(u, g, perm) PROVE IdsInv'
  <2>1. g \in Int /\ g \in Nat \cup {-1}
    BY Ids DEF get_gid, Gids, invalid_gid
  <2> QED
    BY <1>3, <2>1, MorphBothInv DEF get_uid, invalid_uid
<1>4. CASE UNCHANGED ids
  BY <1>4 DEF ids, IdsInv, IdsTypeOK, IdentityWhole, Ordinary
<1> QED
  BY <1>1, <1>2, <1>3, <1>4, MorphIntoInv DEF IdsNext

(* Who a process has changed to is who it was asked to be, in all of its   *)
(* ids; and an ordinary user for good stays that user.                     *)
THEOREM IdentityIsWhole == IdsSpec => []IdentityWhole
<1>1. IdsInv => IdentityWhole
  BY DEF IdsInv
<1> QED
  BY IdsInitInv, IdsStepInv, <1>1, PTL DEF IdsSpec

----------------------------------------------------------------------------
(* Syslog: a message is what its own stream was given since the last one.  *)

(* The buffer and the level of a stream that exists are what it was given  *)
(* since its last message; the name is that of the last openlog, lost with *)
(* its owner or never given.                                               *)
LogCurrent ==
  /\ \A s \in alive : buffer[s] = since[s].text /\ level[s] = since[s].level
  /\ ident \in {opened, Dangling, Program}
  /\ opened = Program => ident = Program

LogShape ==
  /\ alive \subseteq Streams
  /\ buffer \in [Streams -> Seq(Texts)] /\ level \in [Streams -> Levels]
  /\ since \in [Streams -> [text : Seq(Texts), level : Levels]]

LogInv == LogShape /\ LogCurrent /\ LogTells

LEMMA LogInitInv == LogInit => LogInv
<1> SUFFICES ASSUME LogInit PROVE LogInv
  OBVIOUS
<1>1. <<>> \in Seq(Texts) /\ ini_level \in Levels
  BY DEF Levels
<1>2. LogShape
  BY <1>1 DEF LogInit, LogShape, Blank
<1>3. LogCurrent /\ LogTells
  BY DEF LogInit, LogCurrent, LogTells, NoMessage
<1> QED
  BY <1>2, <1>3 DEF LogInv

LEMMA LogStepInv == LogInv /\ [LogNext]_log_vars => LogInv'
<1> SUFFICES ASSUME LogInv, [LogNext]_log_vars PROVE LogInv'
  OBVIOUS
<1> USE DEF LogInv, LogShape, LogCurrent
<1>0. <<>> \in Seq(Texts) /\ ini_level \in Levels
  BY DEF Levels
<1>1. ASSUME NEW s \in Streams, NEW name \in {"kept", "temporary", "empty"}, LogConstruct(s, name)
      PROVE  LogInv'
  <2>1. LogShape'
    BY <1>0, <1>1 DEF LogConstruct, Blank
  <2>2. LogCurrent'
    BY <1>0, <1>1, ProgramAssumption DEF LogConstruct, Blank
  <2> QED
    BY <1>1, <2>1, <2>2 DEF LogConstruct, LogTells
<1>2. ASSUME NEW s \in Streams, LogDestroy(s) PROVE LogInv'
  BY <1>2 DEF LogDestroy, LogTells
<1>3. ASSUME NEW s \in Streams, NEW t \in Texts, Write(s, t) PROVE LogInv'
  <2>1. Append(buffer[s], t) \in Seq(Texts) /\ Append(since[s].text, t) \in Seq(Texts)
    BY <1>3
  <2>2. since'[s] = [text |-> Append(since[s].text, t), level |-> since[s].level]
    BY <1>3 DEF Write
  <2>3. LogShape'
    BY <1>3, <2>1, <2>2 DEF Write
  <2>4. LogCurrent'
    BY <1>3, <2>2 DEF Write
  <2> QED
    BY <1>3, <2>3, <2>4 DEF Write, LogTells
<1>4. ASSUME NEW s \in Streams, NEW l \in Levels, SetLevel(s, l) PROVE LogInv'
  <2>1. since'[s] = [text |-> since[s].text, level |-> l]
    BY <1>4 DEF SetLevel
  <2>2. LogShape'
    BY <1>4, <2>1 DEF SetLevel
  <2>3. LogCurrent'
    BY <1>4, <2>1 DEF SetLevel
  <2> QED
    BY <1>4, <2>2, <2>3 DEF SetLevel, LogTells
<1>5. ASSUME NEW s \in Streams, Sync(s) PROVE LogInv'
  <2>1. LogShape' /\ LogCurrent'
    BY <1>0, <1>5 DEF Sync, Blank
  <2>2. LogTells'
    BY <1>5 DEF Sync, Message, LogTells
  <2> QED
    BY <2>1, <2>2
<1>6. CASE UNCHANGED log_vars
  BY <1>6 DEF log_vars, LogTells
<1> QED
  BY <1>1, <1>2, <1>3, <1>4, <1>5, <1>6 DEF LogNext

(* Every message is what its own stream was given, at its level and under  *)
(* no other stream's name. *)
THEOREM MessagesTold == LogSpec => []LogTells
<1>1. LogInv => LogTells
  BY DEF LogInv
<1> QED
  BY LogInitInv, LogStepInv, <1>1, PTL DEF LogSpec

----------------------------------------------------------------------------
(* EntryScan: what scandir sorts is what it has kept.  The elements of a   *)
(* finite set of numbers are told apart by their rank, the number of those *)
(* that come first; so there is an order in which they can be listed, and  *)
(* the list that Sorted chooses holds all of them.                         *)

First(S, compare, x) == {y \in S : Before(compare, y, x)}
Position(S, compare, x) == Cardinality(First(S, compare, x)) + 1

LEMMA Ranking ==
  ASSUME NEW S \in SUBSET Nat, IsFiniteSet(S), NEW compare
  PROVE  /\ Cardinality(S) \in Nat
         /\ \A x \in S : Position(S, compare, x) \in 1 .. Cardinality(S)
         /\ \A x, y \in S : Position(S, compare, x) < Position(S, compare, y) => Before(compare, x, y)
         /\ \A x, y \in S : Position(S, compare, x) = Position(S, compare, y) => x = y
         /\ \A i \in 1 .. Cardinality(S) : \E x \in S : Position(S, compare, x) = i
<1> DEFINE n == Cardinality(S)
           before(x) == First(S, compare, x)
           rank(x) == Position(S, compare, x)
<1>1. n \in Nat
  BY FS_CardinalityType
<1>2. \A x \in S : before(x) \subseteq S \ {x}
  BY DEF First, Before
<1>3. \A x \in S : IsFiniteSet(before(x)) /\ Cardinality(before(x)) \in Nat
  <2> TAKE x \in S
  <2>1. before(x) \in SUBSET S
    BY <1>2
  <2> QED
    BY <2>1, FS_Subset, FS_CardinalityType
<1>4. \A x \in S : rank(x) \in 1 .. n
  <2> TAKE x \in S
  <2>1. IsFiniteSet(S \ {x}) /\ Cardinality(S \ {x}) = n - 1
    BY FS_RemoveElement
  <2>2. before(x) \in SUBSET (S \ {x})
    BY <1>2
  <2>3. Cardinality(before(x)) <= n - 1
    BY <2>1, <2>2, FS_Subset
  <2> QED
    BY <1>1, <1>3, <2>3 DEF Position
<1>5. \A x, y \in S : x \in before(y) => rank(x) < rank(y)
  <2> SUFFICES ASSUME NEW x \in S, NEW y \in S, x \in before(y) PROVE rank(x) < rank(y)
    OBVIOUS
  <2>0. \A z \in before(x) : z \in before(y)
    BY DEF First, Before
  <2>1. before(x) \in SUBSET before(y) /\ x \notin before(x)
    BY <1>2, <2>0
  <2>2. Cardinality(before(x)) <= Cardinality(before(y)) /\ Cardinality(before(x)) # Cardinality(before(y))
    BY <1>3, <2>1, FS_Subset
  <2> QED
    BY <1>3, <2>2 DEF Position
<1>6. \A x, y \in S : rank(x) = rank(y) => x = y
  <2> SUFFICES ASSUME NEW x \in S, NEW y \in S, x # y PROVE rank(x) # rank(y)
    OBVIOUS
  <2>1. x \in before(y) \/ y \in before(x)
    BY DEF First, Before
  <2>2. rank(x) \in Int /\ rank(y) \in Int
    BY <1>4
  <2>3. rank(x) < rank(y) \/ rank(y) < rank(x)
    BY <1>5, <2>1
  <2> QED
    BY <2>2, <2>3
<1>7. \A x, y \in S : rank(x) < rank(y) => Before(compare, x, y)
  <2> SUFFICES ASSUME NEW x \in S, NEW y \in S, rank(x) < rank(y) PROVE Before(compare, x, y)
    OBVIOUS
  <2>1. rank(x) \in Int /\ rank(y) \in Int
    BY <1>4
  <2>2. y \notin before(x) /\ x # y
    BY <1>5, <2>1
  <2> QED
    BY <2>2 DEF First, Before
<1>8. \A i \in 1 .. n : \E x \in S : rank(x) = i
  <2> DEFINE f == [x \in S |-> rank(x)]
  <2> HIDE DEF rank
  <2>1. f \in Injection(S, 1 .. n)
    BY <1>4, <1>6 DEF Injection, IsInjective
  <2>2. IsFiniteSet(1 .. n) /\ Cardinality(1 .. n) = n
    BY <1>1, FS_Interval
  <2>3. f \in Surjection(S, 1 .. n)
    BY <2>1, <2>2, FS_Injection
  <2> QED
    BY <2>3 DEF Surjection
<1> QED
  BY <1>1, <1>4, <1>6, <1>7, <1>8

(* Sorted lists a set in the order wanted: the element of rank i is the    *)
(* i-th, so there is such a list, and all of them are lists of the set.    *)
LEMMA SortedKeeps ==
  ASSUME NEW S \in SUBSET Nat, IsFiniteSet(S), NEW compare
  PROVE  Range(Sorted(S, compare)) = S
<1> DEFINE n == Cardinality(S)
           D == 1 .. n
           rank(x) == Position(S, compare, x)
           InOrder(names) == \A i, j \in DOMAIN names : i < j => Before(compare, names[i], names[j])
<1>1. /\ n \in Nat
      /\ \A x \in S : rank(x) \in D
      /\ \A x, y \in S : rank(x) < rank(y) => Before(compare, x, y)
      /\ \A x, y \in S : rank(x) = rank(y) => x = y
      /\ \A i \in D : \E x \in S : rank(x) = i
  BY Ranking
<1> HIDE DEF rank
<1>2. \E names \in SetToSeqs(S) : InOrder(names)
  <2> DEFINE names == [i \in D |-> CHOOSE x \in S : rank(x) = i]
  <2>1. \A i \in D : names[i] \in S /\ rank(names[i]) = i
    <3> TAKE i \in D
    <3>1. \E x \in S : rank(x) = i
      BY <1>1
    <3> QED
      BY <3>1
  <2>2. names \in [D -> S] /\ \A i, j \in D : i # j => names[i] # names[j]
    BY <2>1
  <2>3. names \in SetToSeqs(S)
    BY <2>2 DEF SetToSeqs
  <2> HIDE DEF names
  <2>4. InOrder(names)
    BY <1>1, <2>1, <2>2
  <2> QED
    BY <2>3, <2>4
<1>3. Sorted(S, compare) \in SetToSeqs(S)
  BY <1>2 DEF Sorted
<1>4. Sorted(S, compare) \in Injection(D, S)
  BY <1>3 DEF SetToSeqs, Injection, IsInjective
<1>5. IsFiniteSet(D) /\ Cardinality(D) = n
  BY <1>1, FS_Interval
<1>6. Sorted(S, compare) \in Surjection(D, S)
  BY <1>4, <1>5, FS_Injection
<1> QED
  BY <1>6 DEF Surjection, Range

(* The scans that are running: each has kept what its own filter accepts,  *)
(* as far as nothing was scanned meanwhile, and each but the innermost one *)
(* waits for the callback that called the next.                            *)
Scan == [filter : SUBSET Entries, compare : Orders, left : SUBSET Entries,
         at : Entries \cup {NoEntry}, kept : SUBSET Entries, late : SUBSET Entries,
         disturbed : BOOLEAN]
Good(s) ==
  /\ s.kept \subseteq Entries \ s.left /\ s.late \subseteq Entries \ s.left
  /\ \A e \in Entries \ (s.left \cup s.late) : e \in s.kept <=> e \in s.filter
  /\ ~s.disturbed => s.late = {}
Waiting(s) == s.disturbed /\ (s.at # NoEntry => s.at \in s.late)
Nested(ss) ==
  /\ ss \in Seq(Scan)
  /\ \A i \in 1 .. Len(ss) : Good(ss[i]) /\ (i < Len(ss) => Waiting(ss[i]))

(* As long as nothing was scanned meanwhile, the static variables are      *)
(* those of the innermost scan.                                            *)
StaticsMine == (scans # <<>> /\ ~Top.disturbed) => statics = [filter |-> Top.filter, compare |-> Top.compare]

ScanInv == Nested(scans) /\ StaticsMine /\ ScanAsAsked

LEMMA NestedTop ==
  ASSUME NEW ss, Nested(ss), ss # <<>>
  PROVE  Len(ss) \in 1 .. Len(ss) /\ ss[Len(ss)] \in Scan /\ Good(ss[Len(ss)])
  BY DEF Nested

(* The innermost scan changes. *)
LEMMA NestedSet ==
  ASSUME NEW ss, Nested(ss), ss # <<>>, NEW s \in Scan, Good(s),
         NEW new, new = [ss EXCEPT ![Len(ss)] = s]
  PROVE  Nested(new) /\ Len(new) = Len(ss) /\ new # <<>> /\ new[Len(ss)] = s
<1>1. ss \in Seq(Scan) /\ Len(ss) \in 1 .. Len(ss)
  BY NestedTop DEF Nested
<1>2. new \in Seq(Scan) /\ Len(new) = Len(ss) /\ new[Len(ss)] = s
      /\ \A i \in 1 .. Len(ss) : i < Len(ss) => new[i] = ss[i]
  BY <1>1
<1>3. ASSUME NEW i \in 1 .. Len(new) PROVE Good(new[i]) /\ (i < Len(new) => Waiting(new[i]))
  <2>1. CASE i = Len(ss)
    BY <1>2, <2>1
  <2>2. CASE i < Len(ss)
    BY ZenonT(40), <1>1, <1>2, <2>2 DEF Nested
  <2> QED
    BY <1>1, <1>2, <2>1, <2>2
<1>4. Nested(new)
  BY Zenon, <1>2, <1>3 DEF Nested
<1> QED
  BY Zenon, <1>1, <1>2, <1>4, EmptySeq

(* The innermost scan, if there is one, waits, and another one begins.     *)
LEMMA NestedPush ==
  ASSUME NEW ss, Nested(ss), ss # <<>> => Waiting(ss[Len(ss)]), NEW s \in Scan, Good(s),
         NEW new, new = Append(ss, s)
  PROVE  Nested(new) /\ new # <<>> /\ new[Len(new)] = s
<1>1. ss \in Seq(Scan) /\ Len(ss) \in Nat
  BY DEF Nested
<1>2. new \in Seq(Scan) /\ Len(new) = Len(ss) + 1 /\ new[Len(ss) + 1] = s
      /\ \A i \in 1 .. Len(ss) : new[i] = ss[i]
  BY <1>1
<1>3. ASSUME NEW i \in 1 .. Len(new) PROVE Good(new[i]) /\ (i < Len(new) => Waiting(new[i]))
  <2>1. CASE i = Len(ss) + 1
    BY <1>1, <1>2, <2>1
  <2>2. CASE i = Len(ss) /\ i # 0
    <3>1. i \in 1 .. Len(ss) /\ ss # <<>>
      BY <1>1, <2>2
    <3> QED
      BY <1>2, <2>2, <3>1 DEF Nested
  <2>3. CASE i < Len(ss)
    BY <1>1, <1>2, <2>3 DEF Nested
  <2> QED
    BY <1>1, <1>2, <2>1, <2>2, <2>3
<1>4. Nested(new)
  BY <1>2, <1>3 DEF Nested
<1> QED
  BY <1>1, <1>2, <1>4

(* The innermost scan is over, whatever its caller makes of its entry: the *)
(* caller was disturbed, and that entry counts as late.                    *)
LEMMA NestedPop ==
  ASSUME Nested(scans), scans # <<>>, NEW verdict \in BOOLEAN, NEW new, new = Popped(verdict)
  PROVE  Nested(new) /\ (new # <<>> => new[Len(new)].disturbed)
<1>1. scans \in Seq(Scan) /\ Len(scans) \in Nat /\ Len(scans) >= 1
  BY DEF Nested
<1>2. CASE Len(scans) = 1
  <2>1. new = <<>>
    BY <1>2 DEF Popped
  <2> QED
    BY <2>1 DEF Nested
<1>3. CASE Len(scans) # 1
  <2> DEFINE n == Len(scans) - 1
             outer == scans[n]
             open == IF outer.at # NoEntry /\ verdict THEN outer.kept \cup {outer.at} ELSE outer.kept
             back == [outer EXCEPT !.kept = open]
             rest == SubSeq(scans, 1, Len(scans) - 2)
  <2>1. n \in 1 .. Len(scans) /\ n < Len(scans) /\ Len(scans) - 2 = n - 1 /\ n \in Int
    <3> DEFINE l == Len(scans)
    <3>1. l \in Nat /\ l >= 1 /\ l # 1
      BY <1>1, <1>3
    <3> HIDE DEF l
    <3>2. l - 1 \in 1 .. l /\ l - 1 < l /\ l - 2 = (l - 1) - 1 /\ l - 1 \in Int
      BY <3>1
    <3> QED
      BY <3>2 DEF l
  <2>2. outer \in Scan /\ Good(outer) /\ Waiting(outer)
    BY <2>1 DEF Nested
  <2>3. new = Append(rest, back)
    BY <1>3 DEF Popped
  <2>4. rest \in Seq(Scan) /\ Len(rest) = n - 1 /\ \A i \in 1 .. n - 1 : rest[i] = scans[i]
    <3> HIDE DEF n
    <3>1. \A i \in 1 .. n - 1 : scans[i] \in Scan
      BY <1>1, <2>1
    <3>2. SubSeq(scans, 1, n - 1) \in Seq(Scan) /\ Len(SubSeq(scans, 1, n - 1)) = n - 1
          /\ \A i \in 1 .. n - 1 : SubSeq(scans, 1, n - 1)[i] = scans[i]
      BY <2>1, <3>1, SubSeqProperties
    <3> QED
      BY <2>1, <3>2
  <2>5. back \in Scan /\ Good(back) /\ Waiting(back)
    BY <2>2 DEF Scan, Good, Waiting
  <2> HIDE DEF back, rest
  <2>6. Nested(rest) /\ (rest # <<>> => Waiting(rest[Len(rest)]))
    <3>1. \A i \in 1 .. n - 1 : i \in 1 .. Len(scans) /\ i < Len(scans)
      BY <2>1
    <3> HIDE DEF n
    <3> QED
      BY <2>4, <3>1 DEF Nested
  <2>7. Nested(new) /\ new[Len(new)] = back
    BY <2>3, <2>5, <2>6, NestedPush
  <2> QED
    BY <2>5, <2>7 DEF Waiting
<1> QED
  BY <1>2, <1>3

LEMMA ScanInitInv == ScanInit => ScanInv
  BY DEF ScanInit, ScanInv, Nested, StaticsMine, ScanAsAsked

LEMMA GetInv ==
  ASSUME ScanInv, NEW f \in Filters, NEW c \in Orders, NEW e \in Entries \cup {NoEntry}, Get(f, c, e)
  PROVE  ScanInv'
<1> DEFINE asked == Asked(f, c)
<1>1. asked \in Scan /\ Good(asked) /\ asked.filter = f /\ asked.compare = c
  BY FiltersAssumption DEF Asked, Scan, Good
<1>2. Nested(Outer(e)) /\ (Outer(e) # <<>> => Waiting(Outer(e)[Len(Outer(e))]))
  <2>1. CASE scans = <<>>
    BY <2>1 DEF Outer, ScanInv
  <2>2. CASE scans # <<>>
    <3> DEFINE out == [Top EXCEPT !.left = @ \ {e}, !.at = e, !.disturbed = TRUE,
                                  !.late = IF e = NoEntry THEN @ ELSE @ \cup {e}]
    <3>1. Top \in Scan /\ Good(Top)
      BY <2>2, NestedTop DEF Top, ScanInv
    <3>2. IF Top.left = {} THEN e = NoEntry ELSE e \in Top.left
      BY <2>2 DEF Get, Calls
    <3>3. NoEntry \notin Entries
      BY EntriesAssumption DEF NoEntry
    <3>4. out \in Scan /\ Good(out) /\ Waiting(out)
      BY <3>1, <3>2, <3>3 DEF Scan, Good, Waiting
    <3>5. Outer(e) = [scans EXCEPT ![Len(scans)] = out]
      BY <2>2 DEF Outer, SetTop
    <3> HIDE DEF out
    <3>6. Nested(Outer(e)) /\ Len(Outer(e)) = Len(scans) /\ Outer(e)[Len(scans)] = out
      BY <2>2, <3>4, <3>5, NestedSet DEF ScanInv
    <3> QED
      BY <3>4, <3>6
  <2> QED
    BY <2>1, <2>2
<1>3. scans' = Append(Outer(e), asked) /\ statics' = [filter |-> f, compare |-> c] /\ returns' = returns
  BY DEF Get
<1> HIDE DEF asked
<1>4. Nested(scans') /\ scans' # <<>> /\ scans'[Len(scans')] = asked
  BY <1>1, <1>2, <1>3, NestedPush
<1>5. StaticsMine'
  BY <1>1, <1>3, <1>4 DEF StaticsMine, Top
<1> QED
  BY <1>3, <1>4, <1>5 DEF ScanInv, ScanAsAsked

LEMMA FilterNextInv ==
  ASSUME ScanInv, NEW e \in Entries, FilterNext(e)
  PROVE  ScanInv'
<1> DEFINE new == [Top EXCEPT !.left = @ \ {e},
                              !.kept = IF e \in statics.filter THEN @ \cup {e} ELSE @,
                              !.late = IF Top.disturbed THEN @ \cup {e} ELSE @]
<1>1. /\ scans # <<>> /\ e \in Top.left
      /\ scans' = [scans EXCEPT ![Len(scans)] = new]
      /\ statics' = statics /\ returns' = returns
  BY DEF FilterNext, SetTop
<1>2. Top \in Scan /\ Good(Top)
  BY <1>1, NestedTop DEF Top, ScanInv
<1>3. ~Top.disturbed => statics.filter = Top.filter
  BY <1>1 DEF ScanInv, StaticsMine
<1>4. new \in Scan /\ Good(new)
  BY <1>1, <1>2, <1>3 DEF Scan, Good
<1>5. new.filter = Top.filter /\ new.compare = Top.compare /\ new.disturbed = Top.disturbed
  BY <1>2 DEF Scan
<1> HIDE DEF new
<1>6. Nested(scans') /\ scans' # <<>> /\ Len(scans') = Len(scans) /\ scans'[Len(scans')] = new
  BY <1>1, <1>4, NestedSet DEF ScanInv
<1>7. StaticsMine'
  BY <1>1, <1>5, <1>6 DEF StaticsMine, Top, ScanInv
<1> QED
  BY <1>1, <1>6, <1>7 DEF ScanInv, ScanAsAsked

LEMMA ReturnInv ==
  ASSUME ScanInv, NEW verdict \in BOOLEAN, Return(verdict)
  PROVE  ScanInv'
<1>1. /\ scans # <<>> /\ Top.left = {}
      /\ returns' = [asked |-> [filter |-> Top.filter, compare |-> Top.compare],
                     late |-> Top.late, disturbed |-> Top.disturbed,
                     names |-> Sorted(Top.kept, statics.compare)]
      /\ scans' = Popped(verdict) /\ statics' = statics
  BY DEF Return
<1>2. Top \in Scan /\ Good(Top)
  BY <1>1, NestedTop DEF Top, ScanInv
<1>3. Nested(scans') /\ StaticsMine'
  BY <1>1, NestedPop DEF ScanInv, StaticsMine, Top
<1>4. Range(Sorted(Top.kept, statics.compare)) = Top.kept
  <2>1. Top.kept \in SUBSET Entries
    BY <1>2 DEF Scan
  <2>2. Top.kept \in SUBSET Nat /\ IsFiniteSet(Top.kept)
    BY <2>1, EntriesAssumption, FS_Subset
  <2> QED
    BY <2>2, SortedKeeps
<1>5. \A x \in Entries \ Top.late : x \in Top.kept <=> x \in Top.filter
  BY <1>1, <1>2 DEF Good
<1>6. ~Top.disturbed => Top.kept = Top.filter /\ statics.compare = Top.compare
  <2>1. Top.kept \subseteq Entries /\ Top.filter \subseteq Entries
    BY SMTT(40), <1>2 DEF Scan
  <2>2. ~Top.disturbed => Top.late = {}
    BY <1>2 DEF Good
  <2>3. ~Top.disturbed => Top.kept = Top.filter
    BY <1>5, <2>1, <2>2
  <2>4. ~Top.disturbed => statics.compare = Top.compare
    BY <1>1 DEF ScanInv, StaticsMine
  <2> QED
    BY <2>3, <2>4
<1>7. ScanAsAsked'
  BY <1>1, <1>4, <1>5, <1>6 DEF ScanAsAsked
<1> QED
  BY <1>3, <1>7 DEF ScanInv

LEMMA ScanFailsInv ==
  ASSUME ScanInv, NEW caught \in BOOLEAN, NEW verdict \in BOOLEAN, ScanFails(caught, verdict)
  PROVE  ScanInv'
<1>1. /\ scans # <<>> /\ returns' = returns
      /\ scans' = IF caught THEN Popped(verdict) ELSE <<>>
  BY DEF ScanFails
<1>2. Nested(scans') /\ StaticsMine'
  <2>1. CASE caught
    BY <1>1, <2>1, NestedPop DEF ScanInv, StaticsMine, Top
  <2>2. CASE ~caught
    BY <1>1, <2>2 DEF Nested, StaticsMine
  <2> QED
    BY <2>1, <2>2
<1> QED
  BY <1>1, <1>2 DEF ScanInv, ScanAsAsked

LEMMA ScanStepInv == ScanInv /\ [ScanNext]_scan_vars => ScanInv'
<1> SUFFICES ASSUME ScanInv, [ScanNext]_scan_vars PROVE ScanInv'
  OBVIOUS
<1>1. CASE UNCHANGED scan_vars
  BY <1>1 DEF scan_vars, ScanInv, Nested, StaticsMine, ScanAsAsked, Top
<1> QED
  BY <1>1, GetInv, FilterNextInv, ReturnInv, ScanFailsInv DEF ScanNext

(* A scan that nothing disturbed returns exactly the entries its filter    *)
(* accepts, in its own order, wherever it was called from; one that a      *)
(* callback disturbed is right about the entries filtered before.          *)
THEOREM ScansAsAsked == ScanSpec => []ScanAsAsked
<1>1. ScanInv => ScanAsAsked
  BY DEF ScanInv
<1> QED
  BY ScanInitInv, ScanStepInv, <1>1, PTL DEF ScanSpec

----------------------------------------------------------------------------
(* Handles: a handle belongs to one object and is open as long as it does, *)
(* and a device is in the state its last call has promised.                *)

(* What HandlesOwned does not say: a handle that was left behind by a      *)
(* constructor never comes back to an object, since it stays open and the  *)
(* library gives out only handles that are not.                            *)
LeakedStay == \A h \in leaked : status[h] = "open" /\ \A o \in Owners : handle[o] # h

(* What PlaysAsTold says of the handle of a device. *)
Told(h) ==
  /\ pcm[h] = "paused" <=> answer[h] = "paused"
  /\ pcm[h] = "running" => answer[h] = "running"
  /\ answer[h] = "running" => pcm[h] \in {"running", "xrun"}

HandlesInv == HandlesTypeOK /\ HandlesOwned /\ LeakedStay /\ PlaysAsTold

(* The handle of an object is one of its own library. *)
LEMMA OwnKind ==
  ASSUME HandlesTypeOK
  PROVE  /\ \A o \in Devices : handle[o] # NoHandle => handle[o] \in PcmHandles
         /\ \A o \in Conns : handle[o] # NoHandle => handle[o] \in LdapHandles
         /\ \A o \in Owners : handle[o] # NoHandle => handle[o] \in AllHandles
         /\ \A h \in AllHandles : h # NoHandle
  BY NoHandleAssumption DEF HandlesTypeOK, AllHandles, Owners

LEMMA ToldIsPlaysAsTold ==
  ASSUME HandlesTypeOK
  PROVE  /\ PlaysAsTold => \A o \in Devices : o \in exists /\ handle[o] # NoHandle => Told(handle[o])
         /\ (\A o \in Devices : o \in exists /\ handle[o] # NoHandle => Told(handle[o])) => PlaysAsTold
  BY OwnKind DEF PlaysAsTold, Told, Holder, running, paused, HandlesTypeOK, PcmStates

LEMMA HandlesInitInv == HandlesInit => HandlesInv
<1> SUFFICES ASSUME HandlesInit PROVE HandlesInv
  OBVIOUS
<1>1. HandlesTypeOK
  BY DEF HandlesInit, HandlesTypeOK, Owners, AllHandles, PcmStates
<1>2. HandlesOwned /\ LeakedStay
  BY DEF HandlesInit, HandlesOwned, LeakedStay, Owners
<1>3. PlaysAsTold
  BY DEF HandlesInit, PlaysAsTold, Holder
<1> QED
  BY <1>1, <1>2, <1>3 DEF HandlesInv

(* A new object gets a fresh handle, or nobody does. *)
LEMMA OpensOwned ==
  ASSUME HandlesInv, NEW o \in Owners, NEW h \in AllHandles, NEW throws \in BOOLEAN, Opens(o, h, throws)
  PROVE  HandlesOwned' /\ LeakedStay'
<1> USE NoHandleAssumption DEF HandlesInv, HandlesTypeOK, Opens
<1>0. \A a \in Owners : handle[a] # h
  BY OwnKind DEF HandlesOwned
<1>1. CASE throws
  BY <1>0, <1>1 DEF HandlesOwned, LeakedStay, AllHandles
<1>2. CASE ~throws
  <2>0. h \notin leaked /\ handle[o] = NoHandle /\ h # NoHandle
    BY <1>2 DEF LeakedStay, HandlesOwned, AllHandles
  <2>1. HandlesOwned'
    BY <1>0, <1>2, <2>0 DEF HandlesOwned, AllHandles
  <2>2. LeakedStay'
    BY <1>0, <1>2, <2>0 DEF LeakedStay, AllHandles
  <2> QED
    BY <2>1, <2>2
<1> QED
  BY <1>1, <1>2

(* Closing ends the ownership and the handle together. *)
LEMMA ShutsOwned ==
  ASSUME HandlesInv, NEW o \in Owners, o \in exists, Shuts(o), leaked' = leaked,
         exists' = exists \/ exists' = exists \ {o}
  PROVE  HandlesOwned' /\ LeakedStay'
<1> USE NoHandleAssumption DEF HandlesInv, HandlesTypeOK, Shuts
<1>1. CASE handle[o] = NoHandle
  <2>1. handle' = handle /\ status' = status
    BY <1>1 DEF AllHandles
  <2> QED
    BY <1>1, <2>1 DEF HandlesOwned, LeakedStay
<1>2. CASE handle[o] # NoHandle
  <2>0. /\ handle[o] \in AllHandles /\ handle[o] \notin leaked
        /\ \A a \in Owners \ {o} : handle[a] # handle[o]
    BY <1>2 DEF HandlesOwned, LeakedStay
  <2>1. HandlesOwned'
    BY <1>2, <2>0 DEF HandlesOwned, AllHandles
  <2>2. LeakedStay'
    BY <1>2, <2>0 DEF LeakedStay, AllHandles
  <2> QED
    BY <2>1, <2>2
<1> QED
  BY <1>1, <1>2

(* An exchange permutes the handles of its two objects. *)
LEMMA ExchangesOwned ==
  ASSUME HandlesInv, NEW a \in Owners, NEW b \in Owners, Exchanges(a, b)
  PROVE  HandlesOwned' /\ LeakedStay'
<1> USE NoHandleAssumption DEF HandlesInv, HandlesTypeOK, Exchanges
<1> DEFINE other(o) == IF o = a THEN b ELSE IF o = b THEN a ELSE o
<1>1. \A o \in Owners : other(o) \in Owners /\ handle'[o] = handle[other(o)]
  OBVIOUS
<1>2. \A o, p \in Owners : other(o) = other(p) => o = p
  OBVIOUS
<1>3. \A o \in Owners : other(other(o)) = o
  OBVIOUS
<1>4. \A o \in Owners : other(o) \in exists => o \in exists'
  OBVIOUS
<1>5. \A h \in AllHandles : (\E o \in Owners : handle[o] = h) => \E o \in Owners : handle'[o] = h
  BY <1>1, <1>3
<1> HIDE DEF other
<1>6. \A o \in Owners : handle'[o] # NoHandle =>
        /\ o \in exists' /\ status[handle'[o]] = "open"
        /\ \A p \in Owners : handle'[p] = handle'[o] => p = o
  BY <1>1, <1>2, <1>4 DEF HandlesOwned
<1>7. HandlesOwned'
  BY <1>5, <1>6 DEF HandlesOwned
<1>8. LeakedStay'
  BY <1>1 DEF LeakedStay
<1> QED
  BY <1>7, <1>8

(* When the streams and promises of all handles that stay with an object   *)
(* are as before, a device is in the state it was told. *)
LEMMA ToldStays ==
  ASSUME HandlesInv, HandlesTypeOK',
         \A o \in Devices : handle'[o] # NoHandle => \E p \in Devices : handle[p] = handle'[o],
         \A h \in PcmHandles : (\E p \in Devices : handle[p] = h) =>
           pcm'[h] = pcm[h] /\ answer'[h] = answer[h]
  PROVE  PlaysAsTold'
<1>1. \A o \in Devices : handle[o] # NoHandle => handle[o] \in PcmHandles /\ Told(handle[o])
  BY OwnKind, ToldIsPlaysAsTold DEF HandlesInv, HandlesOwned, Owners
<1>2. \A h \in PcmHandles : (\E o \in Devices : handle'[o] = h) => Told(h)'
  BY <1>1, NoHandleAssumption DEF Told
<1>3. \A o \in Devices : handle'[o] # NoHandle => handle'[o] \in PcmHandles
  BY <1>1
<1> QED
  BY <1>2, <1>3 DEF PlaysAsTold, Told, Holder, running, paused

(* A call of libasound on the stream of one device. *)
LEMMA StreamChanges ==
  ASSUME HandlesInv, NEW o \in Devices, Holder(o), UNCHANGED <<exists, handle, status, leaked>>,
         NEW s \in PcmStates \ {"xrun"},
         pcm' = [pcm EXCEPT ![handle[o]] = s], answer' = [answer EXCEPT ![handle[o]] = s]
  PROVE  HandlesInv'
<1> USE DEF HandlesInv
<1>1. handle[o] \in PcmHandles
  BY OwnKind DEF Holder
<1>2. HandlesTypeOK'
  BY <1>1 DEF HandlesTypeOK, PcmStates
<1>3. HandlesOwned' /\ LeakedStay'
  BY DEF HandlesOwned, LeakedStay
<1>4. \A p \in Devices : handle[p] # NoHandle => Told(handle[p])
  BY ToldIsPlaysAsTold DEF HandlesOwned, Owners
<1>5. \A p \in Devices : handle[p] # NoHandle => handle[p] \in PcmHandles
  BY OwnKind
<1>6. \A h \in PcmHandles : Told(h) => Told(h)'
  BY <1>1 DEF Told, HandlesTypeOK, PcmStates
<1>7. PlaysAsTold'
  BY <1>4, <1>5, <1>6 DEF PlaysAsTold, Told, Holder, running, paused
<1> QED
  BY <1>2, <1>3, <1>7

LEMMA HandlesStepInv == HandlesInv /\ [HandlesNext]_handle_vars => HandlesInv'
<1> SUFFICES ASSUME HandlesInv, [HandlesNext]_handle_vars PROVE HandlesInv'
  OBVIOUS
<1> USE DEF HandlesInv
<1>1. ASSUME NEW o \in Owners, DefaultConstructs(o) PROVE HandlesInv'
  <2>0. handle[o] = NoHandle /\ handle' = handle
    BY <1>1 DEF DefaultConstructs, HandlesOwned, HandlesTypeOK
  <2>1. HandlesTypeOK'
    BY <1>1, <2>0 DEF DefaultConstructs, HandlesTypeOK
  <2>2. HandlesOwned' /\ LeakedStay'
    BY <1>1, <2>0 DEF DefaultConstructs, HandlesOwned, LeakedStay
  <2>3. PlaysAsTold'
    BY <1>1, <2>0, <2>1, ToldStays DEF DefaultConstructs
  <2> QED
    BY <2>1, <2>2, <2>3
<1>2. ASSUME NEW o \in Owners, Destructs(o) \/ (o \in exists /\ Shuts(o) /\ UNCHANGED <<exists, pcm, answer, leaked>>)
      PROVE  HandlesInv'
  <2>1. HandlesTypeOK'
    BY <1>2 DEF Destructs, Shuts, HandlesTypeOK, AllHandles, Owners
  <2>2. HandlesOwned' /\ LeakedStay'
    BY <1>2, ShutsOwned DEF Destructs
  <2>3. PlaysAsTold'
    BY <1>2, <2>1, ToldStays DEF Destructs, Shuts, HandlesTypeOK, Owners
  <2> QED
    BY <2>1, <2>2, <2>3
<1>3. ASSUME NEW o \in Conns, NEW h \in LdapHandles, NEW start_tls \in BOOLEAN, NEW throws \in BOOLEAN,
             ConnectionOpens(o, h, start_tls, throws)
      PROVE  HandlesInv'
  <2>0. o \in Owners /\ h \in AllHandles
    BY DEF Owners, AllHandles
  <2>1. HandlesTypeOK'
    BY <1>3, <2>0, NoHandleAssumption DEF ConnectionOpens, Opens, HandlesTypeOK, AllHandles, Owners
  <2>2. HandlesOwned' /\ LeakedStay'
    BY <1>3, <2>0, OpensOwned DEF ConnectionOpens
  <2>3. PlaysAsTold'
    BY <1>3, <2>1, ToldStays, NoHandleAssumption DEF ConnectionOpens, Opens, HandlesTypeOK, Owners
  <2> QED
    BY <2>1, <2>2, <2>3
<1>4. ASSUME NEW o \in Devices, NEW h \in PcmHandles, NEW throws \in BOOLEAN, DeviceOpens(o, h, throws)
      PROVE  HandlesInv'
  <2>0. o \in Owners /\ h \in AllHandles
    BY DEF Owners, AllHandles
  <2>1. HandlesTypeOK'
    BY <1>4, <2>0, NoHandleAssumption DEF DeviceOpens, Opens, HandlesTypeOK, AllHandles, PcmStates, Owners
  <2>2. HandlesOwned' /\ LeakedStay'
    BY <1>4, <2>0, OpensOwned DEF DeviceOpens
  <2>3. \A p \in Devices : handle[p] # NoHandle => handle[p] \in PcmHandles \ {h} /\ Told(handle[p])
    BY <1>4, OwnKind, ToldIsPlaysAsTold DEF DeviceOpens, Opens, HandlesOwned, Owners
  <2>4. /\ \A k \in PcmHandles \ {h} : Told(k) => Told(k)'
        /\ ~throws => Told(h)'
    BY <1>4 DEF DeviceOpens, Told, HandlesTypeOK, PcmStates
  <2>5. \A p \in Devices : handle'[p] = handle[p] \/ (~throws /\ handle'[p] = h)
    <3>1. CASE throws
      BY <1>4, <3>1 DEF DeviceOpens, Opens
    <3>2. CASE ~throws
      BY <1>4, <3>2 DEF DeviceOpens, Opens, HandlesTypeOK, Owners
    <3> QED
      BY <3>1, <3>2
  <2>6. PlaysAsTold'
    BY <2>3, <2>4, <2>5 DEF PlaysAsTold, Told, Holder, running, paused
  <2> QED
    BY <2>1, <2>2, <2>6
<1>5. ASSUME NEW a \in Owners, NEW b \in Owners, {a, b} \subseteq Conns \/ {a, b} \subseteq Devices,
             Exchanges(a, b)
      PROVE  HandlesInv'
  <2>1. HandlesTypeOK'
    BY <1>5, NoHandleAssumption DEF Exchanges, HandlesTypeOK, Owners
  <2>2. HandlesOwned' /\ LeakedStay'
    BY <1>5, ExchangesOwned
  <2>3. PlaysAsTold'
    BY <1>5, <2>1, ToldStays, NoHandleAssumption DEF Exchanges, HandlesTypeOK, Owners
  <2> QED
    BY <2>1, <2>2, <2>3
<1>6. ASSUME NEW o \in Devices, NEW fails \in {"none", "prepare", "start"}, DeviceRuns(o, fails)
      PROVE  HandlesInv'
  <2> DEFINE h == handle[o]
             prepared == Prepares(pcm[h]) = "prepared" /\ fails # "prepare"
             runs == prepared /\ fails # "start"
  <2>0. h \in PcmHandles
    BY <1>6, OwnKind DEF DeviceRuns, Holder
  <2>1. CASE runs
    BY <1>6, <2>1, StreamChanges DEF DeviceRuns, PcmStates
  <2>2. CASE prepared /\ ~runs
    BY <1>6, <2>2, StreamChanges DEF DeviceRuns, PcmStates
  <2>3. CASE ~prepared
    <3>1. pcm' = pcm /\ answer' = answer
      BY <1>6, <2>0, <2>3 DEF DeviceRuns, HandlesTypeOK
    <3> QED
      BY <1>6, <3>1 DEF DeviceRuns, HandlesTypeOK, HandlesOwned, LeakedStay, PlaysAsTold, Holder,
                        running, paused
  <2> QED
    BY <2>1, <2>2, <2>3
<1>7. ASSUME NEW o \in Devices,
             DeviceStops(o) \/ DevicePauses(o) \/ DeviceUnpauses(o) \/ DeviceRecovers(o)
      PROVE  HandlesInv'
  <2>1. PICK s \in PcmStates \ {"xrun"} : \E from : DeviceChanges(o, from, s)
    BY <1>7 DEF DeviceStops, DevicePauses, DeviceUnpauses, DeviceRecovers, PcmStates
  <2> QED
    BY <2>1, StreamChanges DEF DeviceChanges
<1>8. ASSUME NEW h \in PcmHandles, Underrun(h) PROVE HandlesInv'
  <2>1. HandlesTypeOK'
    BY <1>8 DEF Underrun, HandlesTypeOK, PcmStates
  <2>2. HandlesOwned' /\ LeakedStay'
    BY <1>8 DEF Underrun, HandlesOwned, LeakedStay
  <2>3. PlaysAsTold'
    BY <1>8, OwnKind DEF Underrun, PlaysAsTold, Holder, running, paused, HandlesTypeOK, PcmStates
  <2> QED
    BY <2>1, <2>2, <2>3
<1>9. CASE UNCHANGED handle_vars
  BY <1>9 DEF handle_vars, HandlesTypeOK, HandlesOwned, LeakedStay, PlaysAsTold, Holder, running, paused
<1> QED
  BY <1>1, <1>2, <1>3, <1>4, <1>5, <1>6, <1>7, <1>8, <1>9
     DEF HandlesNext, ConnectionCloses, DeviceCloses, Owners

(* A handle belongs to one object and is open as long as it does, and a    *)
(* device is in the state its last call promised.                          *)
THEOREM DevicesAreKept == HandlesSpec => []DevicesKept
<1>1. HandlesInv => DevicesKept
  BY DEF HandlesInv, DevicesKept
<1> QED
  BY HandlesInitInv, HandlesStepInv, <1>1, PTL DEF HandlesSpec

----------------------------------------------------------------------------
(* The types of a stream's messages and of a scan, besides LogInv and      *)
(* ScanInv.                                                                *)
LogBounds == opened \in Streams \cup {Program} /\ writes \in 0 .. MaxWrites

LEMMA LogTyped == LogInv /\ LogBounds => LogTypeOK
BY DEF LogInv, LogShape, LogCurrent, LogBounds, LogTypeOK

LEMMA LogBoundsStep == LogInv /\ LogBounds /\ [LogNext]_log_vars => LogBounds'
BY MaxWritesAssumption
   DEF LogBounds, LogNext, log_vars, LogConstruct, LogDestroy, Write, SetLevel, Sync

ScanBounds ==
  /\ statics.filter \subseteq Entries /\ statics.compare \in Orders \cup {"none"}
  /\ Len(scans) <= MaxDepth /\ started \in 0 .. MaxScans

LEMMA ScanTyped == ScanInv /\ ScanBounds => ScanTypeOK
<1> SUFFICES ASSUME ScanInv, ScanBounds PROVE ScanTypeOK
  OBVIOUS
<1>1. scans \in Seq(Scan) /\ \A i \in 1 .. Len(scans) : Good(scans[i])
  BY DEF ScanInv, Nested
<1>2. ASSUME NEW i \in DOMAIN scans
      PROVE  scans[i].left \subseteq Entries /\ scans[i].kept \subseteq Entries \ scans[i].left
  <2>1. i \in 1 .. Len(scans) /\ scans[i] \in Scan
    BY <1>1, LenProperties, ElementOfSeq
  <2> QED
    BY <1>1, <2>1 DEF Scan, Good
<1> QED
  BY <1>2 DEF ScanBounds, ScanTypeOK

LEMMA ScanBoundsStep == ScanInv /\ ScanBounds /\ [ScanNext]_scan_vars => ScanBounds'
<1> SUFFICES ASSUME ScanInv, ScanBounds, [ScanNext]_scan_vars PROVE ScanBounds'
  OBVIOUS
<1> USE ScansAssumption DEF ScanBounds
<1>0. scans \in Seq(Scan) /\ Len(scans) \in Nat /\ (scans # <<>> => Len(scans) > 0)
  BY LenProperties, EmptySeq DEF ScanInv, Nested
<1>1. ASSUME NEW s PROVE Len(SetTop(s)) = Len(scans)
  <2> DEFINE S == Scan \cup {s}
  <2>1. scans \in Seq(S) /\ s \in S
    BY <1>0
  <2> HIDE DEF S
  <2>2. CASE scans = <<>>
    <3>1. SetTop(s) = scans
      BY <2>2 DEF SetTop
    <3> QED
      BY <3>1
  <2>3. CASE scans # <<>>
    <3>1. Len(scans) \in 1 .. Len(scans)
      BY <1>0, <2>3
    <3> QED
      BY <2>1, <3>1, ExceptSeq DEF SetTop
  <2> QED
    BY <2>2, <2>3
<1>2. ASSUME NEW verdict \in BOOLEAN, scans # <<>> PROVE Len(Popped(verdict)) <= Len(scans)
  <2>1. CASE Len(scans) = 1
    <3>1. Popped(verdict) = <<>>
      BY <2>1 DEF Popped
    <3> QED
      BY <2>1, <3>1
  <2>2. CASE Len(scans) # 1
    <3> DEFINE n == Len(scans)
               outer == scans[n - 1]
               s == [outer EXCEPT !.kept = IF outer.at # NoEntry /\ verdict THEN @ \cup {outer.at} ELSE @]
               S == Scan \cup {s}
               front == SubSeq(scans, 1, n - 2)
    <3>1. n - 2 \in 0 .. n /\ 1 \in 1 .. n + 1 /\ n - 2 <= n /\ (n - 2) + 1 <= n
      <4>1. n \in Nat /\ n > 0 /\ n # 1
        BY <1>0, <1>2, <2>2
      <4> HIDE DEF n
      <4> QED
        BY <4>1
    <3>2. Popped(verdict) = Append(front, s)
      BY <2>2 DEF Popped
    <3>3. scans \in Seq(S) /\ s \in S
      BY <1>0
    <3> HIDE DEF S, s, n
    <3>4. front \in Seq(S) /\ Len(front) = IF 1 <= n - 2 THEN (n - 2) - 1 + 1 ELSE 0
      BY <3>1, <3>3, Part DEF n
    <3> HIDE DEF front
    <3>5. Len(Append(front, s)) = Len(front) + 1
      BY <3>3, <3>4, AppendProperties
    <3> QED
      BY <1>0, <1>2, <2>2, <3>1, <3>2, <3>4, <3>5 DEF n
  <2> QED
    BY <2>1, <2>2
<1>3. ASSUME NEW f \in Filters, NEW c \in Orders, NEW e \in Entries \cup {NoEntry}, Get(f, c, e)
      PROVE  ScanBounds'
  <2>1. /\ Len(scans) < MaxDepth /\ started < MaxScans
        /\ statics' = [filter |-> f, compare |-> c]
        /\ scans' = Append(Outer(e), Asked(f, c)) /\ started' = started + 1
    BY <1>3 DEF Get
  <2>2. f \subseteq Entries
    BY FiltersAssumption
  <2> DEFINE top == [Top EXCEPT !.left = @ \ {e}, !.at = e, !.disturbed = TRUE,
                                !.late = IF e = NoEntry THEN @ ELSE @ \cup {e}]
             S == Scan \cup {top, Asked(f, c)}
  <2>3. Outer(e) \in {scans, SetTop(top)}
    BY DEF Outer
  <2>4. scans \in Seq(S) /\ top \in S /\ Asked(f, c) \in S
    BY <1>0
  <2> HIDE DEF S, top
  <2>5. Outer(e) \in Seq(S) /\ Len(Outer(e)) = Len(scans)
    <3>1. scans # <<>> => SetTop(top) \in Seq(S)
      <4> SUFFICES ASSUME scans # <<>> PROVE SetTop(top) \in Seq(S)
        OBVIOUS
      <4>1. Len(scans) \in 1 .. Len(scans)
        BY <1>0
      <4> QED
        BY <2>4, <4>1, ExceptSeq DEF SetTop
    <3>2. scans = <<>> => Outer(e) = scans
      BY DEF Outer
    <3> QED
      BY <1>1, <2>3, <2>4, <3>1, <3>2
  <2>6. Len(scans') = Len(scans) + 1
    BY <2>1, <2>4, <2>5, AppendProperties
  <2>7. statics'.filter = f /\ statics'.compare = c
    BY <2>1
  <2> QED
    BY <1>0, <2>1, <2>2, <2>6, <2>7
<1>4. ASSUME NEW e \in Entries, FilterNext(e) PROVE ScanBounds'
  BY <1>1, <1>4 DEF FilterNext
<1>5. ASSUME NEW verdict \in BOOLEAN, Return(verdict) PROVE ScanBounds'
  BY <1>0, <1>2, <1>5 DEF Return
<1>6. ASSUME NEW caught \in BOOLEAN, NEW verdict \in BOOLEAN, ScanFails(caught, verdict) PROVE ScanBounds'
  BY <1>0, <1>2, <1>6 DEF ScanFails
<1>7. CASE UNCHANGED scan_vars
  BY <1>7 DEF scan_vars
<1> QED
  BY <1>3, <1>4, <1>5, <1>6, <1>7 DEF ScanNext

----------------------------------------------------------------------------
(* Program: a call that has returned has its result, and the inductive     *)
(* invariants of the parts hold side by side.                              *)
CallsInv ==
  /\ returned \in BOOLEAN
  /\ IF part = "calls" THEN Asking /\ Answered ELSE call = NoCall /\ returned = FALSE

ProgramInv ==
  /\ part \in Parts /\ CallsInv
  /\ IdsInv /\ HandlesInv
  /\ LogInv /\ LogBounds
  /\ ScanInv /\ ScanBounds

LEMMA ProgramInitInv == ProgramInit => ProgramInv
<1> SUFFICES ASSUME ProgramInit PROVE ProgramInv
  OBVIOUS
<1>1. CallsInv
  BY DEF ProgramInit, CallsInv, Init, Asking, Answered
<1>2. LogBounds
  BY MaxWritesAssumption DEF ProgramInit, LogInit, LogBounds
<1>3. ScanBounds
  BY ScansAssumption DEF ProgramInit, ScanInit, ScanBounds, Nothing
<1> QED
  BY <1>1, <1>2, <1>3, IdsInitInv, HandlesInitInv, LogInitInv, ScanInitInv DEF ProgramInit, ProgramInv

LEMMA ProgramStepInv == ProgramInv /\ [ProgramNext]_program_vars => ProgramInv'
<1> SUFFICES ASSUME ProgramInv, [ProgramNext]_program_vars PROVE ProgramInv'
  OBVIOUS
<1>1. /\ part' = part
      /\ [IdsNext]_ids /\ [HandlesNext]_handle_vars /\ [LogNext]_log_vars /\ [ScanNext]_scan_vars
      /\ (part = "calls" /\ Next) \/ UNCHANGED call_vars
  BY DEF ProgramNext, program_vars, Calling, Morphing, Scanning, Logging, Holding
<1>2. IdsInv' /\ HandlesInv' /\ LogInv' /\ ScanInv'
  BY <1>1, IdsStepInv, HandlesStepInv, LogStepInv, ScanStepInv DEF ProgramInv
<1>3. LogBounds' /\ ScanBounds'
  BY <1>1, LogBoundsStep, ScanBoundsStep DEF ProgramInv
<1>4. CallsInv'
  <2>1. CASE part = "calls" /\ Next
    BY <1>1, <2>1 DEF ProgramInv, CallsInv, Next, Asking, Answered
  <2>2. CASE UNCHANGED call_vars
    BY <1>1, <2>2 DEF ProgramInv, CallsInv, call_vars, Asking, Answered
  <2> QED
    BY <1>1, <2>1, <2>2
<1> QED
  BY <1>1, <1>2, <1>3, <1>4 DEF ProgramInv

LEMMA ProgramInvariant == ProgramSpec => []ProgramInv
BY ProgramInitInv, ProgramStepInv, PTL DEF ProgramSpec

(* All of the program's variables are of their types. *)
THEOREM ProgramTyped == ProgramSpec => []TypeOK
<1>1. ProgramInv => TypeOK
  BY LogTyped, ScanTyped DEF ProgramInv, TypeOK, CallsInv, IdsInv, HandlesInv
<1> QED
  BY ProgramInvariant, <1>1, PTL

(* Conjunction, disjunction and negation are the minimum, the maximum and  *)
(* the exchange of the two, in every mixture of operands.                  *)
THEOREM LogicIsKleenes == ProgramSpec => []KleeneLogic
<1>1. ProgramInv => KleeneLogic
  BY KleeneHolds DEF ProgramInv, CallsInv, KleeneLogic, Returned
<1> QED
  BY ProgramInvariant, <1>1, PTL

(* Sockets, files, lines, devices and streams of descriptors keep whoever  *)
(* reads waiting, give him data or an error, when they should.             *)
THEOREM ReadersAreTold == ProgramSpec => []ReadsTell
<1>1. ProgramInv => ReadsTell
  <2>1. CASE returned
    BY <2>1, ReadingTells DEF ProgramInv, CallsInv
  <2>2. CASE ~returned
    BY <2>2 DEF ReadsTell, WaitHonoured, LinesWhole, PollTells, StreamAsAsked, Returned
  <2> QED
    BY <2>1, <2>2
<1> QED
  BY ProgramInvariant, <1>1, PTL

(* A wait status, the memory of a module, a text that is a number or a     *)
(* truth value, an environment, an optional and an address come out as     *)
(* they were meant, whatever the widths and however long they are.         *)
THEOREM InputsAreDecoded == ProgramSpec => []Decodes
<1>1. ProgramInv => Decodes
  <2>1. CASE returned
    BY <2>1, DecodesHold DEF ProgramInv, CallsInv
  <2>2. CASE ~returned
    BY <2>2 DEF Decodes, ExecuteTells, InputsApart, NumbersRead, EnvironSame, OptionalHolds, Returned
  <2> QED
    BY <2>1, <2>2
<1> QED
  BY ProgramInvariant, <1>1, PTL

(* The options of the program are counted and their arguments assigned as  *)
(* they were given, up to what is refused, whatever options there are and  *)
(* however many arguments.                                                 *)
THEOREM OptionsAreParsed == ProgramSpec => []ParseTells
<1>1. ProgramInv => ParseTells
  <2>1. CASE returned
    BY <2>1, ParsingTells DEF ProgramInv, CallsInv
  <2>2. CASE ~returned
    BY Zenon, <2>2 DEF ParseTells, Returned
  <2> QED
    BY <2>1, <2>2
<1> QED
  BY ProgramInvariant, <1>1, PTL

(* A search, a modification and the value of an attribute are what was     *)
(* asked for, however many entries, changes and values there are.          *)
THEOREM DirectoryIsFaithful == ProgramSpec => []LdapFaithful
<1>1. ProgramInv => LdapFaithful
  <2>1. CASE returned
    BY <2>1, LdapHolds DEF ProgramInv, CallsInv
  <2>2. CASE ~returned
    BY <2>2 DEF LdapFaithful, SearchOrdered, Returned
  <2> QED
    BY <2>1, <2>2
<1> QED
  BY ProgramInvariant, <1>1, PTL

(* What is proved above of the parts as specifications of their own holds  *)
(* of the program: identity, log, scans and devices.                       *)
THEOREM PartsAreKept == ProgramSpec => [](IdentityWhole /\ LogTells /\ ScanAsAsked /\ DevicesKept)
<1>1. ProgramInv => IdentityWhole /\ LogTells /\ ScanAsAsked /\ DevicesKept
  BY DEF ProgramInv, IdsInv, LogInv, ScanInv, HandlesInv, DevicesKept
<1> QED
  BY ProgramInvariant, <1>1, PTL
=============================================================================
