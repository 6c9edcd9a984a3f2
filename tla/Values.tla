------------------------------- MODULE Values ------------------------------
(***************************************************************************)
(* The pure functions of the library: a call is chosen, the code's         *)
(* definition is evaluated, and the result is compared with what it is     *)
(* meant to be.  Every behaviour is one call.                              *)
(***************************************************************************)
EXTENDS Tern, ExitStatus, HeiInput, Transfer, Options

X == INSTANCE Xml
L == INSTANCE Slap
C == INSTANCE Convert
E == INSTANCE Environ
O == INSTANCE Optional
F == INSTANCE Filebuf

CONSTANTS
  Inputs,   \* discrete inputs of a HEI module
  Offsets,  \* where its input memory starts
  MaxInput, \* longest input read by lines
  MaxArgs,  \* most arguments of the program
  MaxText,  \* most pieces of an XML document, and characters of a number
  MaxSteps, \* most entries of a search, changes of an entry or steps
  MaxInt    \* the largest int: 2^31 - 1 in the code

ASSUME MaxInputAssumption == {MaxInput, MaxArgs, MaxText, MaxSteps, MaxInt} \subseteq Nat
(* The module has eight bytes of inputs, at addresses that are unsigned. *)
ASSUME InputsAssumption == Inputs \subseteq 1 .. 64 /\ Offsets \subseteq 0 .. MaxUnsigned - 7

VARIABLES
  call,     \* the function and its arguments
  returned, \* the call is over
  result    \* what it returned

(* The operators of tern are the overloads: one operand at least is a tern. *)
ReadingCalls ==
  {c \in [fn : {"and", "or"}, x : Operands, y : Operands] : "tern" \in {c.x.type, c.y.type}}
    \cup [fn : {"execute"}, how : Endings]
    \cup [fn : {"read_input"}, on : {{i} : i \in Inputs}, offset : Offsets, input : Inputs]
    \cup [fn : {"recv_from"}, s : States, nonblocking : BOOLEAN, wait : BOOLEAN]
    \cup [fn : {"read"}, asked : States, s : States, nonblocking : BOOLEAN, wait : BOOLEAN]
    \cup [fn : {"can_read"}, fds : BoundedSeq({"quiet", "in", "out", "err"}, MaxSteps) \ {<<>>},
          x : -3 .. 2]
    \cup [fn : {"filebuf"}, access : F!Accesses, mode : SUBSET F!Flags]
    \cup [fn : {"lines"}, input : BoundedSeq({"c", "nl"}, MaxInput)]
    \cup [fn : {"parse"}, args : BoundedSeq(Tokens, MaxArgs)]

(* Entries of a directory: what the server sends for the i-th one is its   *)
(* dn, the key the caller orders by, and the values of its attributes.     *)
SentEntries == [dn : {0}, key : 1 .. 2, values : {<< <<"7">>, <<>> >>, << <<>>, <<"7", "word">> >>}]
Changes ==
  {a \in [name : L!Names, operation : L!Operations, values : {<<>>, <<"7">>, <<"word">>}] :
     a.operation = "add" => a.values # <<>>}
Attributes == [name : {1}, operation : {"add"}, values : BoundedSeq(L!LdapValues, 2)]
Held == <<{"7"}, {}>>

(* The strings of an environment, and the names and values of an object.   *)
EnvStrings == { <<"A", "=", "v">>, <<"A", "=", "w">>, <<"B", "=", "=">>, <<"B", "=">>, <<"A">>,
                <<"=", "v">> }
EnvNames == { <<"A">>, <<"B">>, <<"B", "=">>, <<"A", "nul">> }
EnvValues == { <<"v">>, <<"=">>, <<"v", "nul", "w">> }

DataCalls ==
  [fn : {"xml"}, pieces : BoundedSeq(X!Pieces, MaxText)]
    \cup [fn : {"search"}, sent : BoundedSeq(SentEntries, MaxSteps), order : {"none", "le", "lt"},
          names : SUBSET L!Names, get_value : BOOLEAN]
    \cup [fn : {"add"}, changes : BoundedSeq(Changes, MaxSteps)]
    \cup [fn : {"modify"}, changes : BoundedSeq(Changes, MaxSteps)]
    \cup [fn : {"attribute"}, entry : {{}} \cup {{a} : a \in Attributes}, n : 0 .. 2,
          type : {"bool", "int", "string"}]
    \cup [fn : {"to_int"}, source : BoundedSeq(C!Chars, MaxText), base : {0, 8, 10, 16},
          signed : BOOLEAN]
    \cup [fn : {"to_bool"}, source : BoundedSeq(C!Chars, MaxText) \cup C!Truths, text : BOOLEAN]
    \cup [fn : {"arguments"}, args : BoundedSeq(EnvValues, MaxSteps), prepend : EnvValues]
    \cup [fn : {"from_charpp"}, envp : BoundedSeq(EnvStrings, MaxSteps), name : EnvNames]
    \cup [fn : {"setenv", "unsetenv"}, envp : BoundedSeq(EnvStrings, MaxSteps), name : EnvNames,
          value : EnvValues, over : BOOLEAN]
    \cup [fn : {"to_charpp"}, env : UNION {[D -> EnvValues] : D \in SUBSET EnvNames}]
    \cup [fn : {"optional"}, steps : BoundedSeq(O!OptionalSteps, MaxSteps)]
    \cup [fn : {"address"}, host : {0, 258, 256 * 256 * 5, C!loopback}]

Evaluate(c) ==
  CASE c.fn = "and" -> And(c.x, c.y)
    [] c.fn = "or"  -> Or(c.x, c.y)
    [] c.fn = "execute" -> execute(system(c.how))
    [] c.fn = "read_input" ->
         read_input(Packed(c.on, c.offset, 8), c.offset, c.input)
    [] c.fn = "recv_from" -> recv_from(c.s, c.nonblocking, c.wait)
    [] c.fn = "read" -> read(c.asked, c.s, c.nonblocking, c.wait)
    [] c.fn = "can_read" -> can_poll(c.fds, c.x)
    [] c.fn = "filebuf" -> F!open(c.access, c.mode)
    [] c.fn = "lines" -> Lines(c.input)
    [] c.fn = "parse" -> parse(Fresh, c.args)
    [] c.fn = "xml" -> X!parse(FlattenSeq([i \in DOMAIN c.pieces |-> c.pieces[i].text]))
    [] c.fn = "search" ->
         L!search([i \in DOMAIN c.sent |-> [c.sent[i] EXCEPT !.dn = i]], c.order, c.names, c.get_value)
    [] c.fn = "add" -> L!add(FoldLeft(L!insert, {}, c.changes))
    [] c.fn = "modify" -> L!modify(Held, FoldLeft(L!insert, {}, c.changes))
    [] c.fn = "attribute" ->
         [to |-> L!attribute_to(c.entry, 1, c.n, c.type),
          optional |-> L!attribute_to_optional(c.entry, 1, c.n, c.type),
          get |-> L!attribute_get(c.entry, 1, c.n, c.type)]
    [] c.fn = "to_int" -> C!to_int(c.source, c.base, c.signed, MaxInt)
    [] c.fn = "to_bool" -> C!to_bool(c.source, c.text, MaxInt)
    [] c.fn = "arguments" -> E!arguments_to_charpp_prepend(c.prepend, c.args)
    [] c.fn = "from_charpp" -> [env |-> E!from_charpp(c.envp), one |-> E!get(c.envp, c.name)]
    [] c.fn = "setenv" -> E!this_insert(c.envp, c.name, c.value, c.over)
    [] c.fn = "unsetenv" -> E!this_erase(c.envp, c.name)
    [] c.fn = "to_charpp" -> E!to_charpp(c.env)
    [] c.fn = "optional" -> O!Ran(c.steps)
    [] c.fn = "address" -> C!address(c.host)

Init == call \in ReadingCalls \cup DataCalls /\ returned = FALSE /\ result = FALSE

Next ==
  /\ ~returned
  /\ result' = Evaluate(call) /\ returned' = TRUE
  /\ UNCHANGED call

Spec == Init /\ [][Next]_<<call, returned, result>>

----------------------------------------------------------------------------
Returned(fn) == returned /\ call.fn = fn

(* Conjunction and disjunction, in every mixture of tern, bool and         *)
(* uncertain, are the minimum and the maximum of their operands; negation  *)
(* exchanges the two.                                                      *)
KleeneLogic ==
  /\ Returned("and") => result = tern(Least(call.x.value, call.y.value))
  /\ Returned("or") => result = tern(Greatest(call.x.value, call.y.value))
  /\ (Returned("and") \/ Returned("or")) /\ {call.x.type, call.y.type} = {"tern"} =>
       Not(result) = Evaluate([fn |-> IF call.fn = "and" THEN "or" ELSE "and",
                               x |-> Not(call.x), y |-> Not(call.y)])

(* execute() reports how the command ended: its exit status or its signal, *)
(* with or without a core dump, and nothing else; it throws when there was *)
(* no child.  What it makes of a shell that could not be started is left   *)
(* to ShellMissing.                                                        *)
ExecuteTells ==
  Returned("execute") =>
    LET e == call.how IN
    CASE e.kind = "exit" -> result = [kind |-> "exit", n |-> e.n]
      [] e.kind \in {"signal", "core"} -> result = [kind |-> "term", n |-> e.n]
      [] e.kind = "no_child" -> result = Throws
      [] e.kind = "no_shell" -> TRUE

(* A shell that could not be started in the child is an error of its own   *)
(* (process.cpp:302, "Could not execute shell in the child process").      *)
ShellMissing == Returned("execute") /\ call.how.kind = "no_shell" => result = Throws

(* An input reads as on exactly when it is the one that is on: no input is *)
(* taken for its neighbour, across the bounds of a byte too.               *)
InputsApart == Returned("read_input") => (result <=> call.input \in call.on)

(* A number is what its digits denote, and fits: signed as it is, unsigned *)
(* also if it was given with a minus sign, modulo their number.  Written in *)
(* hexadecimal it can be read again unless it is negative.  A truth value  *)
(* is a number, 0 or 1, or one of two words, never the one for the other.  *)
NumbersRead ==
  /\ Returned("to_int") /\ result.is = "number" =>
       LET s == C!trim(call.source, C!Both)
           hex == C!to_base(call.source, 16, MaxInt)
       IN  /\ result.n \in IF call.signed THEN -(MaxInt + 1) .. MaxInt ELSE 0 .. C!Values(MaxInt) - 1
           /\ call.base \in {8, 10} =>
                result.n = IF call.signed THEN C!Denotes(s, call.base)
                                          ELSE (C!Denotes(s, call.base) + C!Values(MaxInt)) % C!Values(MaxInt)
           /\ call.signed /\ call.base = 0 =>
                (C!to_int(hex, 16, TRUE, MaxInt) = result <=> result.n >= 0)
  /\ Returned("to_bool") =>
       LET s == C!trim(call.source, C!Both)
           number == C!to_int(call.source, 10, TRUE, MaxInt)
       IN  IF call.text THEN result.is = "number" <=> s \in {<<"true">>, <<"false">>}
           ELSE result = IF number.n \in {0, 1} THEN number ELSE C!Failed

(* The environment as an object and as the program sees it agree on every  *)
(* name getenv can be asked for, where a name ends at its first NUL for    *)
(* the program; an object survives execve unless a name has an '=' or      *)
(* anything a NUL in it.  A program is given as many arguments as there    *)
(* are, whole unless there is a NUL in one.  What was inserted into the    *)
(* environment of the program, or was there and not to be replaced, is     *)
(* what get() finds when it is given the same name; erased it is gone,     *)
(* however often it was there; and what get() finds under every name that  *)
(* is another one up to its first NUL stays as it was.                     *)
EnvironSame ==
  /\ Returned("setenv") \/ Returned("unsetenv") =>
       LET n == E!strdup(call.name)
           old == E!get(call.envp, call.name)
           new == E!get(result.envp, call.name)
       IN  /\ result.threw <=> E!find_first_of(n) # 0
           /\ ~result.threw /\ call.fn = "setenv" =>
                new.found /\ new.value = IF old.found /\ ~call.over THEN old.value
                                                                ELSE E!strdup(call.value)
           /\ ~result.threw /\ call.fn = "unsetenv" => E!this_count(result.envp, call.name) = 0
           /\ \A m \in EnvNames : E!strdup(m) # n /\ E!find_first_of(E!strdup(m)) = 0 =>
                E!get(result.envp, m) = E!get(call.envp, m)
  /\ Returned("arguments") =>
       /\ Len(result) = Len(call.args) + 1
       /\ Tail(result) = call.args <=> \A i \in DOMAIN call.args : E!strdup(call.args[i]) = call.args[i]
  /\ Returned("from_charpp") =>
       /\ E!from_charpp(E!to_charpp(result.env)) = result.env
       /\ LET n == E!strdup(call.name)
          IN  E!find_first_of(n) = 0 =>
                /\ result.one.found <=> n \in DOMAIN result.env
                /\ result.one.found => result.one.value = result.env[n]
       /\ \A i \in DOMAIN call.envp :
            E!name(call.envp[i]) # E!Throws => E!name(call.envp[i]) \in DOMAIN result.env
  /\ Returned("to_charpp") =>
       LET whole(x) == E!strdup(x) = x
       IN  E!from_charpp(result) = call.env <=>
             \A x \in DOMAIN call.env : E!find_first_of(x) = 0 /\ whole(x) /\ whole(call.env[x])

(* What an optional holds is what was stored in it last, through any chain *)
(* of assignments, moves and swaps: it never shows an uninitialised value, *)
(* and two of them are equal when they hold the same or nothing.  One that *)
(* has been moved from is as full as before.                               *)
OptionalHolds ==
  Returned("optional") =>
    LET stored == O!StoredLast(call.steps)
    IN  /\ \A i \in 1 .. 2 : stored[i] = O!Shown(result[i])
        /\ O!equal(result[1], result[2]) <=> stored[1] = stored[2]

(* What the program is handed by others, a wait status, the memory of a    *)
(* module, a text, an environment, an address, comes out as it was meant.  *)
Decodes ==
  /\ ExecuteTells /\ InputsApart /\ NumbersRead /\ EnvironSame /\ OptionalHolds
  /\ Returned("address") =>
       /\ C!address_value(result) = call.host
       /\ result[1] = 127 <=> call.host = C!loopback

(* Parsing a document gives its elements, texts and attributes, or the     *)
(* first error in it; what is open at the end is closed there, which the   *)
(* parser does not call an error.  Written and read again it is the same,  *)
(* unless an attribute has a double quote.  validate() accepts only texts  *)
(* that begin with the '>' it is there to refuse (xml.cpp:45).             *)
XmlFaithful ==
  Returned("xml") =>
    LET document == X!Document(call.pieces)
        tree == X!CloseAll(document.stack)
    IN  /\ result.error = document.error
        /\ document.error = "none" =>
             /\ result.x = tree
             /\ X!Quotes[tree] \/ X!parse(X!to_string[tree]).x = tree
             /\ X!validates[tree] => \A text \in X!Contents[tree] : X!At(text, 1) = ">"

(* A search returns every entry once, in the order asked for, with the     *)
(* attributes that have values; entries the order does not tell apart stay *)
(* as the server sent them if it is not strict, and are turned round if it *)
(* is.  A modification is what the caller put into the entry, but for a    *)
(* second change of the same attribute, which is lost.  An attribute that  *)
(* is not there leaves a variable alone, and is none as an optional; a     *)
(* value that is not there is an error of the optional too.                *)
SearchOrdered ==
  Returned("search") =>
    /\ Len(result) = Len(call.sent)
    /\ L!EachOnce(call.sent, result)
    /\ \A i \in DOMAIN result :
         L!Whole(call.sent[result[i].dn], call.names, call.get_value, result[i])
    /\ L!Ordered(call.order, result)

LdapFaithful ==
  /\ SearchOrdered
  /\ Returned("modify") \/ Returned("add") =>
       LET first(i) == \A j \in 1 .. i - 1 : call.changes[j].name # call.changes[i].name
           kept == FlattenSeq([i \in DOMAIN call.changes |->
                                 IF first(i) THEN <<call.changes[i]>> ELSE <<>>])
       IN  IF call.fn = "modify" THEN result = L!InTurn(Held, kept)
           ELSE result = L!Refused \/ \A x \in L!Names :
                  result[x] = UNION {Range(kept[i].values) : i \in {j \in DOMAIN kept : kept[j].name = x}}
  /\ Returned("attribute") =>
       /\ result.get.is \in {"value", "unchanged"} /\ (result.get.is = "value" => result.get = result.to)
       /\ result.to # result.optional <=> call.entry = {}
       /\ \A a \in call.entry :
            L!get(a, call.n, call.type).is = "terminates" <=> call.n >= Len(a.values)

(* Without waiting a socket never keeps its caller and throws only what is *)
(* an error; with waiting a count of zero is the end, or an empty          *)
(* datagram.  The sender is given with every datagram, an empty one too.   *)
(* A file without waiting keeps its caller only if another process has     *)
(* taken what it saw.                                                      *)
WaitHonoured ==
  /\ Returned("recv_from") =>
       /\ ~call.wait => /\ result.got # Blocks
                        /\ result.got = Raises => call.s.is = "broken"
       /\ result.got = Count(0) /\ call.wait => call.s.is \in {"ended", "ready"}
       /\ result.from = "sender" <=> call.s.is = "ready"
  /\ Returned("read") /\ ~call.wait =>
       /\ result = Blocks => call.asked # call.s /\ ~call.nonblocking
       /\ result = Raises => call.s.is = "broken" \/ call.asked # call.s

(* Reading a file with getline until it returns false gives its lines:     *)
(* each followed by the delimiter, the last one perhaps not, they are the  *)
(* file again; empty lines are kept and none is added at the end.          *)
LinesWhole ==
  Returned("lines") =>
    LET terminated == FlattenSeq([i \in DOMAIN result |-> Append(result[i], "nl")])
    IN  call.input \in {terminated} \cup
          (IF result # <<>> /\ Last(result) # <<>> THEN {Front(terminated)} ELSE {})

(* Polling a device waits without end exactly if the time is negative, by  *)
(* less than a second too, and nothing happens.  It says that there is     *)
(* data only if there is, and throws only for a broken device or when the  *)
(* time is up; and it never misses what a descriptor has if they all have  *)
(* something.  The others are left to PollAsDocumented.                    *)
PollTells ==
  Returned("can_read") =>
    LET is(e) == \E i \in DOMAIN call.fds : call.fds[i] = e
        quiet == \A i \in DOMAIN call.fds : call.fds[i] = "quiet"
    IN  /\ result = "blocks" <=> quiet /\ call.x < 0
        /\ result = "true" => is("in")
        /\ result = "throws" => quiet \/ is("err")
        /\ ~is("quiet") =>
             result = IF is("err") THEN "throws" ELSE IF is("in") THEN "true" ELSE "false"

(* A poll with a time says whether data is available for reading, also     *)
(* when the time is up (alsa_device.hpp:282, "check if data is available   *)
(* for reading (capture)", "x timeout", "available/not").                  *)
PollAsDocumented ==
  Returned("can_read") /\ call.x >= 0 =>
    LET is(e) == \E i \in DOMAIN call.fds : call.fds[i] = e
    IN  ~is("err") => result = IF is("in") THEN "true" ELSE "false"

(* A stream that is open reads if it was asked to, writes if it was asked  *)
(* to and only appends if it was asked to; one that could not be opened on *)
(* the descriptor is returned like any other.                              *)
StreamAsAsked ==
  Returned("filebuf") =>
    LET md == F!get_mode(call.mode)
        may == F!Allows(call.access)
    IN  /\ result.returned <=> /\ call.mode \cap {"in", "out", "app"} # {}
                               /\ "trunc" \in call.mode => "out" \in call.mode /\ "app" \notin call.mode
        /\ result.returned =>
             /\ "read" \in F!Needs(md) <=> "in" \in call.mode
             /\ "write" \in F!Needs(md) <=> call.mode \cap {"out", "app"} # {}
             /\ md \in {"a", "a+"} <=> "app" \in call.mode
             /\ ~result.file => /\ call.access # "both"
                                /\ ~("in" \in call.mode => "read" \in may)
                                     \/ ~(call.mode \cap {"out", "app"} # {} => "write" \in may)

(* Whoever reads or writes is kept waiting, gets data or gets an error     *)
(* when he should, and gets all of the data.                               *)
ReadsTell == WaitHonoured /\ LinesWhole /\ PollTells /\ StreamAsAsked

(* Once parse() has returned, every option has been counted as often as it *)
(* was given, at most once if it is single, has its arguments in their     *)
(* order, and is found under its names; every argument was one it could    *)
(* convert.  A call that throws has taken the options in front of the one  *)
(* it refuses and none behind, and names what getopt_long refused.  A      *)
(* duplicate or an argument that cannot be converted it does not name: the *)
(* message has whatever optopt was, '?' at first (option.cpp:103).  A      *)
(* second parse() with the same object refuses every single option that    *)
(* the first one has taken.                                                *)
ParseTells ==
  Returned("parse") =>
    LET given == Events(call.args)
    IN  IF result.threw = None
        THEN /\ Took(result, given, Len(given), Len(given))
             /\ parse(result, call.args).threw = "Duplicate option" <=>
                  \E o \in DOMAIN Opts : single(o) /\ result.count[o] > 0
        ELSE \E k \in DOMAIN given : Refused(result, call.args, given, k)
=============================================================================
