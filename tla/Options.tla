------------------------------ MODULE Options ------------------------------
(***************************************************************************)
(* options::parse (option/option.cpp, option/option.hpp): options are      *)
(* counted and their arguments assigned while getopt_long, which is        *)
(* external (glibc's), goes through the arguments.  An argument of the     *)
(* program is an option under one of its names, with or without an         *)
(* argument of its own attached, an unknown option, "--", or a word.  What *)
(* is attached to a short option without arguments is taken for another    *)
(* short option, which is unknown.                                         *)
(***************************************************************************)
EXTENDS Integers, Sequences, FiniteSets, SequencesExt

CONSTANT Opts   \* the options of the object, a sequence

(* names: which it has; need: the option takes an argument, "no", "yes" or *)
(* "maybe"; vector: its value is a std::vector, so that it may be given    *)
(* more than once; number: its value is a number, which "x" is not.        *)
Forms == {"short", "long"}
ASSUME OptsAssumption ==
  Opts \in Seq([names : (SUBSET Forms) \ {{}}, need : {"no", "yes", "maybe"},
                vector : BOOLEAN, number : BOOLEAN])

None == "none"
Words == {"1", "x"}
Token(kind, o, form, arg) == [is |-> kind, o |-> o, form |-> form, arg |-> arg]
Tokens ==
  (UNION {{Token("option", o, f, a) : f \in Opts[o].names, a \in Words \cup {None}} : o \in DOMAIN Opts})
    \cup {Token("word", 0, "short", w) : w \in Words}
    \cup {Token("unknown", 0, f, None) : f \in Forms}
    \cup {Token("dashes", 0, "long", None)}

single(o) == ~Opts[o].vector

(* option::code, as far as it is told apart: the short name, or a number   *)
(* that is none (generate).                                                *)
Generated == "generated"
code(o) == IF "short" \in Opts[o].names THEN <<"char", o>> ELSE <<Generated, o>>

(* The two find functions.  An option without a short name has the name    *)
(* NUL, and one without a long name the empty name: 0.                     *)
Name(o, form) == IF form \in Opts[o].names THEN o ELSE 0
find(form, name) == SelectInSeq([o \in DOMAIN Opts |-> Name(o, form)], LAMBDA n : n = name)

(* getopt_long: what it returns call by call.  "?" is an option it does    *)
(* not know or an argument that an option does not take, ":" one that is   *)
(* missing.  A required argument that is not attached is the next argument *)
(* of the program, whatever it is ("text" if it is not a word).  optind is *)
(* the next argument; an error leaves in optopt the code it was about, the *)
(* unknown character, or 0 for an unknown long name.                       *)
Zero == <<"zero", 0>>
Unknown == <<"char", -1>>
Initially == <<"char", -2>>   \* '?', what optopt is when the program starts
Event(c, o, arg, optind, optopt) ==
  [c |-> c, o |-> o, arg |-> arg, optind |-> optind, optopt |-> optopt]

(* What argument i makes it return, if it looks at it: s.next is the one it *)
(* looks at next, 0 if it looks at no other.                               *)
Getopt(args, s, i) ==
  LET t == args[i]
      need == IF t.is = "option" THEN Opts[t.o].need ELSE None
      gives(events, next) == [events |-> s.events \o events, next |-> next]
  IN  IF i # s.next THEN s ELSE
      CASE t.is = "dashes" -> gives(<<>>, 0)
        [] t.is = "word" -> gives(<<>>, i + 1)
        [] t.is = "unknown" ->
             gives(<<Event("?", 0, None, i + 1, IF t.form = "long" THEN Zero ELSE Unknown)>>, 0)
        [] t.is = "option" ->
             CASE need = "no" /\ t.arg # None ->
                    gives(IF t.form = "long" THEN <<Event("?", 0, None, i + 1, code(t.o))>>
                          ELSE <<Event("option", t.o, None, i, Zero),
                                 Event("?", 0, None, i + 1, Unknown)>>, 0)
               [] need = "yes" /\ t.arg = None ->
                    IF i = Len(args) THEN gives(<<Event(":", 0, None, i + 1, code(t.o))>>, 0)
                    ELSE gives(<<Event("option", t.o,
                                       IF args[i + 1].is = "word" THEN args[i + 1].arg ELSE "text",
                                       i + 2, Zero)>>, i + 2)
               [] OTHER -> gives(<<Event("option", t.o, t.arg, i + 1, Zero)>>, i + 1)

Events(args) ==
  FoldLeft(LAMBDA s, i : Getopt(args, s, i), [events |-> <<>>, next |-> 1],
           [i \in DOMAIN args |-> i]).events

(* The object: how often each option was given, whether with an argument,  *)
(* and the values assigned so far (all of them, the last one counts if the *)
(* value is not a vector); what the last call threw, and what it named in  *)
(* its message: a character, or an argument of the program.  Where         *)
(* getopt_long leaves optind when nothing is thrown is not modelled.       *)
Fresh ==
  [count |-> [o \in DOMAIN Opts |-> 0], have |-> [o \in DOMAIN Opts |-> FALSE],
   values |-> [o \in DOMAIN Opts |-> <<>>], threw |-> None, optopt |-> Initially,
   names |-> Zero, index |-> 1]

(* The handler of parse(), which looks at whatever optopt is.              *)
Thrown(s, what, optind) ==
  LET character == s.optopt[1] = "char"
  IN  [s EXCEPT !.threw = what,
                !.index = IF character THEN optind ELSE optind - 1,
                !.names = IF character THEN s.optopt ELSE <<"argument", optind - 1>>]

converts(o, arg) == Opts[o].number => arg = "1"

(* Mutant: duplicates are not noticed. *)
TakeAgain(s, o, arg, optind) ==
  LET counted == [s EXCEPT !.count[o] = @ + 1]
  IN  IF Opts[o].need = "no" \/ arg = None THEN counted ELSE
      IF ~converts(o, arg) THEN Thrown(counted, "Conversion failed", optind) ELSE
        [counted EXCEPT !.values[o] = Append(@, arg), !.have[o] = TRUE]

(* The body of the loop, for an option that was found. *)
Take(s, o, arg, optind) ==
  IF single(o) /\ s.count[o] > 0 THEN Thrown(s, "Duplicate option", optind) ELSE
  LET counted == [s EXCEPT !.count[o] = @ + 1]
  IN  IF Opts[o].need = "no" \/ arg = None THEN counted ELSE
      IF ~converts(o, arg) THEN Thrown(counted, "Conversion failed", optind) ELSE
        [counted EXCEPT !.values[o] = Append(@, arg), !.have[o] = TRUE]

Step(s, e) ==
  CASE s.threw # None -> s
    [] s.threw = None /\ e.c = "?" -> Thrown([s EXCEPT !.optopt = e.optopt], "Invalid option", e.optind)
    [] s.threw = None /\ e.c = ":" -> Thrown([s EXCEPT !.optopt = e.optopt], "Missing argument", e.optind)
    [] s.threw = None /\ e.c = "option" -> Take(s, e.o, e.arg, e.optind)

(* parse() of an object in state s; counts and values are not reset.       *)
parse(s, args) == FoldLeft(Step, [s EXCEPT !.threw = None, !.names = Zero], Events(args))

----------------------------------------------------------------------------
(* Reference.  How often the first k events give option o, and with which  *)
(* arguments; the object that has counted some events and assigned the     *)
(* arguments of some, where every option is found under its names; and an  *)
(* object whose last parse() threw at event k.                             *)
Gives(g, o) == g.c = "option" /\ g.o = o
Times(given, k, o) == Cardinality({i \in 1 .. k : Gives(given[i], o)})
Args(given, k, o) ==
  FlattenSeq([i \in 1 .. k |-> IF Gives(given[i], o) /\ given[i].arg # None THEN <<given[i].arg>>
                                                                           ELSE <<>>])
Took(s, given, counted, assigned) ==
  \A p \in DOMAIN Opts : \A f \in Opts[p].names :
    LET o == find(f, p) IN
    /\ s.count[o] = Times(given, counted, p) /\ (single(o) => s.count[o] <= 1)
    /\ s.values[o] = Args(given, assigned, p) /\ (s.have[o] <=> s.values[o] # <<>>)
    /\ \A i \in DOMAIN s.values[o] : converts(o, s.values[o][i])

Refused(s, args, given, k) ==
  CASE s.threw = "Duplicate option" ->
         given[k].c = "option" /\ single(given[k].o) /\ Took(s, given, k - 1, k - 1) /\ s.names = Initially
    [] s.threw = "Conversion failed" ->
         given[k].c = "option" /\ Took(s, given, k, k - 1) /\ s.names = Initially
    [] OTHER ->
         /\ k = Len(given) /\ Took(s, given, k - 1, k - 1)
         /\ \E i \in DOMAIN args :
              LET t == args[i]
                  long == t.is \in {"option", "unknown"} /\ t.form = "long"
                  other == t.form = "short" /\ (t.is = "unknown" \/ t.arg # None)
              IN  \/ long /\ s.names = <<"argument", i>>
                  \/ t.is = "option" /\ s.names = <<"char", t.o>>
                  \/ other /\ s.names = Unknown
=============================================================================
