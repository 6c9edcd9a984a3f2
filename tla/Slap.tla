-------------------------------- MODULE Slap -------------------------------
(***************************************************************************)
(* Entries of an LDAP directory (slap/slap.hpp, slap/slap.cpp): reading    *)
(* their attributes, the modifications made of them, and the entries of a  *)
(* search in the order the caller asked for.  The name of an attribute is  *)
(* its place in the order of names; the server is external.                *)
(***************************************************************************)
EXTENDS Integers, Sequences, FiniteSets, SequencesExt, Functions

Names == 1 .. 2
Operations == {"add", "remove", "replace"}

(* A value is TRUE, a number, or a word, which is not a number. *)
LdapValues == {"TRUE", "7", "word"}

Attribute(name, operation, values) == [name |-> name, operation |-> operation, values |-> values]

(* Mutant: the last attribute of a name wins. *)
insertLast(e, x) == {y \in e : y.name # x.name} \cup {x}

(* container::insert of a std::set: a name that is there stays as it is.   *)
insert(e, x) == IF \E y \in e : y.name = x.name THEN e ELSE e \cup {x}

count(e, name) == Cardinality({x \in e : x.name = name})
find(e, name) == CHOOSE x \in e : x.name = name

(* entry::get_mod and to_mod: what ldap_modify_ext_s is given, by name.    *)
get_mod(e) ==
  [i \in 1 .. Cardinality(e) |-> CHOOSE x \in e : Cardinality({y \in e : y.name <= x.name}) = i]

----------------------------------------------------------------------------
(* Reading the n-th value of an attribute, from 0.                         *)
Value(v) == [is |-> "value", v |-> v]
Throws(what) == [is |-> what, v |-> "none"]

value(x, n) == IF n < Len(x.values) THEN Value(x.values[n + 1]) ELSE Throws("out_of_range")

to(x, n, type) ==
  LET r == value(x, n) IN
  CASE r.is # "value" -> r
    [] r.is = "value" /\ type = "bool" -> Value(IF r.v = "TRUE" THEN "true" ELSE "false")
    [] r.is = "value" /\ type = "int" -> IF r.v = "7" THEN r ELSE Throws("invalid_argument")
    [] r.is = "value" /\ type = "string" -> r

attribute_to(e, name, n, type) ==
  IF count(e, name) = 0 THEN Throws("out_of_range") ELSE to(find(e, name), n, type)

(* An optional is none if the attribute is not there, and throws like any  *)
(* other type if it has fewer values.                                      *)
attribute_to_optional(e, name, n, type) ==
  IF count(e, name) = 0 THEN Throws("none") ELSE to(find(e, name), n, type)

(* entry::attribute_get leaves the variable alone when it cannot be read;  *)
(* attribute::get is noexcept too and catches only one of the exceptions.  *)
attribute_get(e, name, n, type) ==
  LET r == attribute_to(e, name, n, type) IN IF r.is = "value" THEN r ELSE Throws("unchanged")
get(x, n, type) ==
  LET r == to(x, n, type)
  IN  CASE r.is = "value" -> r
        [] r.is = "invalid_argument" -> Throws("unchanged")
        [] r.is = "out_of_range" -> Throws("terminates")

----------------------------------------------------------------------------
(* connection::search.  What the server sends is a sequence of entries     *)
(* with a key, which the order looks at, and the values of its attributes; *)
(* only of those in names, unless it is empty, and without their values    *)
(* if they were not asked for.                                             *)
Sent(entries, names, get_value) ==
  [i \in DOMAIN entries |->
     [entries[i] EXCEPT !.values =
        [x \in {y \in DOMAIN @ : names = {} \/ y \in names} |-> IF get_value THEN @[x] ELSE <<>>]]]

(* order_none, and two orders a caller may give.                           *)
func(order, x, y) ==
  CASE order = "none" -> TRUE [] order = "le" -> x.key <= y.key [] order = "lt" -> x.key < y.key

(* The entry goes behind the last one that func puts in front of it.       *)
place(entries, e, order) ==
  CHOOSE k \in 0 .. Len(entries) :
    /\ k > 0 => func(order, entries[k], e)
    /\ \A i \in k + 1 .. Len(entries) : ~func(order, entries[i], e)

(* Attributes without values are left out. *)
Read(e) == [dn |-> e.dn, key |-> e.key,
            attributes |-> {Attribute(x, "add", e.values[x]) :
                              x \in {y \in DOMAIN e.values : e.values[y] # <<>>}}]

search(entries, order, names, get_value) ==
  FoldLeft(LAMBDA found, e : InsertAt(found, place(found, e, order) + 1, Read(e)),
           <<>>, Sent(entries, names, get_value))

(* Reference.  The number of an entry is its dn: it is found once.         *)
EachOnce(entries, found) ==
  /\ {found[i].dn : i \in DOMAIN found} = DOMAIN entries
  /\ \A i, j \in DOMAIN found : found[i].dn = found[j].dn => i = j

(* Of an entry are found the attributes asked for that have values.        *)
Whole(e, names, get_value, found) ==
  found.attributes =
    {Attribute(x, "add", e.values[x]) :
       x \in {y \in Names : get_value /\ (names = {} \/ y \in names) /\ e.values[y] # <<>>}}

(* Entries are in the order asked for; those it does not tell apart stay   *)
(* as they were sent, or are turned round if it is strict.                 *)
InOrder(order, x, y) ==
  CASE order = "none" -> x.dn < y.dn
    [] order # "none" /\ x.key = y.key -> (x.dn < y.dn) <=> order = "le"
    [] OTHER -> x.key < y.key
Ordered(order, found) ==
  \A i, j \in DOMAIN found : i < j => InOrder(order, found[i], found[j])

----------------------------------------------------------------------------
(* The server carries out one modification of what it holds, a set of      *)
(* values for each name.  It refuses to add a value that is there and to   *)
(* remove one that is not.                                                 *)
Refused == [x \in Names |-> {"refused"}]
Modified(held, x) ==
  LET old == held[x.name]
      new == Range(x.values)
  IN  IF held = Refused THEN held ELSE
      CASE x.operation = "add" ->
             IF new \cap old # {} THEN Refused ELSE [held EXCEPT ![x.name] = old \cup new]
        [] x.operation = "replace" -> [held EXCEPT ![x.name] = new]
        [] x.operation = "remove" ->
             IF x.values = <<>> THEN [held EXCEPT ![x.name] = {}]
             ELSE IF new \subseteq old THEN [held EXCEPT ![x.name] = old \ new] ELSE Refused

modify(held, e) == FoldLeft(Modified, held, get_mod(e))

(* connection::add: the entry the server makes; there is no operation in   *)
(* it, and it has no attribute twice or without a value.                   *)
Added(x) == [n \in Names |-> UNION {Range(x[i].values) : i \in {j \in DOMAIN x : x[j].name = n}}]
add(e) == IF \E x \in e : x.values = <<>> THEN Refused ELSE Added(get_mod(e))

(* Reference: every change the caller has put into the entry, in turn.     *)
InTurn(held, changes) == FoldLeft(Modified, held, changes)
=============================================================================
