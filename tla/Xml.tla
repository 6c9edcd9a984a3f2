-------------------------------- MODULE Xml --------------------------------
(***************************************************************************)
(* The XML reader and writer (xml/xml.cpp, xml/xml.hpp).  A text is a      *)
(* sequence of characters; what a function erases from the front of its    *)
(* source is what its result no longer has in `rest`.                      *)
(***************************************************************************)
EXTENDS Integers, Sequences, FiniteSets, SequencesExt

DQ == "\""
SQ == "'"
Letters == {"a", "b", "c", "t"}   \* isalpha, ':' and '_'
NameChars == Letters \cup {"1"}    \* and digits, '.' and '-'
Texts == Seq(NameChars \cup {" ", "<", ">", "/", "=", DQ, SQ})

(* xml_error: no result, and the rest does not matter. *)
Fails(e) == [error |-> e, rest |-> <<>>, x |-> <<>>]
Gives(rest, x) == [error |-> "none", rest |-> rest, x |-> x]

(* source[i]; behind the end there is a NUL. *)
At(s, i) == IF i <= Len(s) THEN s[i] ELSE "nul"
From(s, i) == SubSeq(s, i, Len(s))

(* The first character outside C is number End(s, C), which may be Len + 1. *)
End(s, C) == LET k == SelectInSeq(s, LAMBDA c : c \notin C) IN IF k = 0 THEN Len(s) + 1 ELSE k

parse_name(s) == IF At(s, 1) \in Letters THEN SubSeq(s, 1, End(s, NameChars) - 1) ELSE <<>>

(* Nothing is erased from a source that is all spaces. *)
parse_space(s) == IF End(s, {" "}) > Len(s) THEN s ELSE From(s, End(s, {" "}))

(* An exception leaves every function it passes: G goes on with a result. *)
Then(a, G(_)) == IF a.error # "none" THEN a ELSE G(a)

(* A value at its quote, and an attribute after its name.                  *)
parse_value(s, name) ==
  LET close == SelectInSeq(From(s, 2), LAMBDA c : c = s[1])
  IN  IF At(s, 1) \notin {DQ, SQ} \/ close = 0 THEN Fails("invalid_token")
      ELSE Gives(parse_space(From(s, close + 2)), [name |-> name, value |-> SubSeq(s, 2, close)])
parse_attribute(s, name) ==
  LET assign == parse_space(From(s, Len(name) + 1))
  IN  IF At(assign, 1) # "=" THEN Fails("invalid_token")
      ELSE parse_value(parse_space(From(assign, 2)), name)

Attributes == [name : Texts, value : Texts]
parse_attributes[s \in Texts] == [attributes \in SUBSET Attributes |->
  LET name == parse_name(s) IN
  IF name = <<>> THEN Gives(s, attributes)
  ELSE Then(parse_attribute(s, name), LAMBDA a :
         IF \E b \in attributes : b.name = a.x.name THEN Fails("duplicate_attribute")
         ELSE parse_attributes[a.rest][attributes \cup {a.x}])]

Tag(name, attributes) == [name |-> name, attributes |-> attributes]
NoTag == Tag(<<>>, {})
Element(tag, value, children) == [tag |-> tag, value |-> value, children |-> children]

(* Elements of depth d at most, and the deepest that occur here.           *)
Depth == 8
Nested[d \in Nat] ==
  [tag : [name : Texts, attributes : SUBSET Attributes], value : Texts,
   children : IF d = 0 THEN {<<>>} ELSE Seq(Nested[d - 1])]
Elements == Nested[Depth]

(* tag::parse of a start or an empty tag; x.empty is its last parameter.   *)
parse_close(s, x) == IF At(s, 1) # ">" THEN Fails("unclosed_token") ELSE Gives(From(s, 2), x)
parse_start(s) ==
  LET name == parse_name(From(s, 2)) IN
  IF name = <<>> THEN Fails("syntax")
  ELSE Then(parse_attributes[parse_space(From(s, Len(name) + 2))][{}], LAMBDA a :
         IF At(a.rest, 1) = "/"
         THEN parse_close(From(a.rest, 2), [tag |-> Tag(name, a.x), empty |-> TRUE])
         ELSE parse_close(a.rest, [tag |-> Tag(name, a.x), empty |-> FALSE]))

(* tag::parse of the end tag of `tag`. *)
parse_end(s, tag) ==
  LET name == parse_name(From(s, 3))
      last == parse_space(From(s, Len(name) + 3))
  IN  IF name = <<>> THEN Fails("syntax")
      ELSE IF name # tag.name THEN Fails("tag_mismatch")
      ELSE IF At(last, 1) = "/" THEN Fails("invalid_token")
      ELSE parse_close(last, tag)

complex(e) == e.children # <<>>

(* Mutant: text in front of the first child is left where it is. *)
insertForgetsText(e, child) == [e EXCEPT !.children = Append(@, child)]

(* element::insert of an element: text becomes a child without a name. *)
insert(e, child) ==
  LET texts == IF ~complex(e) /\ e.value # <<>> THEN <<Element(NoTag, e.value, <<>>)>> ELSE <<>>
  IN  IF texts = <<>> THEN [e EXCEPT !.children = Append(@, child)]
      ELSE [e EXCEPT !.children = Append(texts, child), !.value = <<>>]

insert_text(e, value) ==
  IF complex(e) THEN insert(e, Element(NoTag, value, <<>>)) ELSE [e EXCEPT !.value = @ \o value]

make_simple(e) == IF e.tag = NoTag /\ Len(e.children) = 1 THEN e.children[1] ELSE e

(* element::parse; s is what is left of the source.                        *)
parse_element[s \in Texts, e \in Elements] ==
  LET pos == SelectInSeq(s, LAMBDA c : c = "<")
      text == IF pos = 0 THEN Len(s) ELSE pos - 1
  IN  IF s = <<>> THEN Gives(s, make_simple(e))
      ELSE IF text > 0
           THEN parse_element[From(s, text + 1), insert_text(e, SubSeq(s, 1, text))]
      ELSE IF At(s, 2) = "/"
           THEN Then(parse_end(s, e.tag), LAMBDA closing : Gives(closing.rest, make_simple(e)))
      ELSE Then(parse_start(s), LAMBDA opening :
             Then(IF opening.x.empty THEN Gives(opening.rest, Element(opening.x.tag, <<>>, <<>>))
                  ELSE parse_element[opening.rest, Element(opening.x.tag, <<>>, <<>>)],
                  LAMBDA child : parse_element[child.rest, insert(e, child.x)]))

(* xml::parse.  The root has no name, so that no end tag can be its own.   *)
parse(source) == parse_element[source, Element(NoTag, <<>>, <<>>)]

----------------------------------------------------------------------------
attribute_to_string(a) == <<" ">> \o a.name \o <<"=", DQ>> \o a.value \o <<DQ>>

tag_to_string(tag, type) ==
  <<"<">> \o (IF type = "end" THEN <<"/">> ELSE <<>>) \o tag.name
    \o (IF type = "end" THEN <<>>
        ELSE FlattenSeq([i \in 1 .. Cardinality(tag.attributes) |->
                           attribute_to_string(SetToSeq(tag.attributes)[i])]))
    \o (IF type = "empty" THEN <<"/", ">">> ELSE <<">">>)

(* element::to_string without the layout of `nice`, and element::value.    *)
to_string[e \in Elements] ==
  LET value == IF complex(e) THEN FlattenSeq([i \in DOMAIN e.children |-> to_string[e.children[i]]])
               ELSE e.value
  IN  IF e.tag = NoTag THEN value
      ELSE IF e.value = <<>> /\ ~complex(e) THEN tag_to_string(e.tag, "empty")
      ELSE tag_to_string(e.tag, "start") \o value \o tag_to_string(e.tag, "end")

(* validate_name, validate_value and validate_content.  The last one looks *)
(* at where the first '<' or '>' is, and refuses every text but one that   *)
(* begins with it.                                                         *)
valid_name(name) == name # <<>> /\ parse_name(name) = name
valid_value(x) == \A i \in DOMAIN x : x[i] \notin {DQ, SQ}
valid_content(x) == At(x, 1) \in {"<", ">"}

valid_attribute(a) == valid_name(a.name) /\ valid_value(a.value)
valid_tag(t) == valid_name(t.name) /\ \A a \in t.attributes : valid_attribute(a)

validates[e \in Elements] ==
  /\ valid_tag(e.tag)
  /\ IF complex(e) THEN \A i \in DOMAIN e.children : validates[e.children[i]]
     ELSE valid_content(e.value)

----------------------------------------------------------------------------
(* Reference.  A document is a sequence of pieces; the tags nest if a      *)
(* stack says so.  What is open at the end is closed there.                *)
Piece(is, name, attributes, text) ==
  [is |-> is, tag |-> Tag(name, attributes), error |-> "none", text |-> text]
Bad(error, text) == [is |-> "bad", tag |-> NoTag, error |-> error, text |-> text]

Pieces ==
  LET c(x) == {[name |-> <<"c">>, value |-> x]} IN
  { Piece("start", <<"a">>, {}, <<"<", "a", ">">>),
    Piece("start", <<"b", "1">>, c(<<"<">>), <<"<", "b", "1", " ", "c", "=", DQ, "<", DQ, " ", ">">>),
    Piece("empty", <<"a">>, c(<<DQ>>), <<"<", "a", " ", "c", " ", "=", " ", SQ, DQ, SQ, "/", ">">>),
    Piece("end", <<"a">>, {}, <<"<", "/", "a", ">">>),
    Piece("end", <<"b", "1">>, {}, <<"<", "/", "b", "1", " ", ">">>),
    Piece("text", <<>>, {}, <<"t", " ">>),
    Piece("text", <<>>, {}, <<">">>),
    Bad("duplicate_attribute", <<"<", "a", " ", "c", "=", SQ, SQ, " ", "c", "=", DQ, DQ, ">">>),
    Bad("invalid_token", <<"<", "a", " ", "c", ">">>),
    Bad("syntax", <<"<", "1", ">">>),
    Bad("unclosed_token", <<"<", "a", " ", "<", ">">>) }

(* An open element: its tag and, in their order, its texts and elements.   *)
Open(tag) == [tag |-> tag, items |-> <<>>]
Node(is, text, e) == [is |-> is, text |-> text, e |-> e]
AddItem(stack, item) == [stack EXCEPT ![Len(stack)].items = Append(@, item)]
AddText(stack, text) ==
  LET items == Last(stack).items IN
  IF items # <<>> /\ Last(items).is = "text"
  THEN [stack EXCEPT ![Len(stack)].items[Len(items)].text = @ \o text]
  ELSE AddItem(stack, Node("text", text, NoTag))

Built(open) ==
  IF \A i \in DOMAIN open.items : open.items[i].is = "text"
  THEN Element(open.tag, IF open.items = <<>> THEN <<>> ELSE open.items[1].text, <<>>)
  ELSE Element(open.tag, <<>>,
               [i \in DOMAIN open.items |->
                  IF open.items[i].is = "text" THEN Element(NoTag, open.items[i].text, <<>>)
                                               ELSE open.items[i].e])

CloseTop(stack) == AddItem(Front(stack), Node("element", <<>>, Built(Last(stack))))

Read(state, p) ==
  IF state.error # "none" THEN state ELSE
  CASE p.is = "bad" -> [state EXCEPT !.error = p.error]
    [] p.is = "text" -> [state EXCEPT !.stack = AddText(@, p.text)]
    [] p.is = "start" -> [state EXCEPT !.stack = Append(@, Open(p.tag))]
    [] p.is = "empty" -> [state EXCEPT !.stack = CloseTop(Append(@, Open(p.tag)))]
    [] p.is = "end" -> IF p.tag.name = Last(state.stack).tag.name
                       THEN [state EXCEPT !.stack = CloseTop(@)]
                       ELSE [state EXCEPT !.error = "tag_mismatch"]

CloseAll(stack) ==
  LET closed == FoldLeft(LAMBDA s, open : CloseTop(s), stack, Tail(stack))
      root == Built(closed[1])
  IN  IF Len(root.children) = 1 THEN root.children[1] ELSE root

Document(pieces) == FoldLeft(Read, [error |-> "none", stack |-> <<Open(NoTag)>>], pieces)

(* An element that quotes a double quote cannot be written and read again. *)
Quotes[e \in Elements] ==
  \/ \E a \in e.tag.attributes : ~valid_value(a.value)
  \/ \E i \in DOMAIN e.children : Quotes[e.children[i]]
Contents[e \in Elements] ==
  IF complex(e) THEN UNION {Contents[e.children[i]] : i \in DOMAIN e.children} ELSE {e.value}
=============================================================================
