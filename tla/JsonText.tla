------------------------------- MODULE JsonText -------------------------------
(***************************************************************************)
(* JsonWriter and ValidJsonValue (json_writer.h, json_check.cpp).           *)
(* A text is a sequence of tokens <<kind, text>>: punctuation is its own    *)
(* kind, a string is "s", a number or literal "n", anything else "junk".    *)
(***************************************************************************)
EXTENDS Naturals, Sequences, TLC

KMaxOpen  == 12     \* kMaxDepth of the writer
KMaxDepth == 16     \* kMaxDepth of the check

P(c)   == <<c, "">>
S(s)   == <<"s", s>>
N(n)   == <<"n", ToString(n)>>
True   == <<"n", "true">>
K(k)   == <<"key", k>>          \* what Write takes for a key ...
Raw(t) == <<"raw", t>>          \* ... and for a text that is spliced in

-----------------------------------------------------------------------------
(* Writing                                                                 *)

NewWriter(room) ==
    [text |-> <<>>, elems |-> <<>>, valueDue |-> FALSE, full |-> FALSE, room |-> room]

RECURSIVE Put(_, _)
Put(w, tokens) ==
    IF tokens = <<>> THEN w
    ELSE Put(IF Len(w.text) < w.room THEN [w EXCEPT !.text = Append(@, Head(tokens))]
             ELSE [w EXCEPT !.full = TRUE],
             Tail(tokens))

\* A comma, unless the value of a key or the first of its array or object is due.
Sep(w) ==
    LET d == Len(w.elems)
    IN  IF w.valueDue THEN [w EXCEPT !.valueDue = FALSE]
        ELSE IF d = 0 THEN w
        ELSE [Put(w, IF w.elems[d] THEN <<P(",")>> ELSE <<>>) EXCEPT !.elems[d] = TRUE]

Push(w) == [w EXCEPT !.elems = Append(@, FALSE), !.full = @ \/ Len(w.elems) >= KMaxOpen]
Pop(w)  == IF w.elems = <<>> THEN w ELSE [w EXCEPT !.elems = SubSeq(@, 1, Len(@) - 1)]

Write(w, item) ==
    CASE item[1] \in {"{", "["} -> Push(Put(Sep(w), <<item>>))
      [] item[1] \in {"}", "]"} -> Pop(Put(w, <<item>>))
      [] item[1] = "key"        -> [Put(Sep(w), <<S(item[2]), P(":")>>) EXCEPT !.valueDue = TRUE]
      [] item[1] = "raw"        -> Put(Sep(w), item[2])
      [] OTHER                  -> Put(Sep(w), <<item>>)

RECURSIVE WriteAll(_, _)
WriteAll(w, items) == IF items = <<>> THEN w ELSE WriteAll(Write(w, Head(items)), Tail(items))

WriterOk(w) == ~w.full /\ w.elems = <<>>

-----------------------------------------------------------------------------
(* Checking: each operator gives the place behind what it recognised, or 0  *)

Is(t, i, c) == i <= Len(t) /\ t[i][1] = c

RECURSIVE ParseValue(_, _, _), ParseMembers(_, _, _), ParseElements(_, _, _)

ParseObject(t, i, d) == IF Is(t, i, "}") THEN i + 1 ELSE ParseMembers(t, i, d)

ParseMembers(t, i, d) ==
    LET v == IF Is(t, i, "s") /\ Is(t, i + 1, ":") THEN ParseValue(t, i + 2, d) ELSE 0
    IN  IF v = 0 THEN 0
        ELSE IF Is(t, v, ",") THEN ParseMembers(t, v + 1, d)
        ELSE IF Is(t, v, "}") THEN v + 1 ELSE 0

ParseArray(t, i, d) == IF Is(t, i, "]") THEN i + 1 ELSE ParseElements(t, i, d)

ParseElements(t, i, d) ==
    LET v == ParseValue(t, i, d)
    IN  IF v = 0 THEN 0
        ELSE IF Is(t, v, ",") THEN ParseElements(t, v + 1, d)
        ELSE IF Is(t, v, "]") THEN v + 1 ELSE 0

ParseValue(t, i, d) ==
    IF d >= KMaxDepth THEN 0
    ELSE CASE Is(t, i, "{")                  -> ParseObject(t, i + 1, d + 1)
           [] Is(t, i, "[")                  -> ParseArray(t, i + 1, d + 1)
           [] Is(t, i, "s") \/ Is(t, i, "n") -> i + 1
           [] OTHER                          -> 0

ValidJsonValue(t) == ParseValue(t, 1, 0) = Len(t) + 1

-----------------------------------------------------------------------------
(* What a host reads in a valid text: a tree of nodes.  (Reference, not code) *)

RECURSIVE ReadValue(_, _, _), ReadItems(_, _, _)

\* <<node, place behind it>> of the value at i, for the given key.
ReadValue(t, i, key) ==
    IF t[i][1] \in {"{", "["}
    THEN LET r == ReadItems(t, i + 1, <<>>)
         IN  <<[key |-> key, kind |-> t[i][1], text |-> "", items |-> r[1]], r[2]>>
    ELSE <<[key |-> key, kind |-> t[i][1], text |-> t[i][2], items |-> <<>>], i + 1>>

ReadItems(t, i, got) ==
    CASE t[i][1] \in {"}", "]"}              -> <<got, i + 1>>
      [] t[i][1] = ","                       -> ReadItems(t, i + 1, got)
      [] t[i][1] = "s" /\ Is(t, i + 1, ":")  ->
           LET r == ReadValue(t, i + 2, t[i][2]) IN ReadItems(t, r[2], Append(got, r[1]))
      [] OTHER -> LET r == ReadValue(t, i, "") IN ReadItems(t, r[2], Append(got, r[1]))

Doc(t) == ReadValue(t, 1, "")[1]

\* The items of an object under a key; of an object that has it once, the text.
Items(node, key) == UNION {{n.items[i] : i \in DOMAIN n.items} :
                             n \in {m \in {node.items[i] : i \in DOMAIN node.items} : m.key = key}}
Text(node, key)  == {node.items[i].text : i \in {j \in DOMAIN node.items : node.items[j].key = key}}
=============================================================================
