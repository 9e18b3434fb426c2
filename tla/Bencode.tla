------------------------------ MODULE Bencode ------------------------------
(***************************************************************************)
(* bencode_lib: Serialize and Deserialize, on streams of characters.  A    *)
(* character is a record, so that the content of a string may look like    *)
(* structure; the digits of a number are one character [t |-> "num"].      *)
(***************************************************************************)
EXTENDS Integers, SequencesExt

\* Characters.
Mark(c) == [t |-> c, n |-> 0]
Digits(n) == [t |-> "num", n |-> n]
Letter(n) == [t |-> "letter", n |-> n]

\* bencode::Node; a dictionary is a function on its keys, which are strings.
Num(n) == [kind |-> "num", num |-> n]
Str(s) == [kind |-> "str", str |-> s]
Arr(a) == [kind |-> "arr", arr |-> a]
Dict(d) == [kind |-> "dict", dict |-> d]

\* Node::TryAt and operator[].
Has(node, key) == key \in DOMAIN node.dict
At(node, key) == node.dict[key]

\* Mutant: the map iterates from its largest key.
InOrderReversed(keys) == SetToSortSeq(keys, LAMBDA a, b : a[1].n > b[1].n)

\* std::map is in the order of its keys.
InOrder(keys) == SetToSortSeq(keys, LAMBDA a, b : a[1].n < b[1].n)

-----------------------------------------------------------------------------
(* Serialize::MakeSerialize *)

SerializeStr(s) == <<Digits(Len(s)), Mark(":")>> \o s

RECURSIVE MakeSerialize(_)

MakeSerialize(node) ==
    CASE node.kind = "num" -> <<Mark("i"), Digits(node.num), Mark("e")>>
      [] node.kind = "str" -> SerializeStr(node.str)
      [] node.kind = "arr" ->
            <<Mark("l")>> \o FlattenSeq([k \in 1 .. Len(node.arr) |-> MakeSerialize(node.arr[k])]) \o <<Mark("e")>>
      [] node.kind = "dict" ->
            LET keys == InOrder(DOMAIN node.dict) IN
            <<Mark("d")>>
            \o FlattenSeq([k \in 1 .. Len(keys) |-> SerializeStr(keys[k]) \o MakeSerialize(node.dict[keys[k]])])
            \o <<Mark("e")>>

-----------------------------------------------------------------------------
(* Deserialize *)

\* What a Load function returns and leaves in the stream.  A read that fails leaves the
\* stream failed; the loop of LoadDict or LoadArray around it then never sees its 'e'.
Loaded(node, rest) == [hangs |-> FALSE, node |-> node, rest |-> rest]
Hang == [hangs |-> TRUE, node |-> Num(0), rest |-> <<>>]

From(in, k) == SubSeq(in, k, Len(in))
Peeks(in, c) == in # <<>> /\ in[1].t = c

\* Mutant: the character after the string is consumed.
LoadStrFurther(in) ==
    IF ~Peeks(in, "num") \/ Len(in) < in[1].n + 2 THEN Hang
    ELSE Loaded(Str(SubSeq(in, 3, in[1].n + 2)), From(in, in[1].n + 4))

\* copy_n leaves the last character of the string to the get() after it, which takes
\* the character behind an empty string.
LoadStr(in) ==
    IF ~Peeks(in, "num") \/ Len(in) < in[1].n + 2 THEN Hang
    ELSE Loaded(Str(SubSeq(in, 3, in[1].n + 2)), From(in, (IF in[1].n = 0 THEN 1 ELSE in[1].n) + 3))

LoadNumber(in) == IF Len(in) < 3 THEN Hang ELSE Loaded(Num(in[2].n), From(in, 4))

RECURSIVE LoadNode(_), LoadDict(_, _), LoadArray(_, _)

LoadNode(in) ==
    CASE in = <<>> -> Loaded(Dict(<<>>), <<>>)
      [] Peeks(in, "i") -> LoadNumber(in)
      [] Peeks(in, "l") -> LoadArray(Tail(in), <<>>)
      [] Peeks(in, "d") -> LoadDict(Tail(in), <<>>)
      [] OTHER -> LoadStr(in)

\* The loop of LoadArray, after the elements a.
LoadArray(in, a) ==
    IF Peeks(in, "e") THEN Loaded(Arr(a), Tail(in))
    ELSE LET el == LoadNode(in)
         IN  IF el.hangs \/ in = <<>> THEN Hang ELSE LoadArray(el.rest, Append(a, el.node))

\* The loop of LoadDict, after the entries d; emplace keeps the first of two equal keys.
LoadDict(in, d) ==
    IF Peeks(in, "e") THEN Loaded(Dict(d), Tail(in))
    ELSE LET key == LoadStr(in)
             el == LoadNode(key.rest)
         IN  IF key.hangs \/ el.hangs THEN Hang
             ELSE LoadDict(el.rest, d @@ (key.node.str :> el.node))

Load(in) == LoadNode(in)
=============================================================================
