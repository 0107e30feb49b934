---------------------------- MODULE CanonicalAbi ----------------------------
(***************************************************************************)
(* The component model's canonical ABI, as far as the interfaces of this   *)
(* repository need it: how the host lays a value of a WIT type out in      *)
(* linear memory or in a flat argument list, and what storing a value and  *)
(* loading it back do to memory.  It is the host's half of every call that *)
(* crosses the boundary of the Go component; WitExports and WitImports     *)
(* hold the other half, the generated wrappers.                            *)
(*                                                                         *)
(* A place is a description of where the parts of a value are:  a scalar   *)
(* of some size, the (pointer, length) pair of a string or byte list, the  *)
(* pair of a list with the stride of its elements, a discriminant with the *)
(* places of its cases, or the places of a record's fields.  Offsets are   *)
(* bytes in memory and argument numbers in a flat list.                    *)
(***************************************************************************)
EXTENDS Integers, Sequences, FiniteSets, FiniteSetsExt

\* WIT types.  A byte list is laid out like a string; an enum, a flag and a
\* bool are a byte; a handle is an index of four bytes.
Unit == [kind |-> "unit"]
Number(size) == [kind |-> "number", size |-> size]
U8 == Number(1)
U16 == Number(2)
U32 == Number(4)
U64 == Number(8)
Handle == U32
Text == [kind |-> "text"]
Blob == Text
List(elem) == [kind |-> "list", elem |-> elem]
Rec(fields) == [kind |-> "record", fields |-> fields]
Var(cases) == [kind |-> "variant", cases |-> cases]
Opt(type) == Var(<<Unit, type>>)
Res(ok, err) == Var(<<ok, err>>)

\* Places.
Nil == [kind |-> "nil"]
Scalar(at, size) == [kind |-> "scalar", at |-> at, size |-> size]
Pair(at, len) == [kind |-> "pair", at |-> at, len |-> len]
Items(at, len, stride, elem) ==
  [kind |-> "items", at |-> at, len |-> len, stride |-> stride, elem |-> elem]
Switch(at, cases) == [kind |-> "switch", at |-> at, cases |-> cases]
Fields(places) == [kind |-> "fields", places |-> places]

-----------------------------------------------------------------------------
\* Size and alignment of a type in memory (32-bit pointers).

RoundUp(n, align) == ((n + align - 1) \div align) * align
Largest(S) == Max(S \cup {1})

RECURSIVE AlignOf(_), SizeOf(_), FieldOffset(_, _)
AlignOf(t) ==
  CASE t.kind = "unit" -> 1
    [] t.kind = "number" -> t.size
    [] t.kind \in {"text", "list"} -> 4
    [] t.kind = "record" -> Largest({AlignOf(t.fields[i]) : i \in DOMAIN t.fields})
    [] t.kind = "variant" -> Largest({AlignOf(t.cases[i]) : i \in DOMAIN t.cases})

\* Where the i-th of some fields starts; one past the last, where they end.
FieldOffset(fields, i) ==
  LET end == IF i = 1 THEN 0 ELSE FieldOffset(fields, i - 1) + SizeOf(fields[i - 1])
  IN  IF i \in DOMAIN fields THEN RoundUp(end, AlignOf(fields[i])) ELSE end

\* The payload of a variant starts behind the discriminant byte.
PayloadOffset(t) == AlignOf(t)

SizeOf(t) ==
  CASE t.kind = "unit" -> 0
    [] t.kind = "number" -> t.size
    [] t.kind \in {"text", "list"} -> 8
    [] t.kind = "record" -> RoundUp(FieldOffset(t.fields, Len(t.fields) + 1), AlignOf(t))
    [] t.kind = "variant" ->
         RoundUp(PayloadOffset(t) + Max({SizeOf(t.cases[i]) : i \in DOMAIN t.cases}), AlignOf(t))

\* Where a value of type t that starts at offset `at` has its parts.
RECURSIVE InMemory(_, _)
InMemory(t, at) ==
  CASE t.kind = "unit" -> Nil
    [] t.kind = "number" -> Scalar(at, t.size)
    [] t.kind = "text" -> Pair(at, at + 4)
    [] t.kind = "list" -> Items(at, at + 4, SizeOf(t.elem), InMemory(t.elem, 0))
    [] t.kind = "record" ->
         Fields([i \in DOMAIN t.fields |-> InMemory(t.fields[i], at + FieldOffset(t.fields, i))])
    [] t.kind = "variant" ->
         Switch(at, [i \in DOMAIN t.cases |-> InMemory(t.cases[i], at + PayloadOffset(t))])

\* How many flat arguments a value takes, and which: the cases of a variant
\* share theirs.
RECURSIVE Flat(_), FlatBefore(_, _), InArguments(_, _)
Flat(t) ==
  CASE t.kind = "unit" -> 0
    [] t.kind = "number" -> 1
    [] t.kind \in {"text", "list"} -> 2
    [] t.kind = "record" -> FlatBefore(t.fields, Len(t.fields) + 1)
    [] t.kind = "variant" -> 1 + Max({Flat(t.cases[i]) : i \in DOMAIN t.cases})

FlatBefore(types, i) == IF i = 1 THEN 0 ELSE FlatBefore(types, i - 1) + Flat(types[i - 1])

InArguments(t, n) ==
  CASE t.kind = "unit" -> Nil
    [] t.kind = "number" -> Scalar(n, 1)
    [] t.kind = "text" -> Pair(n, n + 1)
    [] t.kind = "list" -> Items(n, n + 1, SizeOf(t.elem), InMemory(t.elem, 0))
    [] t.kind = "record" ->
         Fields([i \in DOMAIN t.fields |-> InArguments(t.fields[i], n + FlatBefore(t.fields, i))])
    [] t.kind = "variant" ->
         Switch(n, [i \in DOMAIN t.cases |-> InArguments(t.cases[i], n + 1)])

\* A call takes its parameters flat unless that is more than sixteen
\* arguments, and gives its result flat unless that is more than one.
MaxFlatParams == 16
MaxFlatResults == 1
Spills(type, max) == Flat(type) > max
Canonical(type, max) == IF Spills(type, max) THEN InMemory(type, 0) ELSE InArguments(type, 0)

-----------------------------------------------------------------------------
(***************************************************************************)
(* Values.  A leaf of a value is the path that leads to it, so that no two *)
(* parts of a value are equal and a value that arrives in the wrong place  *)
(* is noticed.  A record and a list are the sequences of their parts, a    *)
(* variant <<tag, payload>>.                                               *)
(***************************************************************************)

Tag(k) == k - 1

\* A value with everything in it, and the values that differ from it in one
\* part: every case of every variant, every list with no element, one and two.
RECURSIVE Full(_, _), Values(_, _)
Full(t, path) ==
  CASE t.kind = "unit" -> <<>>
    [] t.kind \in {"number", "text"} -> path
    [] t.kind = "list" -> [i \in 1..2 |-> Full(t.elem, Append(path, i))]
    [] t.kind = "record" -> [i \in DOMAIN t.fields |-> Full(t.fields[i], Append(path, i))]
    [] t.kind = "variant" ->
         LET last == Len(t.cases)
         IN  <<Tag(last), Full(t.cases[last], Append(path, last))>>

Values(t, path) ==
  CASE t.kind = "unit" -> {<<>>}
    [] t.kind \in {"number", "text"} -> {path}
    [] t.kind = "list" ->
         {<<>>, Full(t, path)} \cup {<<v>> : v \in Values(t.elem, Append(path, 1))}
    [] t.kind = "record" ->
         {Full(t, path)} \cup
         UNION {{[Full(t, path) EXCEPT ![i] = v] : v \in Values(t.fields[i], Append(path, i))} :
                  i \in DOMAIN t.fields}
    [] t.kind = "variant" ->
         UNION {{<<Tag(k), v>> : v \in Values(t.cases[k], Append(path, k))} : k \in DOMAIN t.cases}

(***************************************************************************)
(* Memory is a set of cells: in a block of memory, at an offset, some      *)
(* bytes that hold a number, a tag, a pointer to a block or a length.      *)
(* Storing a value writes the cells of its parts; the text of a string and *)
(* the elements of a list are in blocks of their own, named by their path, *)
(* a list's of as many bytes as its elements take.                         *)
(***************************************************************************)

Cell(block, at, size, holds) == [block |-> block, at |-> at, size |-> size, holds |-> holds]
PointerTo(block, at, path, unit) == Cell(block, at, unit, [to |-> path])
LengthOf(block, at, path, n, bytes, unit) ==
  Cell(block, at, unit, [of |-> path, n |-> n, bytes |-> bytes])

\* `unit` is what a pointer, a length or a tag takes: 4, 4 and 1 bytes in
\* memory, an argument each in a flat list.
RECURSIVE Store(_, _, _, _, _, _)
Store(place, v, path, block, base, unit) ==
  CASE place.kind = "nil" -> {}
    [] place.kind = "scalar" -> {Cell(block, base + place.at, place.size, [number |-> v])}
    [] place.kind = "pair" ->
         {PointerTo(block, base + place.at, v, unit),
          LengthOf(block, base + place.len, v, 0, 0, unit)}
    [] place.kind = "items" ->
         {PointerTo(block, base + place.at, path, unit),
          LengthOf(block, base + place.len, path, Len(v), Len(v) * place.stride, unit)}
           \cup UNION {Store(place.elem, v[i], Append(path, i), path, (i - 1) * place.stride, 4) :
                         i \in DOMAIN v}
    [] place.kind = "fields" ->
         UNION {Store(place.places[i], v[i], Append(path, i), block, base, unit) :
                  i \in DOMAIN place.places}
    [] place.kind = "switch" ->
         {Cell(block, base + place.at, 1, [tag |-> v[1]])}
           \cup Store(place.cases[v[1] + 1], v[2], Append(path, v[1] + 1), block, base, unit)

\* The blocks that a memory's pointers lead to, but for empty lists.
Blocks(memory) ==
  {c.holds.to : c \in {c \in memory : "to" \in DOMAIN c.holds}}

\* What is loaded from a place where nothing is stored, or something else is.
Garbage == <<>>

Overlaps(c, block, at, size) ==
  c.block = block /\ c.at < at + size /\ at < c.at + c.size

\* What the cell at an offset holds, [holds nothing] unless exactly such a
\* cell is there and its block has not been freed.
Holds(memory, live, block, at, size, what) ==
  LET hit == {c \in memory : Overlaps(c, block, at, size)}
  IN  IF /\ block \in live
         /\ Cardinality(hit) = 1
         /\ \A c \in hit : c.at = at /\ c.size = size /\ what \in DOMAIN c.holds
      THEN (CHOOSE c \in hit : TRUE).holds
      ELSE [to |-> Garbage, of |-> Garbage, n |-> 0, tag |-> -1, number |-> Garbage]

RECURSIVE Load(_, _, _, _, _, _)
Load(place, memory, live, block, base, unit) ==
  LET At(at, size, what) == Holds(memory, live, block, base + at, size, what)
  IN
  CASE place.kind = "nil" -> <<>>
    [] place.kind = "scalar" -> At(place.at, place.size, "number").number
    [] place.kind = "pair" ->
         LET to == At(place.at, unit, "to").to
         IN  IF to \in live /\ At(place.len, unit, "of").of = to THEN to ELSE Garbage
    [] place.kind = "items" ->
         LET to == At(place.at, unit, "to").to
             length == At(place.len, unit, "of")
         IN  IF length.of # to THEN Garbage
             ELSE [i \in 1..length.n |->
                     Load(place.elem, memory, live, to, (i - 1) * place.stride, 4)]
    [] place.kind = "fields" ->
         [i \in DOMAIN place.places |->
            Load(place.places[i], memory, live, block, base, unit)]
    [] place.kind = "switch" ->
         LET tag == At(place.at, 1, "tag").tag
         IN  IF tag + 1 \in DOMAIN place.cases
             THEN <<tag, Load(place.cases[tag + 1], memory, live, block, base, unit)>>
             ELSE <<-1, Garbage>>
=============================================================================
