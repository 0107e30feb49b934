------------------------------ MODULE Boundary ------------------------------
(***************************************************************************)
(* Calls across the boundary of the Go component.  The host stores the     *)
(* arguments of an exported function, in memory it asks the component for  *)
(* (cabi_realloc); the wrapper of the function lifts them, unpins that     *)
(* memory and calls the Go code; what the Go code returns it lowers into   *)
(* the static return area and into memory it pins; the host reads that and *)
(* calls the function's post-return, which unpins it.  While it runs, the  *)
(* Go code calls imported functions: their wrappers lower the arguments    *)
(* into memory pinned until they return, and lift results for which the    *)
(* host asked the component for memory.                                    *)
(*                                                                         *)
(* Which of that memory is there still, Pinning says: each step here is    *)
(* one of its actions, for one value of one function.                      *)
(***************************************************************************)
EXTENDS WitImports, Pinning

CONSTANT Callers   \* the exports in whose calls imported functions are called

VARIABLES
  fn,        \* the export being called, an index of Exports, or 0
  import,    \* the import being called from it, an index of Imports, or 0
  passed,    \* the value the side that sends has passed
  arrived,   \* the value the other side has made of it
  memory     \* the cells written for the value that is passed

vars == <<fn, import, passed, arrived, memory, pinVars>>

\* The return area, or the list of arguments.
Area == <<>>
AreaSize == 26 * 4

\* What the values of the four crossings are made of: their blocks differ.
Arguments == <<1>>
Results == <<2>>
ImportArguments == <<3>>
ImportResults == <<4>>

Nothing == <<>>

Init ==
  /\ fn = 0 /\ import = 0
  /\ passed = Nothing /\ arrived = Nothing /\ memory = {}
  /\ PinInit

Live == ({Area} \cup blocks) \ freed

\* Parameters that do not fit the argument list, and results of more than
\* one flat value, are in memory.
ParamUnit(call) == IF Spills(call.takes, MaxFlatParams) THEN 4 ELSE 1
ResultUnit(call) == IF Spills(call.gives, MaxFlatResults) THEN 4 ELSE 1

\* A wrapper that takes anything in memory unpins what the host asked for;
\* one that gives anything in memory has a post-return.
RECURSIVE HasPointers(_)
HasPointers(t) ==
  CASE t.kind \in {"text", "list"} -> TRUE
    [] t.kind = "record" -> \E i \in DOMAIN t.fields : HasPointers(t.fields[i])
    [] t.kind = "variant" -> \E i \in DOMAIN t.cases : HasPointers(t.cases[i])
    [] OTHER -> FALSE
Unpins(f) == HasPointers(Exports[f].takes)
HasPostReturn(f) == HasPointers(Exports[f].gives)

\* The strings and byte lists a place leads to alias the memory they are in.
RECURSIVE Aliased(_, _)
Aliased(place, v) ==
  CASE place.kind = "pair" -> {v}
    [] place.kind = "items" -> UNION {Aliased(place.elem, v[i]) : i \in DOMAIN v}
    [] place.kind = "fields" -> UNION {Aliased(place.places[i], v[i]) : i \in DOMAIN v}
    [] place.kind = "switch" -> Aliased(place.cases[v[1] + 1], v[2])
    [] OTHER -> {}

\* One side passes a value: it is written where `place` says.
Pass(v, place, path, unit) ==
  /\ passed' = v
  /\ memory' = Store(place, v, path, Area, 0, unit)
  /\ arrived' = Nothing

-----------------------------------------------------------------------------
\* The host lowers the arguments, as the canonical ABI says.
Call(f) ==
  LET call == Exports[f] IN
  /\ phase = "idle"
  /\ \E v \in Values(call.takes, Arguments) :
       Pass(v, Canonical(call.takes, MaxFlatParams), Arguments, ParamUnit(call))
  /\ ArgumentsStored(Blocks(memory'))
  /\ fn' = f
  /\ UNCHANGED import

\* The wrapper makes Go values of the arguments.
Lift ==
  /\ phase = "called"
  /\ LET v == Load(Exports[fn].lifts, memory, Live, Area, 0, ParamUnit(Exports[fn]))
     IN  arrived' = v /\ ArgumentsLifted(Aliased(Exports[fn].lifts, v))
  /\ UNCHANGED <<fn, import, passed, memory>>

\* It unpins what the host asked for and calls the Go function.
Unpin ==
  /\ phase = "lifted"
  /\ ArgumentsUnpinned(Unpins(fn))
  /\ UNCHANGED <<fn, import, passed, arrived, memory>>

\* A mutant: the result is lowered into memory that nothing pins.
ReturnUnpinned ==
  LET call == Exports[fn] IN
  /\ phase = "running" /\ phase' = "returned"
  /\ \E v \in Values(call.gives, Results) : Pass(v, call.lowers, Results, ResultUnit(call))
  /\ blocks' = Blocks(memory') /\ freed' = {} /\ referenced' = {}
  /\ UNCHANGED <<fn, import, requested, pinned, held, given>>

\* The Go function returns; the wrapper lowers its result.
Return ==
  LET call == Exports[fn] IN
  /\ phase = "running"
  /\ \E v \in Values(call.gives, Results) : Pass(v, call.lowers, Results, ResultUnit(call))
  /\ ResultStored(Blocks(memory'))
  /\ UNCHANGED <<fn, import>>

\* The host reads the result where the canonical ABI says it is.
HostReads ==
  /\ phase = "returned"
  /\ arrived' = Load(Canonical(Exports[fn].gives, MaxFlatResults), memory, Live, Area, 0,
                     ResultUnit(Exports[fn]))
  /\ ResultRead
  /\ UNCHANGED <<fn, import, passed, memory>>

PostReturn ==
  /\ phase = "read"
  /\ ResultUnpinned(HasPostReturn(fn))
  /\ fn' = 0
  /\ passed' = Nothing /\ arrived' = Nothing /\ memory' = {}
  /\ UNCHANGED import

-----------------------------------------------------------------------------
\* The Go code calls an imported function, done with what it got before; the
\* wrapper lowers the arguments into memory that it pins.
CallOut(i) ==
  /\ phase = "running" /\ fn \in Callers
  /\ \E v \in Values(Imports[i].takes, ImportArguments) :
       Pass(v, Imports[i].lowers, ImportArguments, 1)
  /\ OutgoingStored(Blocks(memory'))
  /\ import' = i
  /\ UNCHANGED fn

\* The host reads the arguments.
Serve ==
  /\ phase = "asking"
  /\ arrived' = Load(Canonical(Imports[import].takes, MaxFlatParams), memory, Live, Area, 0, 1)
  /\ OutgoingRead
  /\ UNCHANGED <<fn, import, passed, memory>>

\* It stores the result in the return area of the wrapper and in memory it
\* asks for.
Answer ==
  LET call == Imports[import] IN
  /\ phase = "served"
  /\ \E v \in Values(call.gives, ImportResults) :
       Pass(v, Canonical(call.gives, MaxFlatResults), ImportResults, ResultUnit(call))
  /\ AnswerStored(Blocks(memory'))
  /\ UNCHANGED <<fn, import>>

\* The wrapper makes Go values of the result; its pinner goes.
LiftAnswer ==
  LET call == Imports[import] IN
  /\ phase = "answered"
  /\ LET v == Load(call.lifts, memory, Live, Area, 0, ResultUnit(call))
     IN  arrived' = v /\ AnswerLifted(Aliased(call.lifts, v))
  /\ import' = 0
  /\ UNCHANGED <<fn, passed, memory>>

Next ==
  \/ \E f \in DOMAIN Exports : Call(f)
  \/ \E i \in DOMAIN Imports : CallOut(i)
  \/ Lift \/ Unpin \/ Return \/ HostReads \/ PostReturn
  \/ Serve \/ Answer \/ LiftAnswer
  \/ Collect /\ UNCHANGED <<fn, import, passed, arrived, memory>>

Spec == Init /\ [][Next]_vars

-----------------------------------------------------------------------------
\* Every argument reaches the function, and every result its caller, as it
\* was passed: at the offset, of the size and under the tag the other side
\* looks for, and in memory that is still there when it is read.
Arrives == phase \in {"lifted", "running", "read", "served"} => arrived = passed

\* Whatever is written into the return area is within it, and every element
\* of a list is within what was allocated for the list.
InBounds ==
  \A c \in memory :
    IF c.block = Area
    THEN /\ phase = "returned" => c.at + c.size <= AreaSize
         /\ phase = "answered" /\ ResultUnit(Imports[import]) = 4 =>
              c.at + c.size <= Imports[import].area
    ELSE \E l \in memory :
           /\ "of" \in DOMAIN l.holds
           /\ l.holds.of = c.block
           /\ c.at + c.size <= l.holds.bytes
=============================================================================
