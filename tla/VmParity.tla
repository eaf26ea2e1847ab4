-------------------------------- MODULE VmParity --------------------------------
(***************************************************************************)
(* A program run by the virtual machine beside the same program run as     *)
(* native code (src/codegen/): `values` holds what native code gives each  *)
(* variable.  Native integers wrap at their declared width, casts convert, *)
(* structs are passed by value and borrows as pointers.  A program is any  *)
(* sequence of statements over the variables of the functions it is in; a  *)
(* function's body is chosen as it is run.  A program is followed until it *)
(* uses one of the constructs in `uses`, on which the two may differ.      *)
(***************************************************************************)
EXTENDS VirtualMachine, FiniteSets

CONSTANTS
  Program,        \* functions: types of the parameters and of other bindings, result, state
  Main,           \* its first function, and
  Bindings,       \* the values its bindings are initialized with
  Literals, Floats,
  IntBits,        \* width of the declared integer type
  MaxStatements, MaxFrames

\* A function has scalars, structs and borrows of structs, and returns a scalar
\* or a struct; main borrows nothing.  A literal has no sign.
ProgramAssumption ==
  /\ \A fn \in Program \cup {Main} :
       /\ {fn.params, fn.locals} \subseteq Seq({"int", "flt", "pair", "ref"})
       /\ fn.returns \in {"int", "flt", "pair"} /\ fn.state \in BOOLEAN
  /\ Bindings \in Seq(Seq(Int)) /\ Len(Bindings) = Len(SlotTypes(Main))
  /\ \A i \in DOMAIN Bindings :
       SlotTypes(Main)[i] # "ref" /\ Len(Bindings[i]) = layoutSize(SlotTypes(Main)[i])
  /\ Literals \subseteq Nat /\ Floats \subseteq Int

BoundsAssumption ==
  {ImmediateBits, IntBits, MaxStatements} \subseteq Nat /\ MaxFrames \in Nat \ {0}

VARIABLES
  values,  \* per frame and slot: <<>> before the first assignment, then a number,
           \* two numbers, or the frame and slot a borrow is of
  uses,    \* constructs used that the machine treats otherwise than native code
  count    \* statements so far

parityVars == <<machine, values, uses, count>>

CallDepth == Len(frames)
Wrap(n) == LET half == 2^(IntBits - 1) IN ((n + half) % (2 * half)) - half

\* The memory when each slot holds the value its variable is given.
Encode(types, slots, given) ==
  [a \in 1..Offset(types, Len(types) + 1) |->
     LET i == CHOOSE i \in DOMAIN types : a \in slots[i]..(slots[i] + layoutSize(types[i]) - 1)
     IN Word(IF types[i] = "flt" THEN "flt" ELSE "int", given[i][a - slots[i] + 1])]

\* main, when its bindings have been initialized
ParityInit ==
  LET storage == Storage(<<>>, Main) IN
  /\ frames = <<[fn |-> Main, first |-> Main, mark |-> 0, slots |-> storage.slots,
                 sret |-> 0, to |-> 0]>>
  /\ cells = Encode(SlotTypes(Main), storage.slots, Bindings)
  /\ failed = FALSE /\ values = <<Bindings>> /\ uses = {} /\ count = 0

(***************************************************************************)
(* Native values.                                                          *)
(***************************************************************************)
Set(types) == {i \in DOMAIN Last(values) : TypeOf(Top, i) \in types /\ Last(values)[i] # <<>>}

\* The variable a struct operand denotes: itself, or what it borrows.
Referent(slot) == IF TypeOf(Top, slot) = "ref" THEN Last(values)[slot] ELSE <<CallDepth, slot>>
Struct(slot) == values[Referent(slot)[1]][Referent(slot)[2]]
Number(slot) == Last(values)[slot][1]

Expressions(type) ==
  LET Expr(op, from, n) == [op |-> op, type |-> type, from |-> from, n |-> n]
      other == IF type = "int" THEN "flt" ELSE "int"
  IN {Expr("literal", <<>>, n) : n \in IF type = "int" THEN Literals ELSE Floats}
     \cup {Expr("load", <<i>>, 0) : i \in Set({type})}
     \cup {Expr("neg", <<i>>, 0) : i \in Set({type})}
     \cup {Expr("cast", <<i>>, 0) : i \in Set({other})}
     \cup {Expr("add", <<i, j>>, 0) : i, j \in Set({type})}
     \cup IF type = "int" THEN {Expr("field", <<i>>, k) : i \in Set({"pair", "ref"}), k \in 1..2}
          ELSE {}

\* Before it is wrapped: emitLiteral, HirCast, emitBinary
Exact(e) ==
  CASE e.op = "literal"          -> e.n
    [] e.op \in {"load", "cast"} -> Number(e.from[1])
    [] e.op = "field"            -> Struct(e.from[1])[e.n]
    [] e.op = "neg"              -> - Number(e.from[1])
    [] e.op = "add"              -> Number(e.from[1]) + Number(e.from[2])

emitExpr(e) == IF e.type = "int" THEN Wrap(Exact(e)) ELSE Exact(e)

Differences(e, seen) ==
  (IF e.type = "int" /\ e.op = "literal" /\ e.n >= 2^ImmediateBits THEN {"wide literal"} ELSE {})
  \cup (IF e.op = "cast" THEN {"conversion"} ELSE {})
  \cup (IF emitExpr(e) # Exact(e) THEN {"overflow"} ELSE {})
  \cup (IF e.op \in {"add", "neg"} /\ seen # e.type THEN {"register type"} ELSE {})

(***************************************************************************)
(* Statements.                                                             *)
(***************************************************************************)
Statement == ~failed /\ uses = {} /\ count < MaxStatements /\ count' = count + 1
Agrees == UNCHANGED uses

Slot(types) == {i \in DOMAIN Last(values) : TypeOf(Top, i) \in types}

Store ==
  \E slot \in Slot({"int", "flt"}) : \E e \in Expressions(TypeOf(Top, slot)) :
    \E seen \in RegisterTypes(Top, e.type) :
      /\ Statement /\ StoreScalar(slot, e, seen)
      /\ values' = [values EXCEPT ![CallDepth][slot] = <<emitExpr(e)>>]
      /\ uses' = Differences(e, seen)

StoreStruct ==
  \E slot \in Slot({"pair"}) :
    /\ Statement /\ Agrees
    /\ \/ \E i, j \in Set({"int"}) :
            /\ StoreLiteral(slot, i, j)
            /\ values' = [values EXCEPT ![CallDepth][slot] = <<Number(i), Number(j)>>]
       \/ \E source \in Set({"pair", "ref"}) :
            /\ StoreCopy(slot, source)
            /\ values' = [values EXCEPT ![CallDepth][slot] = Struct(source)]

SetField ==
  \E slot \in Set({"pair", "ref"}), index \in 1..2, i \in Set({"int"}) :
    /\ Statement /\ Agrees /\ AssignField(slot, index, i)
    /\ values' = [values EXCEPT ![Referent(slot)[1]][Referent(slot)[2]][index] = Number(i)]

\* The variables that may be passed for the parameters of a function.
Passed(fn, types) ==
  {from \in [DOMAIN fn.params -> DOMAIN Last(values)] :
     \A i \in DOMAIN from : from[i] \in Set(types[fn.params[i]])}

ByType == [int |-> {"int"}, flt |-> {"flt"}, pair |-> {"pair", "ref"}, ref |-> {"pair", "ref"}]

Given(fn, from) ==
  [i \in DOMAIN SlotTypes(fn) |->
     IF i > Len(from) THEN <<>>
     ELSE CASE fn.params[i] = "pair" -> Struct(from[i])
            [] fn.params[i] = "ref"  -> Referent(from[i])
            [] OTHER                 -> Last(values)[from[i]]]

\* A call, or the `dock` of a state
Call ==
  \E fn \in Program : \E from \in Passed(fn, ByType), to \in Slot({fn.returns}) :
    /\ Statement /\ Agrees /\ CallDepth < MaxFrames
    /\ CallRange(fn, from, to)
    /\ values' = Append(values, Given(fn, from))

\* `jump` to a state of the same machine.  A borrow of a variable of the frame
\* that ends is not passed: native code has no storage for it either.
JumpState ==
  \E fn \in Program : \E from \in Passed(fn, [ByType EXCEPT !.ref = {"ref"}]) :
    /\ Statement /\ Top.fn.state /\ fn.state /\ fn.returns = Top.fn.returns
    /\ TailCallRange(fn, from)
    /\ values' = Append(Front(values), Given(fn, from))
    /\ uses' = IF \E i \in DOMAIN from : fn.params[i] = "pair" /\ TypeOf(Top, from[i]) = "pair"
               THEN {"struct jump"} ELSE {}

Return ==
  \E slot \in Set(IF Top.fn.returns = "pair" THEN {"pair", "ref"} ELSE {Top.fn.returns}) :
    /\ Statement /\ Agrees /\ Ret(slot)
    /\ values' = [Front(values) EXCEPT ![CallDepth - 1][Top.to] =
                    IF Top.fn.returns = "pair" THEN Struct(slot) ELSE Last(values)[slot]]

ParityNext == Store \/ StoreStruct \/ SetField \/ Call \/ JumpState \/ Return

ParitySpec == ParityInit /\ [][ParityNext]_parityVars

(***************************************************************************)
(* Properties.                                                             *)
(***************************************************************************)
Represents(d, i) ==
  LET f == frames[d]  type == TypeOf(f, i)  value == values[d][i]  at == f.slots[i] IN
  CASE type = "ref" -> cells[at] = Word("ptr", frames[value[1]].slots[value[2]])
    [] OTHER -> \A k \in DOMAIN value :
                  cells[at + k - 1] = Word(IF type = "flt" THEN "flt" ELSE "int", value[k])

\* Every variable of every live function holds what native code gives it, and
\* the run does not fail, as long as the program has no integer literal beyond
\* the immediate, no conversion between integers and floats, no overflow of a
\* declared integer, no jump that passes a struct of the frame it ends, and no
\* arithmetic behind a jump on registers the first function has as another type.
MatchesNative ==
  uses = {} =>
    /\ ~failed
    /\ \A d \in DOMAIN frames : \A i \in DOMAIN values[d] :
         values[d][i] # <<>> => Represents(d, i)

\* memory/vm-v2-drawing.md: arithmetic must dispatch using the register's type.
DispatchByType == "register type" \notin uses
================================================================================
