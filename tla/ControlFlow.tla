------------------------------ MODULE ControlFlow ------------------------------
(***************************************************************************)
(* One function body, checked (FlowFacts) and lowered (HirLowering), and   *)
(* then the emitted blocks executed.  The program is any program of one of *)
(* the Families that the checker accepts: each statement is chosen as it   *)
(* is read.  The execution takes either edge of a branch whose condition   *)
(* is opaque.                                                              *)
(***************************************************************************)
EXTENDS HirLowering, FlowFacts

CONSTANTS Families,   \* statement kinds, the most statements of a program of them, and
                      \* the most blocks open at once, the body included
          MaxDefers   \* defers of the open blocks

ASSUME BoundsAssumption ==
  /\ \A f \in Families : f.most \in Nat /\ f.depth \in Nat \ {0}
  /\ MaxDefers \in Nat

VARIABLES
  family,  \* the kinds of statement the program is written in
  size,    \* its statements so far
  uses,    \* constructs it has used that the properties name
  phase,   \* "read", then "run", then "done"
  value,   \* the function returns a value
  at,      \* the next instruction: block and index
  due,     \* per block entered: its place, and its defers reached and not yet run
  pointer, \* the pointer's value: "null" or "set"
  local    \* the local's: "unset", "live" or "moved"

machine == <<at, due, pointer, local>>
vars == <<lowering, checker, family, size, uses, phase, value, machine>>

Kinds == family.kinds

Init ==
  /\ InitLowering /\ InitChecker
  /\ family \in Families /\ size = 0 /\ uses = {} /\ phase = "read" /\ value = FALSE
  /\ (unset => "read" \in Kinds)
  /\ at = <<1, 1>> /\ due = <<>>
  /\ pointer \in IF "deref" \in Kinds THEN {"null", "set"} ELSE {"set"}
  /\ local = IF unset THEN "unset" ELSE "live"

(***************************************************************************)
(* Reading the program.                                                    *)
(***************************************************************************)
Reads(kind, seen) ==
  /\ phase = "read" /\ kind \in Kinds /\ size < family.most
  /\ size' = size + 1 /\ uses' = uses \cup seen
  /\ UNCHANGED <<family, phase, value, machine>>

Opens(kind, seen) == Reads(kind, seen) /\ Len(scopes) < family.depth

ReadDefer    == /\ Reads("defer", {"defer"}) /\ Len(FlattenSeq(pending)) < MaxDefers
                /\ (Defer \/ Skip) /\ CheckOther
ReadReturn   == Reads("return", {}) /\ (Return \/ Skip) /\ CheckReturn
ReadReturnProp == Reads("return?", {}) /\ ReturnProp /\ CheckReturn
ReadProp     == Reads("x?", {}) /\ lowerOptionalProp /\ CheckOther
ReadAssert   == Reads("assert", {}) /\ lowerTestAssert /\ CheckOther
ReadMust     == Reads("must", {}) /\ lowerOptionalPayload /\ CheckOther
ReadIndex    == Reads("index", {}) /\ lowerIndex /\ CheckOther
ReadBreak    == \E k \in 0..1 : Reads("break", {}) /\ (Break(k) \/ (Skip /\ k < Len(loops))) /\ CheckBreak
ReadContinue == \E k \in 0..1 : Reads("continue", {}) /\ (Continue(k) \/ (Skip /\ k < Len(loops))) /\ CheckOther
ReadBlock    == Opens("block", {}) /\ OpenBlock /\ CheckBlock
ReadSetNull  == /\ Reads("null", IF Len(scopes) > 1 THEN {"nested write"} ELSE {})
                /\ (Plain("null") \/ Skip) /\ CheckWrite
ReadSet      == Reads("set", {}) /\ (Plain("set") \/ Skip) /\ CheckWrite
ReadDeref    == Reads("deref", {"deref"}) /\ (Plain("deref") \/ Skip) /\ CheckDeref

ReadRead   == Reads("read", {"read"}) /\ (Plain("read") \/ Skip) /\ CheckRead
ReadMove   == Reads("move", IF loops # <<>> THEN {"looped move"} ELSE {}) /\ Plain("move") /\ CheckMove
ReadAssign == /\ Reads("assign", IF Len(scopes) > 1 THEN {"nested assign"} ELSE {})
              /\ Plain("assign") /\ CheckAssign
\* `v = f(v)`
ReadUpdate == Reads("update", {"read", "update"}) /\ Plain("update") /\ CheckAssign

Conditions == IF "deref" \in Kinds THEN {"opaque", "isnull", "notnull"} ELSE {"opaque"}
LoopConditions == Conditions \cup (IF "true" \in Kinds THEN {"true"} ELSE {})

ReadIf == \E cond \in Conditions, other \in {"none", "else"} \cup ({"elif"} \cap Kinds) :
            /\ Opens("if", {})
            /\ lowerIf(cond, other) /\ inferIf(cond, other # "none")
ReadWhile == \E cond \in LoopConditions :
               Opens("while", {}) /\ lowerWhile(cond) /\ inferLoop(cond)
ReadFor == \E cond \in LoopConditions :
             Opens("for", {}) /\ lowerFor(cond) /\ inferLoop(cond)
ReadForIn == \E range \in BOOLEAN :
               Opens("forin", {}) /\ lowerForIn(range) /\ inferForIn
ReadWhen == \E cases \in 1..2, has_default \in BOOLEAN :
              Opens("when", {}) /\ lowerWhen(cases, has_default) /\ inferWhen(cases, has_default)

\* A proof kept after an if that is itself inside another construct.
LeaksProof == Inner.part \in {"then", "else"} /\ KeepsProof(Inner) /\ Len(open) > 2

\* A proof kept because the body of an `else (condition)` terminates.
TrustsElseIf == Last(scopes).part = "elif" /\ Inner.cond = "notnull" /\ Inner.ends

\* A construct that counts as terminating though control may go on behind it.
Miscounts == /\ exprAlwaysTerminates(Inner)
             /\ Inner.part = "forin" \/ Last(scopes).part = "elif"

ReadClose ==
  /\ phase = "read" /\ CloseBlock
  /\ IF Inner.has_more
     THEN NextBranch(IF Inner.part = "then" THEN "else" ELSE "case", Last(scopes).left > 1)
     ELSE EndConstruct
  /\ uses' = uses \cup (IF ~Inner.has_more /\ LeaksProof THEN {"nested proof"} ELSE {})
                  \cup (IF TrustsElseIf THEN {"else-if proof"} ELSE {})
                  \cup (IF ~Inner.has_more /\ Miscounts THEN {"miscounted"} ELSE {})
  /\ UNCHANGED <<family, size, phase, value, machine>>

\* A program of the family that has nothing the properties look at is not run.
Observed == Kinds \cap {"defer", "deref", "read"}

ReadEnd ==
  /\ phase = "read" /\ CloseFunction
  /\ Observed \subseteq uses
  /\ value' = ("true" \in Kinds) /\ CheckFunction(value')
  /\ phase' = "run"
  /\ UNCHANGED <<family, size, uses, machine>>

(***************************************************************************)
(* Executing the blocks.                                                   *)
(***************************************************************************)
Block == blocks[at[1]]
AtInst == phase = "run" /\ at[2] <= Len(Block.insts)
Inst == Block.insts[at[2]]
AtEnd == phase = "run" /\ at[2] > Len(Block.insts)

\* The first time that d is due is used up.
Without(bodies, d) ==
  IF \E i \in DOMAIN bodies : bodies[i] = d
  THEN RemoveAt(bodies, CHOOSE i \in DOMAIN bodies : bodies[i] = d)
  ELSE bodies

\* What an instruction does to the places entered and the defers reached.
Effect(inst, places) ==
  CASE inst.op = "enter" -> Append(places, [scope |-> inst.arg, bodies |-> <<>>])
    [] inst.op = "defer" -> [places EXCEPT ![Len(places)].bodies = Append(@, inst.arg)]
    [] inst.op \in {"run", "unwind"} ->
         [places EXCEPT ![Len(places)].bodies = Without(@, inst.arg)]
    [] inst.op = "leave" -> SubSeq(places, 1, Len(places) - inst.arg)
    [] OTHER -> places

Execute ==
  /\ AtInst
  /\ at' = <<at[1], at[2] + 1>>
  /\ due' = Effect(Inst, due)
  /\ pointer' = IF Inst.op \in {"null", "set"} THEN Inst.op ELSE pointer
  /\ local' = CASE Inst.op \in {"assign", "update"} -> "live"
                [] Inst.op = "move" -> "moved"
                [] OTHER -> local
  /\ UNCHANGED <<lowering, checker, family, size, uses, phase, value>>

Taken(cond) == CASE cond = "opaque"  -> BOOLEAN
                 [] cond = "true"    -> {TRUE}
                 [] cond = "isnull"  -> {pointer = "null"}
                 [] cond = "notnull" -> {pointer = "set"}

Transfer ==
  /\ AtEnd
  /\ \/ /\ Block.term.kind = "jump" /\ at' = <<Block.term.to, 1>> /\ UNCHANGED phase
     \/ /\ Block.term.kind = "branch" /\ UNCHANGED phase
        /\ \E yes \in Taken(Block.term.cond) :
             at' = <<IF yes THEN Block.term.yes ELSE Block.term.no, 1>>
     \/ /\ Block.term.kind \in {"ret", "panic"} /\ phase' = "done" /\ UNCHANGED at
  /\ UNCHANGED <<lowering, checker, family, size, uses, value, due, pointer, local>>

Next ==
  \/ ReadReturnProp \/ ReadProp \/ ReadAssert \/ ReadMust \/ ReadIndex
  \/ ReadDefer \/ ReadReturn \/ ReadBreak \/ ReadContinue \/ ReadBlock
  \/ ReadSetNull \/ ReadSet \/ ReadDeref \/ ReadRead \/ ReadMove \/ ReadAssign \/ ReadUpdate
  \/ ReadIf \/ ReadWhile \/ ReadFor \/ ReadForIn \/ ReadWhen \/ ReadClose \/ ReadEnd
  \/ Execute \/ Transfer

Spec == Init /\ [][Next]_vars

(***************************************************************************)
(* Properties.                                                             *)
(***************************************************************************)
Targets(term) == CASE term.kind = "jump" -> {term.to}
                   [] term.kind = "branch" -> {term.yes, term.no}
                   [] OTHER -> {}

\* Every terminator names a block that exists, and the stacks of the lowering
\* and of the checker describe the same open blocks.
TypeOK ==
  /\ current \in DOMAIN blocks
  /\ \A b \in DOMAIN blocks : Targets(blocks[b].term) \subseteq DOMAIN blocks
  /\ \A i \in DOMAIN loops :
       /\ {loops[i].break_block, loops[i].continue_block} \subseteq DOMAIN blocks
       /\ loops[i].cleanup_depth \in DOMAIN cleanups
  /\ Len(pending) = Len(scopes) /\ Len(open) = Len(scopes)

\* Control lands where the source says: a block begins with exactly the source
\* blocks entered that it was lowered inside, and execution never falls into a
\* block without a terminator.
LandsInScope ==
  /\ phase = "run" /\ at[2] = 1 => [i \in DOMAIN due |-> due[i].scope] = Block.nest
  /\ AtEnd => Block.term # None

RunsOnlyDue ==
  AtInst /\ Inst.op \in {"run", "unwind"} =>
    \E i \in DOMAIN Last(due).bodies : Last(due).bodies[i] = Inst.arg

InnermostRuns == AtInst /\ Inst.op = "leave" => Last(due).bodies = <<>>

\* A deferred body runs once for each time its defer was reached in the block
\* that control is leaving, however it leaves: never twice, never when the defer
\* was skipped, and not later.  An `x?` that finds none and an @assert that fails
\* leave without any of them, but `return x?` does not.
DefersRunOnce == RunsOnlyDue /\ InnermostRuns

\* At an explicit exit the defers of the block run in reverse order, also where
\* the value returned ends in one of two blocks.
ExitsInReverse == AtInst /\ Inst.op = "unwind" => Last(Last(due).bodies) = Inst.arg

\* A function that returns a value, and was accepted, ends without one only if
\* a for-in loop, or an `else (condition)` taken for an else, was counted as
\* terminating.
FallsOnlyWhereMiscounted ==
  AtInst /\ Inst.op = "fall" /\ value => "miscounted" \in uses

\* An accepted dereference meets a null pointer only in a program that writes
\* the pointer inside a construct, narrows it by an early exit inside one or in
\* the body of an `else (condition)`, or has a construct so miscounted.
ProofsHold ==
  AtInst /\ Inst.op = "deref" /\ pointer = "null" =>
    uses \cap {"nested write", "nested proof", "else-if proof", "miscounted"} # {}

\* An accepted read meets a local that was moved away or never assigned only in
\* a program that assigns it inside a construct, moves it inside a loop, or
\* reads it in the value assigned to it: the sets follow the source order and
\* neither its branches nor its rounds.
ReadsLive ==
  AtInst /\ Inst.op \in {"read", "move", "update"} /\ local # "live" =>
    uses \cap {"nested assign", "looped move", "update"} # {}

\* docs/09-control-flow.md: deferred cleanup runs on normal fallthrough and
\* across return, break, continue and jump.
NoneSkipped ==
  AtInst /\ Inst.op = "leave" =>
    \A i \in DOMAIN due : i > Len(due) - Inst.arg => due[i].bodies = <<>>

\* docs/09-control-flow.md: deferred bodies run in reverse registration order.
ReverseOrder ==
  AtInst /\ Inst.op \in {"run", "unwind"} => Last(Last(due).bodies) = Inst.arg

\* docs/impl-status.md: an accepted dereference is of a pointer proven non-null.
NullSafe == AtInst /\ Inst.op = "deref" => pointer = "set"

\* docs/impl-status.md: a path of a non-void function that falls through
\* without a value is rejected.
NonVoidReturns == ~(AtInst /\ Inst.op = "fall" /\ value)

\* docs/impl-status.md: `else (cond)` works.  What is read behind a terminator
\* is not lowered, so it must be what the checker knows to be unreachable.
SkipsOnlyDeadCode == phase = "read" /\ ~Open => Inner.ends
================================================================================
