------------------------------- MODULE FlowFacts -------------------------------
(***************************************************************************)
(* PerModuleSema: what the checker concludes from the control flow of one  *)
(* function body (src/src/sema/sema-control.cpp): whether a block always   *)
(* terminates, whether a loop body contains a break, and of one local      *)
(* whether it is proven non-null, moved away or not yet initialized at     *)
(* each point.  The checker recurses over the tree; here `open` holds what *)
(* it knows so far of each block whose closing brace has not been read.    *)
(***************************************************************************)
EXTENDS Naturals, Sequences, SequencesExt

VARIABLES
  open,    \* per open block: its construct, and the answers for what was read of it
  proven,  \* the pointer is in provenNonNullExprs
  moved,   \* the local is in movedLocals_
  unset    \* the local is in uninitializedLocals_

flags == <<moved, unset>>
checker == <<open, proven, flags>>

Inner == Last(open)
Opened(part, cond, has_more, was, others) ==
  [part |-> part, cond |-> cond,
   has_more |-> has_more,    \* an else branch, or another case, follows
   was |-> was,              \* narrowed_proof_was_present
   others |-> others,        \* the branches read before: [ends, breaks]
   ends |-> FALSE,           \* blockAlwaysTerminates
   breaks |-> FALSE]         \* exprContainsBreak

NoBranches == [ends |-> TRUE, breaks |-> FALSE]

\* The sets are cleared for each body; a binding with an initializer is in neither.
InitChecker ==
  /\ open = <<Opened("body", "opaque", FALSE, FALSE, NoBranches)>>
  /\ proven = FALSE /\ moved = FALSE /\ unset \in BOOLEAN

\* statementAlwaysTerminates and statementContainsBreak, folded into the block
Note(stack, ends, breaks) ==
  [stack EXCEPT ![Len(stack)].ends = @ \/ ends, ![Len(stack)].breaks = @ \/ breaks]

CheckReturn == open' = Note(open, TRUE, FALSE) /\ UNCHANGED <<proven, flags>>
CheckBreak  == open' = Note(open, FALSE, TRUE) /\ UNCHANGED <<proven, flags>>
CheckOther  == UNCHANGED checker

\* Mutant of CheckWrite: the proof outlives the write.
CheckWriteKeeping == UNCHANGED checker
\* inferAssign: a write to the binding erases the proof.
CheckWrite == proven' = FALSE /\ UNCHANGED <<open, flags>>
\* inferUnary, inferArrow: a dereference is accepted only with the proof.
CheckDeref == proven /\ UNCHANGED checker

\* inferExpr: a name is read only while its local is in neither set.
CheckRead == ~moved /\ ~unset /\ UNCHANGED checker

\* Mutant of CheckMove: the receiver is not invalidated.
CheckMoveKeeping == CheckRead
\* `&v`, or a method that consumes its receiver: the local is read and moved.
CheckMove == ~moved /\ ~unset /\ moved' = TRUE /\ UNCHANGED <<open, proven, unset>>

\* inferAssign, checkMovedRoot: a direct assignment revives the local before the
\* assigned value is looked at, so `v = f(v)` is an assignment like any other.
CheckAssign == moved' = FALSE /\ unset' = FALSE /\ UNCHANGED <<open, proven>>

\* The condition is about the pointer: `p is null`, or `not (p is null)`.
Narrows(cond) == cond \in {"isnull", "notnull"}

CheckBlock ==
  /\ open' = Append(open, Opened("block", "opaque", FALSE, proven, NoBranches))
  /\ UNCHANGED <<proven, flags>>

inferIf(cond, has_else) ==
  /\ open' = Append(open, Opened("then", cond, has_else, proven, NoBranches))
  /\ proven' = (proven \/ cond = "notnull") /\ UNCHANGED flags

\* inferWhile, inferFor: only `not (p is null)` narrows the body.
inferLoop(cond) ==
  /\ open' = Append(open, Opened("loop", cond, FALSE, proven, NoBranches))
  /\ proven' = (proven \/ cond = "notnull") /\ UNCHANGED flags

inferForIn ==
  /\ open' = Append(open, Opened("forin", "opaque", FALSE, proven, NoBranches))
  /\ UNCHANGED <<proven, flags>>

inferWhen(cases, has_default) ==
  /\ open' = Append(open, Opened("case", IF has_default THEN "default" ELSE "opaque",
                                 cases > 1, proven, NoBranches))
  /\ UNCHANGED <<proven, flags>>

\* Mutant of exprAlwaysTerminates: a break does not end an endless loop.
TerminatesDespiteBreak(e) ==
  \/ e.part \in {"block", "forin"} /\ e.ends
  \/ e.part \in {"else", "case"} /\ e.ends /\ e.others.ends /\ e.cond # "opaque"
  \/ e.part = "loop" /\ e.cond = "true"

\* exprAlwaysTerminates of the construct whose last block is closing
exprAlwaysTerminates(e) ==
  CASE e.part = "block" -> e.ends
    [] e.part = "then"  -> FALSE
    [] e.part = "else"  -> e.ends /\ e.others.ends
    [] e.part = "case"  -> e.cond = "default" /\ e.ends /\ e.others.ends
    [] e.part = "loop"  -> e.cond = "true" /\ ~e.breaks
    [] e.part = "forin" -> e.ends

exprContainsBreak(e) == e.breaks \/ e.others.breaks
Sofar(e) == [ends |-> e.ends /\ e.others.ends, breaks |-> exprContainsBreak(e)]

\* keep_non_null_proof: the branch that could leave the pointer null terminates
KeepsProof(e) ==
  \/ e.cond = "isnull" /\ (IF e.part = "else" THEN e.others.ends ELSE e.ends)
  \/ e.cond = "notnull" /\ e.part = "else" /\ e.ends

\* The next branch: the proof of the then branch does not reach the else branch,
\* which is proven when the condition is `p is null`.  What a branch moved or
\* assigned stays moved or assigned, in the next branch and after the construct.
NextBranch(part, has_more) ==
  /\ open' = Append(Front(open), Opened(part, Inner.cond, has_more, Inner.was, Sofar(Inner)))
  /\ proven' = IF Narrows(Inner.cond) THEN Inner.cond = "isnull" ELSE proven
  /\ UNCHANGED flags

EndConstruct ==
  /\ open' = Note(Front(open), exprAlwaysTerminates(Inner), exprContainsBreak(Inner))
  /\ proven' = CASE Inner.part \in {"then", "else"} /\ Narrows(Inner.cond) ->
                      Inner.was \/ KeepsProof(Inner)
                 [] Inner.part = "loop" /\ Inner.cond = "notnull" -> FALSE
                 [] OTHER -> proven
  /\ UNCHANGED flags

\* checkReturnsAndCalls: the body of a function that returns a value, when the
\* body has none itself, must always terminate.
CheckFunction(returns_value) ==
  /\ Inner.part = "body"
  /\ returns_value => Inner.ends
  /\ open' = <<>> /\ UNCHANGED <<proven, flags>>
================================================================================
