------------------------------ MODULE HirLowering ------------------------------
(***************************************************************************)
(* HirLowerModern: how the statements of one function body become basic    *)
(* blocks (src/src/sema/hir-lower-block.cpp, hir-lower-stmt.cpp).  The     *)
(* source recurses over the syntax tree; here each action reads the next   *)
(* statement, and the recursion is the stack `scopes` of blocks whose      *)
(* closing brace has not been read.  A deferred body is one instruction,   *)
(* named by the place of its `defer`; an expression without control flow   *)
(* is not represented.                                                     *)
(*                                                                         *)
(* Four instructions have no counterpart in the code: "enter", "leave" and *)
(* "defer" mark where the source program enters a block, leaves one or     *)
(* more, and reaches a defer; "abandon" where it leaves the function and   *)
(* no cleanup was asked for.  Nothing reads them here: they are what the   *)
(* execution in ControlFlow compares the emitted code with.                *)
(***************************************************************************)
EXTENDS Naturals, Sequences, SequencesExt

VARIABLES
  blocks,    \* current_fn_->blocks: instructions, terminator, and the scopes it lies in
  current,   \* current_block_
  loops,     \* loop_stack_
  cleanups,  \* cleanup_stack_: per frame the deferred bodies lowered into it
  pending,   \* pending_defers_: per block the defers read and not yet lowered
  scopes     \* blocks of the source being lowered, innermost last

lowering == <<blocks, current, loops, cleanups, pending, scopes>>

None == [kind |-> "none"]
Ret  == [kind |-> "ret"]
Panic == [kind |-> "panic"]
Jump(b) == [kind |-> "jump", to |-> b]
Branch(c, t, e) == [kind |-> "branch", cond |-> c, yes |-> t, no |-> e]

Mark(op, arg) == [op |-> op, arg |-> arg]
Here == <<current, Len(blocks[current].insts) + 1>>
Open == blocks[current].term = None

newBlock == [insts |-> <<>>, term |-> None, nest |-> <<>>]
Grow(code, n) == code \o [i \in 1..n |-> newBlock]
Emit(code, b, insts) == [code EXCEPT ![b].insts = @ \o insts]
Seal(code, b, term) == [code EXCEPT ![b].term = term]
\* `if (terminator == kInvalidHirExpr) emitJump(b)`
FallInto(code, from, b) ==
  IF code[from].term = None THEN Seal(code, from, Jump(b)) ELSE code

InScopes(s) == [i \in DOMAIN s |-> s[i].at]
SetCurrent(code, b, s) ==
  /\ current' = b
  /\ blocks' = [code EXCEPT ![b].nest = InScopes(s)]

(***************************************************************************)
(* Deferred bodies.                                                        *)
(***************************************************************************)
Runs(op, bodies) == [i \in DOMAIN bodies |-> Mark(op, bodies[i])]

\* Mutant of flushPendingDefers: the defers of every open block.
FlushEveryBlock ==
  IF Open THEN [cleanups EXCEPT ![Len(cleanups)] = @ \o FlattenSeq(pending)] ELSE cleanups

\* flushPendingDefers: the innermost block's defers, in source order
flushPendingDefers ==
  IF Open THEN [cleanups EXCEPT ![Len(cleanups)] = @ \o Last(pending)] ELSE cleanups

\* Mutant of emitCleanupFrom: in source order.
EmitForwards(code, frames, first) ==
  IF code[current].term = None
  THEN Emit(code, current, Runs("unwind", FlattenSeq(SubSeq(frames, first, Len(frames)))))
  ELSE code

\* emitCleanupFrom: from the top frame down to `first`, each frame backwards
emitCleanupFrom(code, frames, first) ==
  IF code[current].term = None
  THEN Emit(code, current,
            Runs("unwind", Reverse(FlattenSeq(SubSeq(frames, first, Len(frames))))))
  ELSE code

(***************************************************************************)
(* lowerBlock: its beginning and its end.  An if branch and a loop body    *)
(* push a frame of their own around the block's.                           *)
(***************************************************************************)
OwnFrame(part) == IF part \in {"then", "else", "elif", "loop"} THEN 1 ELSE 0

BeginBlock(code, b, scope, outer, frames, waiting) ==
  /\ current' = b
  /\ LET at == <<b, Len(code[b].insts) + 1>> IN
     /\ scopes' = Append(outer, [scope EXCEPT !.at = at])
     /\ blocks' = [Emit(code, b, <<Mark("enter", at)>>)
                     EXCEPT ![b].nest = IF b = current THEN @ ELSE InScopes(outer)]
  /\ cleanups' = frames \o [i \in 1..(1 + OwnFrame(scope.part)) |-> <<>>]
  /\ pending' = Append(waiting, <<>>)

EndBlock ==
  LET frames == flushPendingDefers
      code   == IF Open THEN Emit(blocks, current, Runs("run", Last(frames))) ELSE blocks
  IN IF Open THEN Emit(code, current, <<Mark("leave", 1)>>) ELSE code

Scope(part, after, other, left) ==
  [at |-> <<0, 0>>, part |-> part, after |-> after, other |-> other, left |-> left]

InitLowering ==
  /\ current = 1
  /\ blocks = <<[newBlock EXCEPT !.insts = <<Mark("enter", <<1, 1>>)>>]>>
  /\ loops = <<>> /\ cleanups = << <<>> >> /\ pending = << <<>> >>
  /\ scopes = <<[Scope("body", 0, 0, 0) EXCEPT !.at = <<1, 1>>]>>

(***************************************************************************)
(* Statements.  lowerBlock skips what follows a terminator in its block:   *)
(* such statements are not read, except in the body of an `else (cond)`.   *)
(***************************************************************************)
Defer ==
  /\ Open
  /\ pending' = [pending EXCEPT ![Len(pending)] = Append(@, Here)]
  /\ blocks' = Emit(blocks, current, <<Mark("defer", Here)>>)
  /\ UNCHANGED <<current, loops, cleanups, scopes>>

\* A statement whose only effect is the instruction it emits.
Plain(op) ==
  /\ Open
  /\ blocks' = Emit(blocks, current, <<Mark(op, 0)>>)
  /\ UNCHANGED <<current, loops, cleanups, pending, scopes>>

\* `return value;`: the cleanup is emitted, then the value is lowered.  A jump
\* to another state lowers alike, with a tail call as the terminator.
Return ==
  /\ Open
  /\ cleanups' = flushPendingDefers
  /\ blocks' = Seal(Emit(emitCleanupFrom(blocks, cleanups', 1), current,
                         <<Mark("value", 0), Mark("leave", Len(scopes))>>),
                    current, Ret)
  /\ UNCHANGED <<current, loops, pending, scopes>>

(***************************************************************************)
(* Expressions that branch, as a statement or an initializer.  The lowered *)
(* test leads to two new blocks; what follows goes on in the first.        *)
(***************************************************************************)
Ends(insts, term) == [insts |-> insts, term |-> term, nest |-> InScopes(scopes)]

BranchTo(failing) ==
  LET pass == Len(blocks) + 1  fail == Len(blocks) + 2
      code == Seal(Grow(blocks, 2), current, Branch("opaque", pass, fail))
  IN /\ Open
     /\ SetCurrent([code EXCEPT ![fail] = failing], pass, scopes)
     /\ UNCHANGED <<loops, cleanups, pending, scopes>>

\* `x?`: none is returned from the function as it is
lowerOptionalProp == BranchTo(Ends(<<Mark("abandon", Len(scopes))>>, Ret))

\* @assert in a test, which returns the number of the failure: what was lowered
\* into the frames is emitted, and nothing is lowered for it.
lowerTestAssert ==
  BranchTo(Ends(Runs("unwind", Reverse(FlattenSeq(cleanups))) \o <<Mark("abandon", Len(scopes))>>, Ret))

\* `x must`; @assert and @check outside a test likewise
lowerOptionalPayload == BranchTo(Ends(<<>>, Panic))

\* An element or a slice within bounds, or none: both blocks store the result and
\* meet again.  A cast from opaque and @check in a test branch alike.
lowerIndex ==
  LET some == Len(blocks) + 1  none == some + 1  merge == some + 2
      code == Seal(Grow(blocks, 3), current, Branch("opaque", some, none))
  IN /\ Open
     /\ SetCurrent([code EXCEPT ![some] = Ends(<<>>, Jump(merge)), ![none] = Ends(<<>>, Jump(merge))],
                   merge, scopes)
     /\ UNCHANGED <<loops, cleanups, pending, scopes>>

\* `return x?;`: the cleanup lies before the branch, on both ways out.
ReturnProp ==
  LET out == Ends(<<Mark("leave", Len(scopes))>>, Ret)
      code == Grow(emitCleanupFrom(blocks, cleanups', 1), 2)
      some == Len(blocks) + 1
  IN /\ Open
     /\ cleanups' = flushPendingDefers
     /\ current' = some
     /\ blocks' = [Seal(code, current, Branch("opaque", some, some + 1))
                     EXCEPT ![some] = out, ![some + 1] = out]
     /\ UNCHANGED <<loops, pending, scopes>>

\* `break` and `continue`, with the label of the k-th loop from the innermost:
\* what follows is lowered into a new block that nothing jumps to.
LeaveLoop(k, target) ==
  /\ Open /\ k < Len(loops)
  /\ LET loop == loops[Len(loops) - k]
         code == Emit(emitCleanupFrom(blocks, cleanups', loop.cleanup_depth), current,
                      <<Mark("leave", Len(scopes) - loop.outside)>>)
     IN /\ cleanups' = flushPendingDefers
        /\ SetCurrent(Grow(Seal(code, current, Jump(loop[target])), 1), Len(blocks) + 1, scopes)
  /\ UNCHANGED <<loops, pending, scopes>>

Break(k) == LeaveLoop(k, "break_block")
Continue(k) == LeaveLoop(k, "continue_block")

OpenBlock ==
  /\ Open
  /\ BeginBlock(blocks, current, Scope("block", 0, 0, 0), scopes, cleanups, pending)
  /\ UNCHANGED loops

\* Mutant of lowerIf: without an else branch control goes to the empty else block.
LowerIfIntoElse(cond, other) ==
  LET then_block == Len(blocks) + 1  else_block == Len(blocks) + 2  merge == Len(blocks) + 3
      code == Seal(Grow(blocks, 3), current, Branch(cond, then_block, else_block))
  IN /\ Open
     /\ BeginBlock(code, then_block,
                   Scope("then", merge, IF other = "none" THEN 0 ELSE else_block,
                         IF other = "elif" THEN 1 ELSE 0), scopes, cleanups, pending)
     /\ UNCHANGED loops

\* lowerIf with no else branch, an `else`, or an `else (condition)` that ends
\* the chain ("elif"); one that goes on is an if inside the else branch.
lowerIf(cond, other) ==
  LET then_block == Len(blocks) + 1  else_block == Len(blocks) + 2  merge == Len(blocks) + 3
      code == Seal(Grow(blocks, 3), current,
                   Branch(cond, then_block, IF other = "none" THEN merge ELSE else_block))
  IN /\ Open
     /\ BeginBlock(code, then_block,
                   Scope("then", merge, IF other = "none" THEN 0 ELSE else_block,
                         IF other = "elif" THEN 1 ELSE 0), scopes, cleanups, pending)
     /\ UNCHANGED loops

\* `else (condition)`: the branch on the condition, both edges of which lead to
\* the merge block, is emitted before the body is lowered into the same block.
BeginElseIf(code, then, outer, frames, waiting) ==
  /\ current' = then.other
  /\ blocks' = [Seal(code, then.other, Branch("opaque", then.after, then.after))
                  EXCEPT ![then.other].nest = InScopes(outer)]
  /\ scopes' = Append(outer, Scope("elif", then.after, 0, 0))
  /\ cleanups' = frames \o << <<>>, <<>> >>
  /\ pending' = Append(waiting, <<>>)

\* A statement in such a body, behind the terminator.
Skip == ~Open /\ Last(scopes).part = "elif" /\ UNCHANGED lowering

\* lowerWhile and the iterator form of lowerForIn jump back to the header,
\* lowerFor and a range to a step block that jumps to the header.
lowerLoop(cond, has_step) ==
  LET header == Len(blocks) + 1  body == header + 1  step == header + 2
      exit == IF has_step THEN header + 3 ELSE header + 2
      back == IF has_step THEN step ELSE header
      grown == Grow(blocks, exit - Len(blocks))
      code == Seal(Seal([grown EXCEPT ![header].nest = InScopes(scopes)], current, Jump(header)),
                   header, Branch(cond, body, exit))
  IN /\ Open
     /\ BeginBlock(IF has_step
                   THEN Seal([code EXCEPT ![step].nest = InScopes(scopes)], step, Jump(header))
                   ELSE code,
                   body, Scope("loop", exit, back, 0), scopes, cleanups, pending)
     /\ loops' = Append(loops, [continue_block |-> back, break_block |-> exit,
                                cleanup_depth |-> Len(cleanups) + 1, outside |-> Len(scopes)])

lowerWhile(cond) == lowerLoop(cond, FALSE)
lowerFor(cond) == lowerLoop(cond, TRUE)
lowerForIn(range) == lowerLoop("opaque", range)

\* lowerWhen: one case; the last is the default or branches to the merge block.
BeginCase(code, chain, merge, left, has_default, outer, frames, waiting) ==
  LET body == Len(code) + 1
      default == left = 1 /\ has_default
      next == IF left = 1 THEN merge ELSE body + 1
      head == Seal(Grow(code, IF left = 1 THEN 1 ELSE 2), chain,
                   IF default THEN Jump(body) ELSE Branch("opaque", body, next))
  IN BeginBlock([head EXCEPT ![chain].nest = IF chain = current THEN @ ELSE InScopes(outer)], body,
                Scope(IF has_default THEN "case" ELSE "open", merge, next, left - 1),
                outer, frames, waiting)

lowerWhen(cases, has_default) ==
  /\ Open
  /\ BeginCase(Grow(blocks, 1), current, Len(blocks) + 1, cases, has_default,
               scopes, cleanups, pending)
  /\ UNCHANGED loops

(***************************************************************************)
(* The closing brace of the innermost block, and the rest of the construct *)
(* it is the body of, up to the next statement that is read.               *)
(***************************************************************************)
CloseBlock ==
  LET scope  == Last(scopes)
      outer  == Front(scopes)
      frames == SubSeq(cleanups, 1, Len(cleanups) - 1 - OwnFrame(scope.part))
      waits  == Front(pending)
      joined == FallInto(EndBlock, current,
                         IF scope.part = "loop" THEN scope.other ELSE scope.after)
  IN /\ scope.part # "body"
     /\ \/ /\ scope.part = "block"
           /\ blocks' = EndBlock /\ current' = current
           /\ scopes' = outer /\ cleanups' = frames /\ pending' = waits
        \/ /\ scope.part = "then" /\ scope.other # 0 /\ scope.left = 0
           /\ BeginBlock(joined, scope.other, Scope("else", scope.after, 0, 0), outer, frames, waits)
        \/ /\ scope.part = "then" /\ scope.left > 0
           /\ BeginElseIf(joined, scope, outer, frames, waits)
        \/ /\ scope.part \in {"case", "open"} /\ scope.left > 0
           /\ BeginCase(joined, scope.other, scope.after, scope.left, scope.part = "case",
                        outer, frames, waits)
        \/ /\ scope.part # "block" /\ scope.left = 0 /\ (scope.part = "then" => scope.other = 0)
           /\ SetCurrent(joined, scope.after, outer)
           /\ scopes' = outer /\ cleanups' = frames /\ pending' = waits
     /\ loops' = IF scope.part = "loop" THEN Front(loops) ELSE loops

\* The end of the body: a block still open returns, without a value.
CloseFunction ==
  /\ Last(scopes).part = "body"
  /\ blocks' = IF Open THEN Seal(Emit(EndBlock, current, <<Mark("fall", 0)>>), current, Ret)
                       ELSE blocks
  /\ cleanups' = <<>> /\ pending' = <<>> /\ scopes' = <<>>
  /\ UNCHANGED <<current, loops>>
================================================================================
