----------------------------- MODULE VirtualMachine -----------------------------
(***************************************************************************)
(* The statements of a program as HIR-to-VM lowering (src/vm/hir-to-vm.cpp) *)
(* compiles them and runFunction() (src/vm/vm-v2.cpp) executes them: where *)
(* a variable lives, what a call passes, what a return and a jump leave.   *)
(*                                                                         *)
(* Linear memory is a sequence of cells of eight bytes; all sizes and      *)
(* alignments here are multiples of a cell, there are no heap blocks, and  *)
(* the capacity is not reached.  A cell or a register holds a word: the    *)
(* kind of value that was written and the value, but Zero is zero in every *)
(* kind.  Operands are lowered into fresh registers, so the registers of a *)
(* function are its slots' addresses, its result pointer and the words of  *)
(* the statement at hand; the argument window is the sequence `args`.      *)
(***************************************************************************)
EXTENDS Integers, Sequences, SequencesExt

CONSTANTS
  ImmediateBits  \* bits of an instruction's immediate operand, sixteen in the code

ImmediateAssumption == ImmediateBits \in Nat

VARIABLES
  frames,  \* the activations of runFunction, the innermost last
  cells,   \* the linear memory
  failed   \* the run ended with an error

machine == <<frames, cells, failed>>

Zero == <<"int", 0>>
Junk == <<"junk", 0>>   \* a word that stands for no value a program writes
Word(kind, n) == IF n = 0 THEN Zero ELSE <<kind, n>>

Top == Last(frames)

(***************************************************************************)
(* Memory and layout.                                                      *)
(***************************************************************************)
\* layoutSize, in cells: scalars and pointers take one, a struct of two ints two.
layoutSize(type) == IF type = "pair" THEN 2 ELSE 1

\* The parameters come first; a binding of the body has a slot of its own.
SlotTypes(fn) == fn.params \o fn.locals

Offset(types, i) ==
  LET from[n \in 1..(Len(types) + 1)] ==
        IF n = 1 THEN 0 ELSE from[n - 1] + layoutSize(types[n - 1])
  IN from[i]

allocBytes(memory, count) == memory \o [i \in 1..count |-> Zero]

MemCopy(memory, to, from, count) ==
  [a \in DOMAIN memory |-> IF a \in to..(to + count - 1) THEN memory[from + a - to] ELSE memory[a]]

\* The program's variables: a scalar slot is loaded, a struct is its address.
LoadSlot(f, slot) == cells[f.slots[slot]]
TypeOf(f, slot) == SlotTypes(f.fn)[slot]

aggregateAddress(f, slot) ==
  IF TypeOf(f, slot) = "ref" THEN LoadSlot(f, slot)[2] ELSE f.slots[slot]

fieldAddress(f, slot, index) == aggregateAddress(f, slot) + index - 1

(***************************************************************************)
(* Operands.                                                               *)
(***************************************************************************)
\* lowerLiteral: an integer becomes the immediate of LoadConstI32; a float is
\* taken from the constant pool.
lowerLiteral(type, n) == IF type = "flt" THEN Word("flt", n) ELSE Word("int", n % 2^ImmediateBits)

\* The types isF64Register may see in a register of type `type`.  It looks the
\* register up in the function that runFunction was called with.  After a jump
\* to another function that is not the one whose body runs: a register of the
\* same number may have any type there.
RegisterTypes(f, type) == IF f.first = f.fn THEN {type} ELSE {"int", "flt"}

\* Add and Neg on registers taken to be of one type.  Words of another type do
\* not mean anything in it, except that adding zero changes no word.
Arithmetic(op, words, type) ==
  IF \A i \in DOMAIN words : words[i] = Zero \/ words[i][1] = type
  THEN Word(type, IF op = "add" THEN words[1][2] + words[2][2] ELSE - words[1][2])
  ELSE IF op = "add" /\ Zero \in {words[1], words[2]}
       THEN IF words[1] = Zero THEN words[2] ELSE words[1]
       ELSE Junk

\* lowerOperand of a scalar expression, with the type its registers are taken
\* to have; a cast is its operand.
lowerOperand(f, e, type) ==
  CASE e.op = "literal"        -> lowerLiteral(e.type, e.n)
    [] e.op \in {"load", "cast"} -> LoadSlot(f, e.from[1])
    [] e.op = "field"          -> cells[fieldAddress(f, e.from[1], e.n)]
    [] e.op \in {"add", "neg"} ->
         Arithmetic(e.op, [i \in DOMAIN e.from |-> LoadSlot(f, e.from[i])], type)

(***************************************************************************)
(* Statements of the innermost function.                                   *)
(***************************************************************************)
StoreScalar(slot, e, type) ==
  /\ cells' = [cells EXCEPT ![Top.slots[slot]] = lowerOperand(Top, e, type)]
  /\ UNCHANGED <<frames, failed>>

\* A struct literal is built in storage of its own, then copied.
StoreLiteral(slot, first, second) ==
  LET base == Len(cells) + 1
      built == [allocBytes(cells, 2) EXCEPT ![base] = LoadSlot(Top, first),
                                            ![base + 1] = LoadSlot(Top, second)]
  IN cells' = MemCopy(built, Top.slots[slot], base, 2) /\ UNCHANGED <<frames, failed>>

StoreCopy(slot, source) ==
  /\ cells' = MemCopy(cells, Top.slots[slot], aggregateAddress(Top, source), 2)
  /\ UNCHANGED <<frames, failed>>

AssignField(slot, index, value) ==
  /\ cells' = [cells EXCEPT ![fieldAddress(Top, slot, index)] = LoadSlot(Top, value)]
  /\ UNCHANGED <<frames, failed>>

(***************************************************************************)
(* Calls.                                                                  *)
(***************************************************************************)
\* lowerCall: the register an argument is moved from.  A struct is passed as
\* the address of the variable itself, a borrow as a pointer to it.
Argument(f, slot, type) ==
  CASE type = "pair" -> aggregateAddress(f, slot)
    [] type = "ref"  -> Word("ptr", aggregateAddress(f, slot))
    [] OTHER         -> LoadSlot(f, slot)

Arguments(fn, from) == [i \in DOMAIN from |-> Argument(Top, from[i], fn.params[i])]

\* lowerModule: the prologue has storage for every slot of the function.
Storage(memory, fn) ==
  [memory |-> allocBytes(memory, Offset(SlotTypes(fn), Len(SlotTypes(fn)) + 1)),
   slots |-> [i \in DOMAIN SlotTypes(fn) |-> Len(memory) + 1 + Offset(SlotTypes(fn), i)]]

\* Mutant of StoreParameter: a struct's address is taken for its value.
StoreParameterFirstCell(memory, slot, type, arg) ==
  IF type = "pair" THEN MemCopy(memory, slot, arg, 1) ELSE [memory EXCEPT ![slot] = arg]

\* The parameters are then stored into their slots, in order; a struct is copied.
StoreParameter(memory, slot, type, arg) ==
  IF type = "pair" THEN MemCopy(memory, slot, arg, 2) ELSE [memory EXCEPT ![slot] = arg]

StoreParameters(memory, slots, fn, args) ==
  LET stored[n \in 0..Len(args)] ==
        IF n = 0 THEN memory ELSE StoreParameter(stored[n - 1], slots[n], fn.params[n], args[n])
  IN stored[Len(args)]

\* LinearMemory::copy of an argument that lies beyond the end of the memory.
Unreadable(memory, fn, args) ==
  \E i \in DOMAIN args : fn.params[i] = "pair" /\ args[i] + 1 > Len(memory)

EnterFrame(below, frame, memory, args) ==
  LET storage == Storage(memory, frame.fn)
      fails   == Unreadable(storage.memory, frame.fn, args)
  IN /\ frames' = Append(below, [frame EXCEPT !.slots = storage.slots])
     /\ failed' = fails
     /\ cells' = IF fails THEN storage.memory
                 ELSE StoreParameters(storage.memory, storage.slots, frame.fn, args)

\* CallRange: the callee runs in a frame of its own.  The caller has storage in
\* its frame for a struct that is returned.
CallRange(fn, from, to) ==
  LET memory == IF fn.returns = "pair" THEN allocBytes(cells, 2) ELSE cells
  IN EnterFrame(frames,
           [fn |-> fn, first |-> fn, mark |-> Len(memory), slots |-> <<>>,
            sret |-> IF fn.returns = "pair" THEN Len(cells) + 1 ELSE 0, to |-> to],
           memory, Arguments(fn, from))

\* TailCallRange, `jump`: the frame ends before the target's begins, and passes
\* on its result pointer.
TailCallRange(fn, from) ==
  EnterFrame(Front(frames), [Top EXCEPT !.fn = fn], SubSeq(cells, 1, Top.mark), Arguments(fn, from))

\* Ret, and the store of the result in the caller: a struct is copied through
\* the result pointer before the frame ends.
Ret(slot) ==
  LET caller == Last(Front(frames))
      copied == IF Top.sret = 0 THEN cells
                ELSE MemCopy(cells, Top.sret, aggregateAddress(Top, slot), 2)
      ended  == SubSeq(copied, 1, Top.mark)
  IN /\ Len(frames) > 1
     /\ cells' = IF Top.sret = 0 THEN [ended EXCEPT ![caller.slots[Top.to]] = LoadSlot(Top, slot)]
                 ELSE MemCopy(ended, caller.slots[Top.to], Top.sret, 2)
     /\ frames' = Front(frames) /\ UNCHANGED failed
================================================================================
