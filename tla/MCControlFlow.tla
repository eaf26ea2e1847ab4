----------------------------- MODULE MCControlFlow -----------------------------
(***************************************************************************)
(* Every program of a few statements, in several vocabularies: defers      *)
(* crossed by each kind of exit and construct, defers nested deeper,       *)
(* writes and tests of a pointer, moves and assignments of a local, and    *)
(* loops that may not end a function.                                      *)
(***************************************************************************)
EXTENDS ControlFlow

Cleanups == [most |-> 4, depth |-> 3, kinds |-> {"defer", "return", "break", "continue", "block",
                                                 "if", "while", "for", "when"}]
Nested   == [most |-> 5, depth |-> 4, kinds |-> {"defer", "return", "break", "if", "while"}]
Proofs   == [most |-> 4, depth |-> 3, kinds |-> {"deref", "null", "return", "break", "if", "while"}]
Bindings == [most |-> 4, depth |-> 3, kinds |-> {"read", "assign", "move", "update", "return",
                                                 "break", "if", "while"}]
Endings  == [most |-> 4, depth |-> 3, kinds |-> {"return", "break", "if", "while", "forin", "when",
                                                 "true"}]

\* Branches inside expressions: `x?` in a function that returns an optional, and
\* @assert and @check in a test.
Escapes  == [most |-> 4, depth |-> 3, kinds |-> {"defer", "x?", "return?", "must", "index", "break",
                                                 "block", "if", "while"}]
Tests    == [most |-> 4, depth |-> 3, kinds |-> {"defer", "assert", "index", "break", "continue", "if",
                                                 "while"}]

\* The same with an `else (condition)`.
ElseIfs  == {[most |-> 4, depth |-> 3, kinds |-> {"defer", "return", "if", "elif"}],
             [most |-> 3, depth |-> 3, kinds |-> {"deref", "null", "set", "return", "if", "elif"}],
             [most |-> 3, depth |-> 3, kinds |-> {"return", "break", "while", "if", "elif", "true"}]}

AllFamilies == {Cleanups, Nested, Proofs, Bindings, Endings, Escapes, Tests} \cup ElseIfs
OnlyCleanups == {Cleanups}
OnlyProofs == {Proofs}
================================================================================
