--------------------------- MODULE ControlFlowProofs ---------------------------
(***************************************************************************)
(* Proofs about the lowering of control flow: for every program, of any    *)
(* length and depth, the basic blocks that are emitted enter, leave and    *)
(* clean up the source blocks as the source says.                          *)
(*                                                                         *)
(* The idea is an annotation of the code: the state (places entered,       *)
(* defers reached) every basic block is entered with, and the set of those *)
(* control can reach.  While a function is read the annotation is kept up  *)
(* with the stacks of the lowering (Lowers); when it is whole, execution   *)
(* follows it (Underway).                                                  *)
(***************************************************************************)
EXTENDS ControlFlow, NumberLemmas, SequenceTheorems

(***************************************************************************)
(* Sequences.                                                              *)
(***************************************************************************)
\* f[i] is the concatenation of the first i sequences.
Flattens(f, seqs) ==
  f = [i \in 1..Len(seqs) |-> IF i = 1 THEN seqs[i] ELSE f[i - 1] \o seqs[i]]

LEMMA FlattensExists == ASSUME NEW S, NEW seqs \in Seq(Seq(S))
                        PROVE  \E f : Flattens(f, seqs)
<1> DEFINE N == Len(seqs)
           step == [i \in 1..N |-> [x \in Seq(S) |-> x \o seqs[i]]]
<1>1. N \in Nat /\ \A i \in 1..N : seqs[i] \in Seq(S)
  OBVIOUS
<1>2. step \in [1..N -> [Seq(S) -> Seq(S)]]
  BY <1>1
<1>3. PICK g \in [0..N -> Seq(S)] : Follows(g, N, <<>>, step)
  <2> HIDE DEF step, N
  <2>1. <<>> \in Seq(S)
    OBVIOUS
  <2> QED
    BY <1>1, <1>2, <2>1, RecursionUpTo
<1> DEFINE f == [i \in 1..N |-> g[i]]
<1>4. ASSUME NEW i \in 1..N
      PROVE  f[i] = IF i = 1 THEN seqs[i] ELSE f[i - 1] \o seqs[i]
  <2>1. i - 1 \in 0..N /\ g[i - 1] \in Seq(S) /\ seqs[i] \in Seq(S)
    <3>1. i - 1 \in 0..N
      BY <1>1
    <3> HIDE DEF N, step
    <3> QED
      BY <1>1, <1>3, <3>1
  <2>0. f[i] = g[i]
    OBVIOUS
  <2>2. g[i] = step[i][g[i - 1]] /\ g[0] = <<>>
    BY <1>3, Zenon DEF Follows
  <2>3. g[i] = g[i - 1] \o seqs[i]
    BY <2>1, <2>2
  <2>4. CASE i = 1
    <3>1. <<>> \o seqs[i] = seqs[i]
      BY <2>1
    <3>2. g[i] = seqs[i]
      <4>1. i - 1 = 0
        BY <2>4
      <4>2. g[i] = <<>> \o seqs[i]
        BY <2>2, <2>3, <4>1, Zenon
      <4> QED
        BY <3>1, <4>2, Zenon
    <3> HIDE DEF f
    <3> QED
      BY <2>0, <2>4, <3>2
  <2>5. CASE i # 1
    <3>1. f[i - 1] = g[i - 1]
      BY <2>1, <2>5
    <3> HIDE DEF f
    <3> QED
      BY <2>0, <2>3, <2>5, <3>1
  <2> QED
    BY <2>4, <2>5
<1>5. Flattens(f, seqs)
  <2>1. f = [i \in 1..N |-> f[i]]
    OBVIOUS
  <2> HIDE DEF f
  <2> QED
    BY <1>4, <2>1 DEF Flattens
<1> QED
  BY <1>5

\* FlattenSeq gives the last of them.
LEMMA FlattenIs == ASSUME NEW S, NEW seqs \in Seq(Seq(S)), Len(seqs) # 0
                   PROVE  \E f : Flattens(f, seqs) /\ FlattenSeq(seqs) = f[Len(seqs)]
<1> DEFINE f == CHOOSE f : Flattens(f, seqs)
<1>1. Flattens(f, seqs)
  BY FlattensExists
<1>2. FlattenSeq(seqs) = f[Len(seqs)]
  BY DEF FlattenSeq, Flattens
<1> QED
  BY <1>1, <1>2

\* A concatenation is a sequence of what the sequences hold.
LEMMA FlattenType == ASSUME NEW S, NEW seqs \in Seq(Seq(S))
                     PROVE  FlattenSeq(seqs) \in Seq(S)
<1>1. CASE Len(seqs) = 0
  BY <1>1 DEF FlattenSeq
<1>2. CASE Len(seqs) # 0
  <2>1. PICK f : Flattens(f, seqs) /\ FlattenSeq(seqs) = f[Len(seqs)]
    BY <1>2, FlattenIs
  <2> DEFINE N == Len(seqs)
             T == {n \in 0..N : n = 0 \/ f[n] \in Seq(S)}
  <2>2. N \in Nat /\ 0 \in T
    OBVIOUS
  <2>3. ASSUME NEW n \in 0..(N - 1), n \in T
        PROVE  n + 1 \in T
    <3>1. n + 1 \in 1..N /\ seqs[n + 1] \in Seq(S) /\ (n + 1) - 1 = n /\ n + 1 \in 0..N
      OBVIOUS
    <3>2. f[n + 1] = IF n + 1 = 1 THEN seqs[n + 1] ELSE f[(n + 1) - 1] \o seqs[n + 1]
      BY <2>1, <3>1 DEF Flattens
    <3>3. CASE n = 0
      BY <3>1, <3>2, <3>3
    <3>4. CASE n # 0
      <4>1. f[n] \in Seq(S)
        BY <2>3, <3>4
      <4>2. f[n + 1] = f[n] \o seqs[n + 1]
        <5>1. n + 1 # 1
          BY <3>4
        <5> QED
          BY <3>1, <3>2, <5>1, Zenon
      <4>3. f[n + 1] \in Seq(S)
        BY <3>1, <4>1, <4>2
      <4> QED
        BY <3>1, <4>3
    <3> QED
      BY <3>3, <3>4
  <2>4. \A n \in 0..N : n \in T
    <3> HIDE DEF T, N
    <3> QED
      BY <2>2, <2>3, InductionUpTo
  <2> QED
    BY <1>2, <2>1, <2>4
<1> QED
  BY <1>1, <1>2

\* Only the last of them holds anything.
LEMMA FlattenLast == ASSUME NEW S, NEW seqs \in Seq(Seq(S)), Len(seqs) # 0,
                            \A i \in 1..(Len(seqs) - 1) : seqs[i] = <<>>
                     PROVE  FlattenSeq(seqs) = seqs[Len(seqs)]
<1>1. PICK f : Flattens(f, seqs) /\ FlattenSeq(seqs) = f[Len(seqs)]
  BY FlattenIs
<1> DEFINE N == Len(seqs)
           T == {n \in 0..N : n = 0 \/ f[n] = seqs[n]}
<1>2. N \in Nat /\ 0 \in T /\ \A i \in 1..N : seqs[i] \in Seq(S)
  OBVIOUS
<1>3. ASSUME NEW n \in 0..(N - 1), n \in T
      PROVE  n + 1 \in T
  <2>1. n + 1 \in 1..N /\ seqs[n + 1] \in Seq(S) /\ (n + 1) - 1 = n /\ n + 1 \in 0..N
    OBVIOUS
  <2>2. f[n + 1] = IF n + 1 = 1 THEN seqs[n + 1] ELSE f[(n + 1) - 1] \o seqs[n + 1]
    BY <1>1, <2>1 DEF Flattens
  <2>3. CASE n = 0
    BY <2>1, <2>2, <2>3
  <2>4. CASE n # 0
    <3>1. f[n] = seqs[n] /\ n \in 1..(N - 1)
      BY <1>3, <2>4
    <3>2. f[n] = <<>>
      BY <3>1
    <3>3. f[n + 1] = <<>> \o seqs[n + 1]
      <4>1. n + 1 # 1
        BY <2>4
      <4> QED
        BY <2>1, <2>2, <3>2, <4>1, Zenon
    <3>4. f[n + 1] = seqs[n + 1]
      BY <2>1, <3>3
    <3> QED
      BY <2>1, <3>4
  <2> QED
    BY <2>3, <2>4
<1>4. \A n \in 0..N : n \in T
  <2> HIDE DEF T, N
  <2> QED
    BY <1>2, <1>3, InductionUpTo
<1> QED
  BY <1>1, <1>4

LEMMA ReverseType == ASSUME NEW S, NEW s \in Seq(S)
                     PROVE  /\ Reverse(s) \in Seq(S) /\ Len(Reverse(s)) = Len(s)
                            /\ \A i \in 1..Len(s) : Reverse(s)[i] = s[Len(s) - i + 1]
  BY DEF Reverse

(***************************************************************************)
(* What a sequence of instructions does.                                   *)
(***************************************************************************)
Places == Nat \X Nat
Entries == [scope : Places, bodies : Seq(Places)]
States == Seq(Entries)
Ops == {"enter", "defer", "run", "unwind", "leave", "abandon", "value", "fall", "null", "set",
        "deref", "read", "move", "assign", "update"}
Insts == [op : Ops, arg : Nat \cup Places]

Distinct(s) == \A i, j \in DOMAIN s : s[i] = s[j] => i = j

\* The instruction may be executed there: what it runs is due and, at an explicit
\* exit, is the last to have been reached; what it leaves has nothing due.
Sound(inst, s) ==
  /\ inst.op \in {"enter", "defer"} => inst.arg \in Places
  /\ inst.op \in {"defer", "run", "unwind", "leave"} => s # <<>>
  /\ inst.op \in {"run", "unwind"} =>
       \E i \in DOMAIN Last(s).bodies : Last(s).bodies[i] = inst.arg
  /\ inst.op = "unwind" => Last(Last(s).bodies) = inst.arg
  /\ inst.op = "leave" => inst.arg \in 0..Len(s) /\ Last(s).bodies = <<>>

\* p[i] is the state before the i-th instruction.
Trace(p, insts, s) ==
  /\ p[1] = s
  /\ \A i \in 1..Len(insts) : Sound(insts[i], p[i]) /\ p[i + 1] = Effect(insts[i], p[i])

Leads(insts, s, t) ==
  \E p \in [1..(Len(insts) + 1) -> States] : Trace(p, insts, s) /\ p[Len(insts) + 1] = t

\* The state with b, or nothing, due in the innermost block.
With(s, b) == [s EXCEPT ![Len(s)].bodies = b]
Cleared(s) == With(s, <<>>)

\* A list of distinct bodies without its k-th.
LEMMA WithoutIs == ASSUME NEW S, NEW b \in Seq(S), Distinct(b), NEW k \in 1..Len(b)
                   PROVE  Without(b, b[k]) = SubSeq(b, 1, k - 1) \o SubSeq(b, k + 1, Len(b))
<1>1. k \in DOMAIN b /\ \A i \in DOMAIN b : b[i] = b[k] => i = k
  BY DEF Distinct
<1>2. (CHOOSE i \in DOMAIN b : b[i] = b[k]) = k
  BY <1>1
<1> QED
  BY <1>1, <1>2 DEF Without, RemoveAt

LEMMA WithoutType == ASSUME NEW S, NEW b \in Seq(S), NEW d
                     PROVE  Without(b, d) \in Seq(S)
<1>1. CASE \E i \in DOMAIN b : b[i] = d
  <2> DEFINE k == CHOOSE i \in DOMAIN b : b[i] = d
  <2>1. k \in DOMAIN b
    BY <1>1
  <2>2. k \in 1..Len(b)
    BY <2>1
  <2>3. Without(b, d) = SubSeq(b, 1, k - 1) \o SubSeq(b, k + 1, Len(b))
    BY <1>1 DEF Without, RemoveAt
  <2> HIDE DEF k
  <2>4. SubSeq(b, 1, k - 1) \in Seq(S) /\ SubSeq(b, k + 1, Len(b)) \in Seq(S)
    BY <2>2
  <2> QED
    BY <2>3, <2>4
<1>2. CASE ~\E i \in DOMAIN b : b[i] = d
  BY <1>2 DEF Without
<1> QED
  BY <1>1, <1>2

LEMMA EffectType == ASSUME NEW s \in States, NEW inst \in Insts, Sound(inst, s)
                    PROVE  Effect(inst, s) \in States
<1>1. CASE inst.op = "enter"
  <2>1. inst.arg \in Places
    BY <1>1 DEF Sound
  <2>2. [scope |-> inst.arg, bodies |-> <<>>] \in Entries
    BY <2>1 DEF Entries
  <2> QED
    BY <1>1, <2>2 DEF Effect, States
<1>2. CASE inst.op = "defer"
  <2>1. inst.arg \in Places /\ s # <<>>
    BY <1>2 DEF Sound
  <2>2. Len(s) \in 1..Len(s) /\ s[Len(s)] \in Entries
    BY <2>1 DEF States
  <2>3. Append(s[Len(s)].bodies, inst.arg) \in Seq(Places)
    BY <2>1, <2>2 DEF Entries
  <2>4. [s[Len(s)] EXCEPT !.bodies = Append(@, inst.arg)] \in Entries
    BY <2>2, <2>3 DEF Entries
  <2>5. Effect(inst, s) = [s EXCEPT ![Len(s)] = [s[Len(s)] EXCEPT !.bodies = Append(@, inst.arg)]]
    BY <1>2 DEF Effect
  <2> QED
    BY <2>2, <2>4, <2>5 DEF States
<1>3. CASE inst.op \in {"run", "unwind"}
  <2>1. s # <<>>
    BY <1>3 DEF Sound
  <2>2. Len(s) \in 1..Len(s) /\ s[Len(s)] \in Entries
    BY <2>1 DEF States
  <2>3. Without(s[Len(s)].bodies, inst.arg) \in Seq(Places)
    BY <2>2, WithoutType DEF Entries
  <2>4. [s[Len(s)] EXCEPT !.bodies = Without(@, inst.arg)] \in Entries
    BY <2>2, <2>3 DEF Entries
  <2>5. Effect(inst, s) = [s EXCEPT ![Len(s)] = [s[Len(s)] EXCEPT !.bodies = Without(@, inst.arg)]]
    BY <1>3 DEF Effect
  <2> QED
    BY <2>2, <2>4, <2>5 DEF States
<1>4. CASE inst.op = "leave"
  <2>1. inst.arg \in 0..Len(s)
    BY <1>4 DEF Sound
  <2>2. SubSeq(s, 1, Len(s) - inst.arg) \in States
    BY <2>1 DEF States
  <2> QED
    BY <1>4, <2>2 DEF Effect
<1>5. CASE inst.op \notin {"enter", "defer", "run", "unwind", "leave"}
  BY <1>5 DEF Effect
<1> QED
  BY <1>1, <1>2, <1>3, <1>4, <1>5

LEMMA LeadsType == ASSUME NEW insts \in Seq(Insts), NEW s, NEW t, Leads(insts, s, t)
                   PROVE  s \in States /\ t \in States
  BY DEF Leads, Trace

\* No instruction changes nothing.
LEMMA LeadsNowhere == ASSUME NEW s \in States
                      PROVE  Leads(<<>>, s, s)
<1> DEFINE p == [i \in 1..1 |-> s]
<1>1. Len(<<>>) = 0 /\ 0 + 1 = 1
  OBVIOUS
<1>2. p \in [1..1 -> States] /\ p[1] = s /\ \A i \in 1..0 : FALSE
  OBVIOUS
<1> HIDE DEF p
<1>3. Trace(p, <<>>, s)
  BY <1>1, <1>2 DEF Trace
<1> QED
  BY <1>1, <1>2, <1>3, Zenon DEF Leads

\* One more instruction.
LEMMA LeadsThen == ASSUME NEW insts \in Seq(Insts), NEW s, NEW m, Leads(insts, s, m),
                          NEW inst \in Insts, Sound(inst, m)
                   PROVE  Leads(insts \o <<inst>>, s, Effect(inst, m))
<1> DEFINE N == Len(insts)
           more == insts \o <<inst>>
<1>1. N \in Nat /\ more \in Seq(Insts) /\ Len(more) = N + 1 /\ more[N + 1] = inst
      /\ \A i \in 1..N : more[i] = insts[i]
  OBVIOUS
<1>2. PICK p \in [1..(N + 1) -> States] : Trace(p, insts, s) /\ p[N + 1] = m
  BY DEF Leads
<1>3. m \in States /\ Effect(inst, m) \in States
  BY <1>1, <1>2, EffectType
<1> HIDE DEF N, more
<1> DEFINE q == [i \in 1..(N + 2) |-> IF i = N + 2 THEN Effect(inst, m) ELSE p[i]]
<1>4. q \in [1..(N + 2) -> States]
  BY <1>1, <1>3
<1>5. q[N + 2] = Effect(inst, m) /\ \A i \in 1..(N + 1) : q[i] = p[i]
  BY <1>1
<1> HIDE DEF q
<1>6. Trace(q, more, s)
  <2>1. q[1] = s
    BY <1>1, <1>2, <1>5 DEF Trace
  <2>2. ASSUME NEW i \in 1..N
        PROVE  Sound(more[i], q[i]) /\ q[i + 1] = Effect(more[i], q[i])
    <3>1. i \in 1..(N + 1) /\ i + 1 \in 1..(N + 1)
      BY <1>1
    <3> QED
      BY <1>1, <1>2, <1>5, <3>1 DEF Trace, N
  <2>3. Sound(more[N + 1], q[N + 1]) /\ q[(N + 1) + 1] = Effect(more[N + 1], q[N + 1])
    BY <1>1, <1>2, <1>5
  <2>4. \A i \in 1..(N + 1) : i \in 1..N \/ i = N + 1
    BY <1>1
  <2> QED
    BY <1>1, <2>1, <2>2, <2>3, <2>4 DEF Trace
<1> QED
  BY <1>1, <1>4, <1>5, <1>6 DEF Leads, more

\* One sequence behind the other.
LEMMA LeadsOn == ASSUME NEW x \in Seq(Insts), NEW y \in Seq(Insts), NEW s, NEW m, NEW t,
                        Leads(x, s, m), Leads(y, m, t)
                 PROVE  Leads(x \o y, s, t)
<1> DEFINE N == Len(x)
           M == Len(y)
           both == x \o y
<1>1. N \in Nat /\ M \in Nat /\ Len(both) = N + M /\ both \in Seq(Insts)
      /\ (\A i \in 1..N : both[i] = x[i]) /\ \A i \in 1..M : both[N + i] = y[i]
  OBVIOUS
<1>2. PICK p \in [1..(N + 1) -> States] : Trace(p, x, s) /\ p[N + 1] = m
  BY DEF Leads
<1>3. PICK q \in [1..(M + 1) -> States] : Trace(q, y, m) /\ q[M + 1] = t
  BY DEF Leads
<1> DEFINE r == [i \in 1..(N + M + 1) |-> IF i <= N THEN p[i] ELSE q[i - N]]
<1>4. /\ \A i \in 1..(N + 1) : (Sound(x[i], p[i]) /\ p[i + 1] = Effect(x[i], p[i])) \/ i = N + 1
      /\ \A i \in 1..M : Sound(y[i], q[i]) /\ q[i + 1] = Effect(y[i], q[i])
      /\ p[1] = s /\ q[1] = m
  BY <1>1, <1>2, <1>3 DEF Trace
<1> HIDE DEF N, M, both
<1>5. r \in [1..(N + M + 1) -> States]
  BY <1>1, <1>2, <1>3
<1>6. (\A i \in 1..(N + 1) : r[i] = p[i]) /\ \A i \in 1..(M + 1) : r[N + i] = q[i]
  <2>1. \A i \in 1..N : r[i] = p[i]
    BY <1>1
  <2>2. ASSUME NEW i \in 1..(M + 1)
        PROVE  r[N + i] = q[i]
    <3>1. N + i \in 1..(N + M + 1) /\ ~(N + i <= N) /\ (N + i) - N = i
      BY <1>1
    <3> QED
      BY <3>1
  <2>3. r[N + 1] = p[N + 1]
    <3>1. 1 \in 1..(M + 1)
      BY <1>1
    <3> QED
      BY <1>2, <1>4, <2>2, <3>1
  <2>4. \A i \in 1..(N + 1) : i \in 1..N \/ i = N + 1
    BY <1>1
  <2> QED
    BY <2>1, <2>2, <2>3, <2>4
<1> HIDE DEF r
<1>7. Trace(r, both, s)
  <2>1. r[1] = s
    BY <1>1, <1>4, <1>6
  <2>2. ASSUME NEW i \in 1..N
        PROVE  Sound(both[i], r[i]) /\ r[i + 1] = Effect(both[i], r[i])
    <3>1. i \in 1..(N + 1) /\ i + 1 \in 1..(N + 1) /\ i # N + 1
      BY <1>1
    <3> QED
      BY <1>1, <1>4, <1>6, <3>1
  <2>3. ASSUME NEW i \in 1..M
        PROVE  Sound(both[N + i], r[N + i]) /\ r[(N + i) + 1] = Effect(both[N + i], r[N + i])
    <3>1. i \in 1..(M + 1) /\ i + 1 \in 1..(M + 1) /\ (N + i) + 1 = N + (i + 1)
      BY <1>1
    <3>2. both[N + i] = y[i] /\ r[N + i] = q[i] /\ r[(N + i) + 1] = q[i + 1]
      BY <1>1, <1>6, <3>1
    <3> QED
      BY <1>4, <3>2, Zenon
  <2>4. ASSUME NEW i \in 1..(N + M)
        PROVE  Sound(both[i], r[i]) /\ r[i + 1] = Effect(both[i], r[i])
    <3>1. CASE i \in 1..N
      BY <2>2, <3>1
    <3>2. CASE i \notin 1..N
      <4>1. PICK j \in 1..M : i = N + j
        <5>1. i - N \in 1..M /\ i = N + (i - N)
          BY <1>1, <3>2
        <5> QED
          BY <5>1
      <4> QED
        BY <2>3, <4>1
    <3> QED
      BY <3>1, <3>2
  <2> QED
    BY <1>1, <2>1, <2>4, Zenon DEF Trace
<1>8. r[(N + M) + 1] = t
  <2>1. M + 1 \in 1..(M + 1) /\ (N + M) + 1 = N + (M + 1)
    BY <1>1
  <2> QED
    BY <1>3, <1>6, <2>1
<1> QED
  BY <1>1, <1>5, <1>7, <1>8 DEF Leads, both

LEMMA WithIs ==
    ASSUME NEW s \in States, s # <<>>, NEW b \in Seq(Places)
    PROVE  /\ With(s, b) \in States /\ With(s, b) # <<>> /\ Last(With(s, b)).bodies = b
           /\ Len(With(s, b)) = Len(s)
           /\ \A c : With(With(s, b), c) = With(s, c)
           /\ With(s, Last(s).bodies) = s
           /\ Last(s).bodies \in Seq(Places)
<1>1. Len(s) \in 1..Len(s) /\ s[Len(s)] \in Entries /\ s[Len(s)].bodies \in Seq(Places)
  <2>1. Len(s) \in 1..Len(s) /\ s[Len(s)] \in Entries
    BY DEF States
  <2> QED
    BY <2>1 DEF Entries
<1>2. [s[Len(s)] EXCEPT !.bodies = b] \in Entries
      /\ [s[Len(s)] EXCEPT !.bodies = b].bodies = b
  BY <1>1 DEF Entries
<1>3. With(s, b) = [s EXCEPT ![Len(s)] = [s[Len(s)] EXCEPT !.bodies = b]]
  BY DEF With
<1>4. With(s, b) \in States /\ Len(With(s, b)) = Len(s)
      /\ With(s, b)[Len(s)] = [s[Len(s)] EXCEPT !.bodies = b]
      /\ \A i \in 1..Len(s) : i # Len(s) => With(s, b)[i] = s[i]
  <2>1. PICK e \in Entries : e = [s[Len(s)] EXCEPT !.bodies = b]
    BY <1>2
  <2>2. With(s, b) = [s EXCEPT ![Len(s)] = e]
    BY <1>3, <2>1
  <2>3. s \in Seq(Entries)
    BY DEF States
  <2>4. [s EXCEPT ![Len(s)] = e] \in Seq(Entries)
        /\ Len([s EXCEPT ![Len(s)] = e]) = Len(s)
        /\ [s EXCEPT ![Len(s)] = e][Len(s)] = e
        /\ \A i \in 1..Len(s) : i # Len(s) => [s EXCEPT ![Len(s)] = e][i] = s[i]
    BY <1>1, <2>3
  <2> QED
    BY <2>1, <2>2, <2>4 DEF States
<1>5. With(s, b) # <<>> /\ Last(With(s, b)).bodies = b
  BY <1>1, <1>2, <1>4 DEF Last
<1>6. ASSUME NEW c
      PROVE  With(With(s, b), c) = With(s, c)
  <2>1. [[s[Len(s)] EXCEPT !.bodies = b] EXCEPT !.bodies = c] = [s[Len(s)] EXCEPT !.bodies = c]
    BY <1>1 DEF Entries
  <2>2. With(With(s, b), c) = [With(s, b) EXCEPT ![Len(s)] = [s[Len(s)] EXCEPT !.bodies = c]]
    BY <1>4, <2>1 DEF With
  <2>3. With(s, c) = [s EXCEPT ![Len(s)] = [s[Len(s)] EXCEPT !.bodies = c]]
    BY DEF With
  <2> QED
    BY <1>1, <1>3, <2>2, <2>3 DEF States
<1>7. With(s, Last(s).bodies) = s
  <2>1. [s[Len(s)] EXCEPT !.bodies = s[Len(s)].bodies] = s[Len(s)]
    BY <1>1 DEF Entries
  <2> QED
    BY <1>1, <2>1 DEF With, Last, States
<1> QED
  BY <1>1, <1>4, <1>5, <1>6, <1>7 DEF Last

\* A body that is run is no longer due.
LEMMA RunOne == ASSUME NEW s \in States, s # <<>>, NEW b \in Seq(Places), NEW op \in {"run", "unwind"},
                       NEW d
                PROVE  Effect(Mark(op, d), With(s, b)) = With(s, Without(b, d))
<1>1. Mark(op, d).op = op /\ Mark(op, d).arg = d
  BY DEF Mark
<1>2. Effect(Mark(op, d), With(s, b)) = [With(s, b) EXCEPT ![Len(With(s, b))].bodies = Without(@, d)]
  BY <1>1 DEF Effect
<1>3. With(s, b)[Len(With(s, b))].bodies = b
  BY WithIs DEF Last
<1>4. Effect(Mark(op, d), With(s, b)) = With(With(s, b), Without(b, d))
  BY <1>2, <1>3 DEF With
<1> QED
  BY <1>4, WithIs

\* A list that lost its first, or its last.
LEMMA WithoutEnds ==
    ASSUME NEW S, NEW d \in Seq(S), Distinct(d), NEW i \in 1..Len(d)
    PROVE  /\ Without(SubSeq(d, i, Len(d)), d[i]) = SubSeq(d, i + 1, Len(d))
           /\ Without(SubSeq(d, 1, i), d[i]) = SubSeq(d, 1, i - 1)
           /\ SubSeq(d, i, Len(d))[1] = d[i] /\ 1 \in DOMAIN SubSeq(d, i, Len(d))
           /\ SubSeq(d, 1, i)[i] = d[i] /\ i \in DOMAIN SubSeq(d, 1, i) /\ Len(SubSeq(d, 1, i)) = i
<1> DEFINE x == SubSeq(d, i, Len(d))
           y == SubSeq(d, 1, i)
<1>1. x \in Seq(S) /\ Len(x) = Len(d) - i + 1 /\ \A j \in 1..(Len(d) - i + 1) : x[j] = d[i + j - 1]
  OBVIOUS
<1>2. y \in Seq(S) /\ Len(y) = i /\ \A j \in 1..i : y[j] = d[j]
  OBVIOUS
<1> HIDE DEF x, y
<1>3. x[1] = d[i] /\ 1 \in 1..Len(x)
  BY <1>1
<1>4. y[i] = d[i] /\ i \in 1..Len(y)
  BY <1>2
<1>5. Distinct(x)
  <2>1. ASSUME NEW j \in 1..Len(x), NEW k \in 1..Len(x), x[j] = x[k]
        PROVE  j = k
    <3>1. i + j - 1 \in 1..Len(d) /\ i + k - 1 \in 1..Len(d)
      BY <1>1, <2>1
    <3>2. d[i + j - 1] = d[i + k - 1]
      BY <1>1, <2>1
    <3>3. i + j - 1 = i + k - 1
      BY <3>1, <3>2 DEF Distinct
    <3> QED
      BY <3>3, <1>1
  <2> QED
    BY <1>1, <2>1 DEF Distinct
<1>6. Distinct(y)
  BY <1>2 DEF Distinct
<1>7. Without(x, x[1]) = SubSeq(x, 1, 0) \o SubSeq(x, 2, Len(x))
  <2>1. Without(x, x[1]) = SubSeq(x, 1, 1 - 1) \o SubSeq(x, 1 + 1, Len(x))
    BY <1>1, <1>3, <1>5, WithoutIs
  <2> QED
    BY <2>1
<1>8. Without(y, y[i]) = SubSeq(y, 1, i - 1) \o SubSeq(y, i + 1, Len(y))
  BY <1>2, <1>4, <1>6, WithoutIs
<1>9. SubSeq(x, 1, 0) \o SubSeq(x, 2, Len(x)) = SubSeq(d, i + 1, Len(d))
  <2>1. SubSeq(x, 1, 0) \o SubSeq(x, 2, Len(x)) = SubSeq(x, 2, Len(x))
    BY <1>1
  <2>2. SubSeq(x, 2, Len(x)) \in Seq(S) /\ SubSeq(d, i + 1, Len(d)) \in Seq(S)
    BY <1>1
  <2>3. Len(SubSeq(x, 2, Len(x))) = Len(d) - i /\ Len(SubSeq(d, i + 1, Len(d))) = Len(d) - i
    BY <1>1
  <2>4. ASSUME NEW j \in 1..(Len(d) - i)
        PROVE  SubSeq(x, 2, Len(x))[j] = SubSeq(d, i + 1, Len(d))[j]
    <3>1. SubSeq(x, 2, Len(x))[j] = x[j + 1]
      BY <1>1
    <3>2. x[j + 1] = d[i + j]
      BY <1>1
    <3>3. SubSeq(d, i + 1, Len(d))[j] = d[i + j]
      OBVIOUS
    <3> QED
      BY <3>1, <3>2, <3>3
  <2>5. SubSeq(x, 2, Len(x)) = SubSeq(d, i + 1, Len(d))
    BY <2>2, <2>3, <2>4, SeqEqual
  <2> QED
    BY <2>1, <2>5
<1>10. SubSeq(y, 1, i - 1) \o SubSeq(y, i + 1, Len(y)) = SubSeq(d, 1, i - 1)
  <2>1. SubSeq(y, i + 1, Len(y)) = <<>>
    BY <1>2
  <2>2. SubSeq(y, 1, i - 1) \in Seq(S)
    BY <1>2
  <2>3. SubSeq(y, 1, i - 1) = SubSeq(d, 1, i - 1)
    BY <1>2
  <2>4. SubSeq(y, 1, i - 1) \o <<>> = SubSeq(y, 1, i - 1)
    BY <2>2, ConcatEmptySeq
  <2> QED
    BY <2>1, <2>3, <2>4
<1> QED
  BY <1>1, <1>2, <1>3, <1>4, <1>7, <1>8, <1>9, <1>10 DEF x, y

\* What is due in the innermost block runs, in source order or in reverse.
LEMMA LeadsRun == ASSUME NEW s \in States, s # <<>>, Distinct(Last(s).bodies)
                  PROVE  Leads(Runs("run", Last(s).bodies), s, Cleared(s))
<1> DEFINE d == Last(s).bodies
           N == Len(d)
           insts == Runs("run", d)
           p == [i \in 1..(N + 1) |-> With(s, SubSeq(d, i, N))]
<1>1. d \in Seq(Places) /\ N \in Nat /\ \A i \in 1..(N + 1) : SubSeq(d, i, N) \in Seq(Places)
  <2>1. d \in Seq(Places)
    BY WithIs, EmptySeq
  <2> HIDE DEF d
  <2> QED
    BY <2>1
<1>2. Len(insts) = N /\ \A i \in 1..N : insts[i] = Mark("run", d[i])
  <2> HIDE DEF d
  <2> QED
    BY <1>1 DEF Runs
<1> HIDE DEF d, insts
<1>3. p \in [1..(N + 1) -> States]
  BY <1>1, WithIs
<1>4. p[1] = s /\ p[N + 1] = Cleared(s)
  <2>1. SubSeq(d, 1, N) = d /\ SubSeq(d, N + 1, N) = <<>>
    BY <1>1
  <2>2. With(s, d) = s
    BY WithIs, EmptySeq DEF d
  <2>3. 1 \in 1..(N + 1) /\ N + 1 \in 1..(N + 1)
    BY <1>1
  <2>4. p[1] = With(s, SubSeq(d, 1, N)) /\ p[N + 1] = With(s, SubSeq(d, N + 1, N))
    BY <2>3
  <2> QED
    BY <2>1, <2>2, <2>4, Zenon DEF Cleared
<1>5. ASSUME NEW i \in 1..N
      PROVE  Sound(insts[i], p[i]) /\ p[i + 1] = Effect(insts[i], p[i])
  <2> DEFINE b == SubSeq(d, i, N)
  <2>1. i \in 1..(N + 1) /\ i + 1 \in 1..(N + 1)
    BY <1>1
  <2>2. Distinct(d)
    BY DEF d
  <2>3. Without(b, d[i]) = SubSeq(d, i + 1, N) /\ b[1] = d[i] /\ 1 \in DOMAIN b
    BY <1>1, <2>2, WithoutEnds
  <2>4. p[i] = With(s, b) /\ p[i + 1] = With(s, SubSeq(d, i + 1, N)) /\ b \in Seq(Places)
    BY <1>1, <2>1
  <2>5. insts[i] = Mark("run", d[i])
    BY <1>2
  <2> HIDE DEF b, p, N
  <2>6. p[i + 1] = Effect(insts[i], p[i])
    BY <2>3, <2>4, <2>5, RunOne
  <2>7. p[i] # <<>> /\ Last(p[i]).bodies = b
    BY <2>4, WithIs
  <2>8. insts[i].op = "run" /\ insts[i].arg = d[i]
    BY <2>5 DEF Mark
  <2>9. Sound(insts[i], p[i])
    BY <2>3, <2>7, <2>8 DEF Sound
  <2> QED
    BY <2>6, <2>9
<1> HIDE DEF p, N
<1>6. Trace(p, insts, s)
  BY <1>2, <1>4, <1>5 DEF Trace
<1> QED
  BY <1>2, <1>3, <1>4, <1>6 DEF Leads, insts, d

LEMMA LeadsUnwind == ASSUME NEW s \in States, s # <<>>, Distinct(Last(s).bodies)
                     PROVE  Leads(Runs("unwind", Reverse(Last(s).bodies)), s, Cleared(s))
<1> DEFINE d == Last(s).bodies
           N == Len(d)
           insts == Runs("unwind", Reverse(d))
           p == [i \in 1..(N + 1) |-> With(s, SubSeq(d, 1, N - i + 1))]
<1>1. d \in Seq(Places) /\ N \in Nat
      /\ \A i \in 1..(N + 1) : SubSeq(d, 1, N - i + 1) \in Seq(Places)
  <2>1. d \in Seq(Places)
    BY WithIs, EmptySeq
  <2> HIDE DEF d
  <2> QED
    BY <2>1
<1>2. Len(insts) = N /\ \A i \in 1..N : insts[i] = Mark("unwind", d[N - i + 1])
  <2> HIDE DEF d
  <2>1. Reverse(d) \in Seq(Places) /\ Len(Reverse(d)) = N /\ \A i \in 1..N : Reverse(d)[i] = d[N - i + 1]
    BY <1>1, ReverseType
  <2> QED
    BY <1>1, <2>1 DEF Runs
<1> HIDE DEF d, insts
<1>3. p \in [1..(N + 1) -> States]
  BY <1>1, WithIs
<1>4. p[1] = s /\ p[N + 1] = Cleared(s)
  <2>1. SubSeq(d, 1, N - 1 + 1) = d /\ SubSeq(d, 1, N - (N + 1) + 1) = <<>>
    BY <1>1
  <2>2. With(s, d) = s
    BY WithIs, EmptySeq DEF d
  <2>3. 1 \in 1..(N + 1) /\ N + 1 \in 1..(N + 1)
    BY <1>1
  <2>4. p[1] = With(s, SubSeq(d, 1, N - 1 + 1)) /\ p[N + 1] = With(s, SubSeq(d, 1, N - (N + 1) + 1))
    BY <2>3
  <2> QED
    BY <2>1, <2>2, <2>4, Zenon DEF Cleared
<1>5. ASSUME NEW i \in 1..N
      PROVE  Sound(insts[i], p[i]) /\ p[i + 1] = Effect(insts[i], p[i])
  <2> DEFINE j == N - i + 1
             b == SubSeq(d, 1, j)
  <2>1. i \in 1..(N + 1) /\ i + 1 \in 1..(N + 1) /\ j \in 1..N /\ N - (i + 1) + 1 = j - 1
    BY <1>1
  <2>2. Distinct(d)
    BY DEF d
  <2>3. p[i] = With(s, b) /\ p[i + 1] = With(s, SubSeq(d, 1, j - 1)) /\ b \in Seq(Places)
    BY <1>1, <2>1
  <2>4. insts[i] = Mark("unwind", d[j])
    BY <1>2
  <2> HIDE DEF j
  <2>5. Without(b, d[j]) = SubSeq(d, 1, j - 1) /\ b[j] = d[j] /\ j \in DOMAIN b /\ Len(b) = j
    BY <1>1, <2>1, <2>2, WithoutEnds
  <2> HIDE DEF b, p, N
  <2>6. p[i + 1] = Effect(insts[i], p[i])
    BY <2>3, <2>4, <2>5, RunOne
  <2>7. p[i] # <<>> /\ Last(p[i]).bodies = b
    BY <2>3, WithIs
  <2>8. insts[i].op = "unwind" /\ insts[i].arg = d[j]
    BY <2>4 DEF Mark
  <2>9. Last(b) = d[j]
    BY <2>5 DEF Last
  <2>10. Sound(insts[i], p[i])
    BY <2>5, <2>7, <2>8, <2>9 DEF Sound
  <2> QED
    BY <2>6, <2>10
<1> HIDE DEF p, N
<1>6. Trace(p, insts, s)
  BY <1>2, <1>4, <1>5 DEF Trace
<1> QED
  BY <1>2, <1>3, <1>4, <1>6 DEF Leads, insts, d

(***************************************************************************)
(* The code of a function, half lowered.  Every block of it is annotated:  *)
(* want[b] is the state a block is entered with, and control can reach it  *)
(* only if it is in live.  base[i] is the number of cleanup frames below   *)
(* those of the i-th open block.                                           *)
(***************************************************************************)
Conds == {"opaque", "true", "isnull", "notnull"}
Parts == {"body", "block", "then", "else", "elif", "loop", "case", "open"}
Terms == {None, Ret, Panic} \cup [kind : {"jump"}, to : Nat]
         \cup [kind : {"branch"}, cond : Conds, yes : Nat, no : Nat]
BlockRecords == [insts : Seq(Insts), term : Terms, nest : Seq(Places)]
Code == Seq(BlockRecords)

ScopeRecords == [at : Places, part : Parts, after : Nat, other : Nat, left : Nat]
LoopRecords == [continue_block : Nat, break_block : Nat, cleanup_depth : Nat, outside : Nat]

\* What is due in the first n open blocks, and in all.
Upto(n, scs, waits) == [i \in 1..n |-> [scope |-> scs[i].at, bodies |-> waits[i]]]
Due(scs, waits) == Upto(Len(scs), scs, waits)
ScopesOf(s) == [i \in DOMAIN s |-> s[i].scope]

\* The blocks that the rest of a construct is to go on in.
AwaitedBy(s) == {s.after, s.other} \ {0}
Awaited(scs) == UNION {AwaitedBy(scs[i]) : i \in DOMAIN scs}

\* The block does what the annotation says: it leads to one state, that which the
\* blocks it goes on to are entered with.
Good(block, want, live, b) ==
  \E t \in States : /\ Leads(block.insts, want[b], t)
                    /\ \A x \in Targets(block.term) : x \in live /\ want[x] = t

Annotated(code, want, live) ==
  /\ code \in Code /\ want \in [DOMAIN code -> States] /\ live \subseteq DOMAIN code
  /\ 1 \in live /\ want[1] = <<>>
  /\ \A b \in DOMAIN code : Targets(code[b].term) \subseteq DOMAIN code
  /\ \A b \in live : Good(code[b], want, live, b)

\* But for these, live blocks have a terminator; and those that do lie in the source
\* blocks that have been entered.
Sealed(code, live, exempt) == \A b \in live \ exempt : code[b].term # None
Placed(code, want, live) ==
  \A b \in live : code[b].term # None => code[b].nest = ScopesOf(want[b])

Shape(code, s) ==
  /\ s.part \in Parts
  /\ s.part \in {"body", "block"} => s.after = 0
  /\ s.part \notin {"body", "block"} => s.after \in DOMAIN code /\ code[s.after].term = None
  /\ s.part \notin {"then", "loop", "case", "open"} => s.other = 0
  /\ s.other \in DOMAIN code \cup {0}
  /\ s.part = "then" \/ s.left > 0 => s.other # s.after
  /\ s.left > 0 \/ s.part \in {"loop", "case", "open"} => s.other # 0
  /\ s.part \in {"case", "open"} /\ s.left = 0 => s.other = s.after
  /\ s.part = "loop" => s.left = 0 /\ code[s.other].term # None
  /\ s.part # "loop" /\ s.other \notin {0, s.after} => code[s.other].term = None

Untouched(code, awaited) == \A b \in awaited : code[b].term = None => code[b].insts = <<>>

StackFits(code, scs) ==
  /\ scs \in Seq(ScopeRecords)
  /\ \A i \in DOMAIN scs : Shape(code, scs[i]) /\ (scs[i].part = "body" <=> i = 1)
  /\ \A i, j \in DOMAIN scs : i # j => AwaitedBy(scs[i]) \cap AwaitedBy(scs[j]) = {}
  /\ Untouched(code, Awaited(scs))

FramesFit(frames, scs, base) ==
  /\ frames \in Seq(Seq(Places)) /\ base \in [DOMAIN scs -> Nat]
  /\ \A i \in DOMAIN scs : base[i] < Len(frames)
  /\ \A i, j \in DOMAIN scs : i < j => base[i] < base[j]
  /\ \A i \in DOMAIN scs :
       (IF i = Len(scs) THEN Len(frames) ELSE base[i + 1]) = base[i] + 1 + OwnFrame(scs[i].part)

\* The loop is the i-th open block.
LoopAt(loop, i, scs, base) ==
  /\ i = loop.outside + 1 /\ i > 1 /\ scs[i].part = "loop"
  /\ loop.break_block = scs[i].after /\ loop.continue_block = scs[i].other
  /\ loop.cleanup_depth = base[i] + 1

LoopsFit(lps, scs, base) ==
  /\ lps \in Seq(LoopRecords)
  /\ \A j \in DOMAIN lps : \E i \in DOMAIN scs : LoopAt(lps[j], i, scs, base)
  /\ \A j, k \in DOMAIN lps : j < k => lps[j].outside < lps[k].outside
  /\ \A i \in DOMAIN scs : scs[i].part = "loop" => \E j \in DOMAIN lps : lps[j].outside + 1 = i

WaitsFit(code, waits, scs) ==
  /\ waits \in Seq(Seq(Places)) /\ Len(waits) = Len(scs)
  /\ \A i \in DOMAIN waits : Distinct(waits[i])
  /\ \A i \in DOMAIN waits : \A k \in DOMAIN waits[i] :
       waits[i][k][1] \in DOMAIN code /\ waits[i][k][2] <= Len(code[waits[i][k][1]].insts)

\* A construct goes on in the state it began in.
Expected(want, scs, waits) ==
  \A i \in DOMAIN scs : \A b \in AwaitedBy(scs[i]) : want[b] = Upto(i - 1, scs, waits)

\* If the rest of a construct can be reached, so can that of each around it, and no
\* exit has been lowered in these.
LiveStack(live, scs, frames, base) ==
  \A i \in DOMAIN scs : AwaitedBy(scs[i]) \cap live # {} =>
    /\ \A j \in 1..i : AwaitedBy(scs[j]) \subseteq live
    /\ \A k \in 1..base[i] : frames[k] = <<>>

\* Everything but the blocks in hole.
Around(code, want, live, base, scs, lps, frames, waits, hole) ==
  /\ Annotated(code, want, live)
  /\ StackFits(code, scs) /\ FramesFit(frames, scs, base) /\ LoopsFit(lps, scs, base)
  /\ WaitsFit(code, waits, scs) /\ Expected(want, scs, waits)
  /\ LiveStack(live, scs, frames, base)
  /\ hole \subseteq DOMAIN code /\ hole \cap Awaited(scs) = {}
  /\ Sealed(code, live, Awaited(scs) \cup hole)
  /\ Placed(code, want, live)

\* The block being lowered.  No exit has been lowered on the way to it.
Reaches(code, cur, want, live, scs, frames, waits) ==
  cur \in live /\ code[cur].term = None =>
    /\ \A k \in DOMAIN frames : frames[k] = <<>>
    /\ Awaited(scs) \subseteq live
    /\ Leads(code[cur].insts, want[cur], Due(scs, waits))

Built(code, cur, want, live, base, scs, lps, frames, waits) ==
  /\ Around(code, want, live, base, scs, lps, frames, waits, {cur})
  /\ cur \in live => code[cur].nest = ScopesOf(want[cur])
  /\ Reaches(code, cur, want, live, scs, frames, waits)

(***************************************************************************)
(* How the parts of the invariant survive.                                 *)
(***************************************************************************)
\* old became new: more blocks, and other contents in the blocks of hole.
Rewrites(old, new, hole) ==
  /\ Len(old) <= Len(new)
  /\ \A b \in DOMAIN old \ hole : new[b] = old[b]
  /\ \A b \in DOMAIN old : /\ old[b].term # None => new[b].term # None
                           /\ Len(old[b].insts) <= Len(new[b].insts)

\* The annotation of the new blocks.
Continues(old, want, live, want2, live2) ==
  /\ \A b \in DOMAIN old : want2[b] = want[b]
  /\ \A b \in DOMAIN old : b \in live2 <=> b \in live

LEMMA Rewrite ==
    ASSUME NEW code, NEW want, NEW live, NEW base, NEW scs, NEW lps, NEW frames, NEW waits, NEW hole,
           Around(code, want, live, base, scs, lps, frames, waits, hole),
           NEW code2 \in Code, NEW want2 \in [DOMAIN code2 -> States], NEW live2 \in SUBSET DOMAIN code2,
           NEW hole2 \in SUBSET DOMAIN code2,
           Rewrites(code, code2, hole), Continues(code, want, live, want2, live2),
           hole2 \cap (DOMAIN code \ hole) = {},
           \A b \in hole \cup (DOMAIN code2 \ DOMAIN code) :
             /\ Targets(code2[b].term) \subseteq DOMAIN code2
             /\ b \in live2 => Good(code2[b], want2, live2, b)
             /\ b \in live2 /\ code2[b].term # None => code2[b].nest = ScopesOf(want2[b])
             /\ b \in live2 \ hole2 => code2[b].term # None
    PROVE  Around(code2, want2, live2, base, scs, lps, frames, waits, hole2)
<1> USE DEF Around
<1>0. DOMAIN code \subseteq DOMAIN code2
  <2>1. code \in Code /\ code2 \in Code /\ Len(code) <= Len(code2)
    BY DEF Annotated, Rewrites
  <2> QED
    BY <2>1 DEF Code
<1>1. Annotated(code2, want2, live2)
  <2>1. 1 \in live2 /\ want2[1] = <<>>
    BY <1>0 DEF Annotated, Continues
  <2>2. ASSUME NEW b \in DOMAIN code2
        PROVE  Targets(code2[b].term) \subseteq DOMAIN code2
    BY <1>0 DEF Annotated, Rewrites
  <2>3. ASSUME NEW b \in live2
        PROVE  Good(code2[b], want2, live2, b)
    <3>1. CASE b \in hole \cup (DOMAIN code2 \ DOMAIN code)
      BY <2>3, <3>1
    <3>2. CASE b \notin hole \cup (DOMAIN code2 \ DOMAIN code)
      <4>1. b \in DOMAIN code \ hole /\ b \in live
        BY <2>3, <3>2 DEF Continues
      <4>2. code2[b] = code[b] /\ want2[b] = want[b]
        BY <4>1 DEF Rewrites, Continues
      <4>3. PICK t \in States : Leads(code[b].insts, want[b], t)
                                /\ \A x \in Targets(code[b].term) : x \in live /\ want[x] = t
        BY <4>1 DEF Annotated, Good
      <4>4. \A x \in Targets(code[b].term) : x \in live2 /\ want2[x] = t
        BY <4>1, <4>3 DEF Annotated, Continues
      <4> QED
        BY <4>2, <4>3, <4>4 DEF Good
    <3> QED
      BY <3>1, <3>2
  <2> QED
    BY <2>1, <2>2, <2>3 DEF Annotated
<1>2. Awaited(scs) \subseteq DOMAIN code \ hole
  <2>1. \A i \in DOMAIN scs : AwaitedBy(scs[i]) \subseteq DOMAIN code
    BY DEF StackFits, Shape, AwaitedBy
  <2> QED
    BY <2>1 DEF Awaited
<1>3. StackFits(code2, scs)
  <2>1. \A i \in DOMAIN scs : Shape(code2, scs[i])
    <3> SUFFICES ASSUME NEW i \in DOMAIN scs
                 PROVE  Shape(code2, scs[i])
      OBVIOUS
    <3>1. Shape(code, scs[i])
      BY DEF StackFits
    <3>2. scs[i].part = "loop" => scs[i].other \in DOMAIN code
      BY <3>1 DEF Shape
    <3>3. scs[i].part = "loop" => code2[scs[i].other].term # None
      BY <3>1, <3>2 DEF Shape, Rewrites
    <3>4. scs[i].other # 0 => code2[scs[i].other] = code[scs[i].other]
      <4>1. AwaitedBy(scs[i]) \subseteq DOMAIN code \ hole
        BY <1>2 DEF Awaited
      <4> QED
        BY <4>1 DEF AwaitedBy, Rewrites
    <3>5. scs[i].part \notin {"body", "block"} => code2[scs[i].after] = code[scs[i].after]
      <4>1. AwaitedBy(scs[i]) \subseteq DOMAIN code \ hole
        BY <1>2 DEF Awaited
      <4>2. code \in Code
        BY DEF Annotated
      <4>3. scs[i].after \in DOMAIN code => scs[i].after # 0
        BY <4>2 DEF Code
      <4> QED
        BY <3>1, <4>1, <4>3 DEF AwaitedBy, Rewrites, Shape
    <3> QED
      BY <1>0, <3>1, <3>3, <3>4, <3>5 DEF Shape
  <2>2. Untouched(code2, Awaited(scs))
    BY <1>2 DEF StackFits, Untouched, Rewrites
  <2> QED
    BY <2>1, <2>2 DEF StackFits
<1>4. WaitsFit(code2, waits, scs)
  <2>1. ASSUME NEW i \in DOMAIN waits, NEW k \in DOMAIN waits[i]
        PROVE  waits[i][k][1] \in DOMAIN code2 /\ waits[i][k][2] <= Len(code2[waits[i][k][1]].insts)
    <3>1. PICK b \in DOMAIN code : b = waits[i][k][1] /\ waits[i][k][2] <= Len(code[b].insts)
      BY DEF WaitsFit
    <3>2. Len(code[b].insts) <= Len(code2[b].insts)
      BY DEF Rewrites
    <3>3. waits[i][k][2] \in Nat
      <4>1. waits[i] \in Seq(Places)
        BY DEF WaitsFit
      <4>2. waits[i][k] \in Places
        BY <4>1
      <4> QED
        BY <4>2 DEF Places
    <3>4. Len(code[b].insts) \in Nat /\ Len(code2[b].insts) \in Nat
      <4>1. code[b] \in BlockRecords /\ code2[b] \in BlockRecords
        BY <1>0 DEF Annotated, Code
      <4> QED
        BY <4>1 DEF BlockRecords
    <3> QED
      BY <1>0, <3>1, <3>2, <3>3, <3>4
  <2> QED
    BY <2>1 DEF WaitsFit
<1>5. Expected(want2, scs, waits)
  <2>1. \A i \in DOMAIN scs : AwaitedBy(scs[i]) \subseteq DOMAIN code
    BY <1>2 DEF Awaited
  <2> QED
    BY <2>1 DEF Expected, Continues
<1>6. LiveStack(live2, scs, frames, base)
  <2>1. \A i \in DOMAIN scs : AwaitedBy(scs[i]) \subseteq DOMAIN code
    BY <1>2 DEF Awaited
  <2>2. scs \in Seq(ScopeRecords)
    BY DEF StackFits
  <2>3. ASSUME NEW i \in DOMAIN scs, AwaitedBy(scs[i]) \cap live2 # {}
        PROVE  /\ \A j \in 1..i : AwaitedBy(scs[j]) \subseteq live2
               /\ \A k \in 1..base[i] : frames[k] = <<>>
    <3>1. AwaitedBy(scs[i]) \cap live # {}
      BY <2>1, <2>3 DEF Continues
    <3>2. \A j \in 1..i : j \in DOMAIN scs
      BY <2>2
    <3> QED
      BY <2>1, <3>1, <3>2 DEF LiveStack, Continues
  <2> QED
    BY <2>3 DEF LiveStack
<1>7. hole2 \subseteq DOMAIN code2 /\ hole2 \cap Awaited(scs) = {}
  BY <1>2
<1>8. ASSUME NEW b \in live2
      PROVE  /\ b \notin Awaited(scs) \cup hole2 => code2[b].term # None
             /\ code2[b].term # None => code2[b].nest = ScopesOf(want2[b])
  <2>1. CASE b \in hole \cup (DOMAIN code2 \ DOMAIN code)
    BY <1>8, <2>1
  <2>2. CASE b \notin hole \cup (DOMAIN code2 \ DOMAIN code)
    <3>1. b \in DOMAIN code \ hole /\ b \in live
      BY <2>2 DEF Continues
    <3>2. code2[b] = code[b] /\ want2[b] = want[b]
      BY <3>1 DEF Rewrites, Continues
    <3> QED
      BY <1>8, <3>1, <3>2 DEF Sealed, Placed
  <2> QED
    BY <2>1, <2>2
<1>9. Sealed(code2, live2, Awaited(scs) \cup hole2) /\ Placed(code2, want2, live2)
  BY <1>8 DEF Sealed, Placed
<1> QED
  BY <1>1, <1>3, <1>4, <1>5, <1>6, <1>7, <1>9


LEMMA AwaitedSplit ==
    ASSUME NEW scs \in Seq(ScopeRecords), NEW s
    PROVE  /\ Awaited(Append(scs, s)) = Awaited(scs) \cup AwaitedBy(s)
           /\ scs # <<>> => Awaited(scs) = Awaited(Front(scs)) \cup AwaitedBy(Last(scs))
<1>1. ASSUME NEW x \in Seq(ScopeRecords), NEW y
      PROVE  Awaited(Append(x, y)) = Awaited(x) \cup AwaitedBy(y)
  <2>1. DOMAIN Append(x, y) = 1..(Len(x) + 1) /\ DOMAIN x = 1..Len(x)
    OBVIOUS
  <2>2. Append(x, y)[Len(x) + 1] = y /\ \A i \in 1..Len(x) : Append(x, y)[i] = x[i]
    OBVIOUS
  <2>3. \A i \in 1..(Len(x) + 1) : i \in 1..Len(x) \/ i = Len(x) + 1
    OBVIOUS
  <2>4. Len(x) + 1 \in 1..(Len(x) + 1) /\ 1..Len(x) \subseteq 1..(Len(x) + 1)
    OBVIOUS
  <2> QED
    BY <2>1, <2>2, <2>3, <2>4 DEF Awaited
<1>2. ASSUME scs # <<>>
      PROVE  Awaited(scs) = Awaited(Front(scs)) \cup AwaitedBy(Last(scs))
  <2>1. Front(scs) \in Seq(ScopeRecords) /\ Last(scs) \in ScopeRecords
        /\ scs = Append(Front(scs), Last(scs))
    BY <1>2 DEF Front, Last
  <2> QED
    BY <1>1, <2>1
<1> QED
  BY <1>1, <1>2

\* The state of the blocks around, and of one more.
LEMMA UptoIs ==
    ASSUME NEW scs \in Seq(ScopeRecords), NEW waits \in Seq(Seq(Places)), Len(waits) = Len(scs),
           NEW n \in 0..Len(scs)
    PROVE  /\ Upto(n, scs, waits) \in States /\ Len(Upto(n, scs, waits)) = n
           /\ \A s, w : Upto(n, Append(scs, s), Append(waits, w)) = Upto(n, scs, waits)
<1>1. ASSUME NEW i \in 1..n
      PROVE  scs[i].at \in Places /\ waits[i] \in Seq(Places)
  <2>1. i \in 1..Len(scs)
    OBVIOUS
  <2>2. scs[i] \in ScopeRecords /\ waits[i] \in Seq(Places)
    BY <2>1
  <2> QED
    BY <2>2 DEF ScopeRecords
<1>2. \A i \in 1..n : [scope |-> scs[i].at, bodies |-> waits[i]] \in Entries
  BY <1>1 DEF Entries
<1>3. ASSUME NEW s, NEW w
      PROVE  Upto(n, Append(scs, s), Append(waits, w)) = Upto(n, scs, waits)
  <2>1. \A i \in 1..n : Append(scs, s)[i] = scs[i] /\ Append(waits, w)[i] = waits[i]
    OBVIOUS
  <2> QED
    BY <2>1 DEF Upto
<1> QED
  BY <1>2, <1>3 DEF Upto, States

\* Opening a block.
Based(base, scs, frames) ==
  [i \in 1..(Len(scs) + 1) |-> IF i = Len(scs) + 1 THEN Len(frames) ELSE base[i]]
Framed(frames, part) == frames \o [i \in 1..(1 + OwnFrame(part)) |-> <<>>]

LEMMA FramedIs ==
    ASSUME NEW frames \in Seq(Seq(Places)), NEW part
    PROVE  /\ Framed(frames, part) \in Seq(Seq(Places))
           /\ Len(Framed(frames, part)) = Len(frames) + 1 + OwnFrame(part)
           /\ \A k \in 1..Len(frames) : Framed(frames, part)[k] = frames[k]
           /\ \A k \in DOMAIN Framed(frames, part) : k \notin 1..Len(frames) => Framed(frames, part)[k] = <<>>
           /\ OwnFrame(part) \in {0, 1}
<1>1. OwnFrame(part) \in {0, 1}
  BY DEF OwnFrame
<1>2. PICK n \in {1, 2} : n = 1 + OwnFrame(part)
  BY <1>1
<1> DEFINE more == [i \in 1..n |-> <<>>]
<1>3. more \in Seq(Seq(Places)) /\ Len(more) = n /\ \A i \in 1..n : more[i] = <<>>
  OBVIOUS
<1>4. Framed(frames, part) = frames \o more
  BY <1>2 DEF Framed
<1> HIDE DEF more
<1>5. /\ frames \o more \in Seq(Seq(Places)) /\ Len(frames \o more) = Len(frames) + n
      /\ \A k \in 1..Len(frames) : (frames \o more)[k] = frames[k]
      /\ \A k \in 1..(Len(frames) + n) : k \notin 1..Len(frames) => (frames \o more)[k] = more[k - Len(frames)]
  BY <1>3
<1>6. ASSUME NEW k \in 1..(Len(frames) + n), k \notin 1..Len(frames)
      PROVE  (frames \o more)[k] = <<>>
  <2>1. k - Len(frames) \in 1..n
    BY <1>6
  <2> QED
    BY <1>3, <1>5, <1>6, <2>1
<1> QED
  BY <1>1, <1>2, <1>4, <1>5, <1>6

LEMMA Push ==
    ASSUME NEW code, NEW want, NEW live, NEW base, NEW scs, NEW lps, NEW frames, NEW waits, NEW hole,
           Around(code, want, live, base, scs, lps, frames, waits, hole), scs # <<>>,
           NEW s \in ScopeRecords, Shape(code, s), s.part # "body",
           AwaitedBy(s) \subseteq hole, Untouched(code, AwaitedBy(s)),
           \A b \in AwaitedBy(s) : want[b] = Due(scs, waits),
           AwaitedBy(s) \cap live # {} => /\ AwaitedBy(s) \subseteq live /\ Awaited(scs) \subseteq live
                                          /\ \A k \in DOMAIN frames : frames[k] = <<>>,
           NEW lps2, LoopsFit(lps2, Append(scs, s), Based(base, scs, frames))
    PROVE  Around(code, want, live, Based(base, scs, frames), Append(scs, s), lps2,
                  Framed(frames, s.part), Append(waits, <<>>), hole \ AwaitedBy(s))
<1> USE DEF Around
<1> DEFINE n == Len(scs)
           scs2 == Append(scs, s)
           base2 == Based(base, scs, frames)
           frames2 == Framed(frames, s.part)
           waits2 == Append(waits, <<>>)
<1>1. /\ scs \in Seq(ScopeRecords) /\ n \in Nat /\ n >= 1 /\ scs2 \in Seq(ScopeRecords) /\ Len(scs2) = n + 1
      /\ scs2[n + 1] = s /\ (\A i \in 1..n : scs2[i] = scs[i]) /\ DOMAIN scs = 1..n /\ DOMAIN scs2 = 1..(n + 1)
  <2>1. scs \in Seq(ScopeRecords)
    BY DEF StackFits
  <2> QED
    BY <2>1
<1>2. /\ waits \in Seq(Seq(Places)) /\ Len(waits) = n /\ waits2 \in Seq(Seq(Places)) /\ Len(waits2) = n + 1
      /\ waits2[n + 1] = <<>> /\ \A i \in 1..n : waits2[i] = waits[i]
  <2>1. waits \in Seq(Seq(Places)) /\ Len(waits) = n
    BY DEF WaitsFit
  <2>2. <<>> \in Seq(Places)
    OBVIOUS
  <2> QED
    BY <2>1, <2>2
<1>3. frames \in Seq(Seq(Places)) /\ base \in [1..n -> Nat] /\ \A i \in 1..n : base[i] < Len(frames)
  BY <1>1 DEF FramesFit
<1>4. /\ frames2 \in Seq(Seq(Places)) /\ Len(frames2) = Len(frames) + 1 + OwnFrame(s.part)
      /\ \A k \in 1..Len(frames) : frames2[k] = frames[k]
      /\ OwnFrame(s.part) \in {0, 1}
  BY <1>3, FramedIs
<1>5. base2 \in [1..(n + 1) -> Nat] /\ base2[n + 1] = Len(frames) /\ \A i \in 1..n : base2[i] = base[i]
  BY <1>1, <1>3 DEF Based
<1> HIDE DEF n, scs2, base2, frames2, waits2
<1>6. \A i \in 1..(n + 1) : i \in 1..n \/ i = n + 1
  BY <1>1
<1>7. Awaited(scs2) = Awaited(scs) \cup AwaitedBy(s)
  BY <1>1, AwaitedSplit DEF scs2
<1>8. StackFits(code, scs2)
  <2>1. ASSUME NEW i \in 1..(n + 1)
        PROVE  Shape(code, scs2[i]) /\ (scs2[i].part = "body" <=> i = 1)
    BY <1>1, <1>6 DEF StackFits
  <2>2. ASSUME NEW i \in 1..n
        PROVE  AwaitedBy(scs[i]) \cap AwaitedBy(s) = {}
    <3>1. AwaitedBy(scs[i]) \subseteq Awaited(scs)
      BY <1>1 DEF Awaited
    <3> QED
      BY <3>1
  <2>3. ASSUME NEW i \in 1..(n + 1), NEW j \in 1..(n + 1), i # j
        PROVE  AwaitedBy(scs2[i]) \cap AwaitedBy(scs2[j]) = {}
    <3>1. CASE i \in 1..n /\ j \in 1..n
      BY <1>1, <2>3, <3>1 DEF StackFits
    <3>2. CASE i = n + 1 \/ j = n + 1
      BY <1>1, <1>6, <2>2, <2>3, <3>2
    <3> QED
      BY <1>6, <3>1, <3>2
  <2>4. Untouched(code, Awaited(scs2))
    BY <1>7 DEF StackFits, Untouched
  <2> QED
    BY <1>1, <2>1, <2>3, <2>4 DEF StackFits
<1>9. FramesFit(frames2, scs2, base2)
  <2>1. ASSUME NEW i \in 1..(n + 1)
        PROVE  base2[i] < Len(frames2)
    <3>1. Len(frames) \in Nat /\ Len(frames) < Len(frames2)
      BY <1>3, <1>4
    <3>2. CASE i \in 1..n
      <4>1. base2[i] \in Nat /\ base2[i] < Len(frames)
        BY <1>3, <1>5, <3>2
      <4> QED
        BY <1>4, <3>1, <4>1
    <3>3. CASE i = n + 1
      BY <1>5, <3>1, <3>3
    <3> QED
      BY <1>6, <3>2, <3>3
  <2>2. ASSUME NEW i \in 1..(n + 1), NEW j \in 1..(n + 1), i < j
        PROVE  base2[i] < base2[j]
    <3>1. i \in 1..n
      BY <1>1, <2>2
    <3>2. CASE j \in 1..n
      BY <1>1, <1>5, <2>2, <3>1, <3>2 DEF FramesFit
    <3>3. CASE j = n + 1
      BY <1>3, <1>5, <3>1, <3>3
    <3> QED
      BY <1>6, <3>2, <3>3
  <2>3. ASSUME NEW i \in 1..(n + 1)
        PROVE  (IF i = n + 1 THEN Len(frames2) ELSE base2[i + 1]) = base2[i] + 1 + OwnFrame(scs2[i].part)
    <3>1. CASE i = n + 1
      BY <1>1, <1>4, <1>5, <3>1
    <3>2. CASE i = n
      <4>1. Len(frames) = base[n] + 1 + OwnFrame(scs[n].part)
        BY <1>1 DEF FramesFit, n
      <4>2. i # n + 1 /\ n \in 1..n
        BY <1>1, <3>2
      <4> QED
        BY <1>1, <1>5, <3>2, <4>1, <4>2
    <3>3. CASE i # n /\ i # n + 1
      <4>1. i \in 1..n /\ i + 1 \in 1..n
        BY <1>1, <3>3
      <4>2. base[i + 1] = base[i] + 1 + OwnFrame(scs[i].part)
        BY <1>1, <3>3, <4>1 DEF FramesFit, n
      <4> QED
        BY <1>1, <1>5, <3>3, <4>1, <4>2
    <3> QED
      BY <3>1, <3>2, <3>3
  <2> QED
    BY <1>1, <1>4, <1>5, <2>1, <2>2, <2>3 DEF FramesFit
<1>10. WaitsFit(code, waits2, scs2)
  <2>1. Distinct(<<>>) /\ DOMAIN <<>> = {}
    BY DEF Distinct
  <2>2. DOMAIN waits2 = 1..(n + 1) /\ DOMAIN waits = 1..n
    BY <1>2
  <2>3. \A i \in 1..(n + 1) : Distinct(waits2[i])
    BY <1>2, <1>6, <2>1, <2>2 DEF WaitsFit
  <2>4. ASSUME NEW i \in 1..(n + 1), NEW k \in DOMAIN waits2[i]
        PROVE  waits2[i][k][1] \in DOMAIN code /\ waits2[i][k][2] <= Len(code[waits2[i][k][1]].insts)
    <3>1. i \in 1..n
      BY <1>2, <1>6, <2>1
    <3> QED
      BY <1>2, <2>2, <3>1 DEF WaitsFit
  <2> QED
    BY <1>1, <1>2, <2>2, <2>3, <2>4 DEF WaitsFit
<1>11. Expected(want, scs2, waits2)
  <2>1. ASSUME NEW i \in 1..(n + 1), NEW b \in AwaitedBy(scs2[i])
        PROVE  want[b] = Upto(i - 1, scs2, waits2)
    <3>1. i - 1 \in 0..n
      BY <1>1
    <3>2. Upto(i - 1, scs2, waits2) = Upto(i - 1, scs, waits)
      <4>1. PICK k \in 0..Len(scs) : k = i - 1
        BY <3>1 DEF n
      <4>2. Len(waits) = Len(scs)
        BY <1>2 DEF n
      <4>3. Upto(k, scs2, waits2) = Upto(k, scs, waits)
        <5>1. scs \in Seq(ScopeRecords) /\ waits \in Seq(Seq(Places))
          BY <1>1, <1>2
        <5>2. \A x, y : Upto(k, Append(scs, x), Append(waits, y)) = Upto(k, scs, waits)
          BY <4>2, <5>1, UptoIs
        <5> QED
          BY <5>2, Zenon DEF scs2, waits2
      <4> QED
        BY <4>1, <4>3, Zenon
    <3>3. CASE i \in 1..n
      BY <1>1, <3>2, <3>3 DEF Expected
    <3>4. CASE i = n + 1
      <4>1. i - 1 = n
        BY <1>1, <3>4
      <4> QED
        BY <1>1, <3>2, <3>4, <4>1 DEF Due, n
    <3> QED
      BY <1>6, <3>3, <3>4
  <2> QED
    BY <1>1, <2>1 DEF Expected
<1>12. LiveStack(live, scs2, frames2, base2)
  <2>1. ASSUME NEW i \in 1..(n + 1), AwaitedBy(scs2[i]) \cap live # {}
        PROVE  /\ \A j \in 1..i : AwaitedBy(scs2[j]) \subseteq live
               /\ \A k \in 1..base2[i] : frames2[k] = <<>>
    <3>1. CASE i \in 1..n
      <4>1. /\ \A j \in 1..i : AwaitedBy(scs[j]) \subseteq live
            /\ \A k \in 1..base[i] : frames[k] = <<>>
        BY <1>1, <2>1, <3>1 DEF LiveStack
      <4>2. \A j \in 1..i : j \in 1..n
        BY <1>1, <3>1
      <4>3. \A k \in 1..base[i] : k \in 1..Len(frames)
        BY <1>3, <3>1
      <4> QED
        BY <1>1, <1>4, <1>5, <3>1, <4>1, <4>2, <4>3
    <3>2. CASE i = n + 1
      <4>1. AwaitedBy(s) \subseteq live /\ Awaited(scs) \subseteq live
            /\ \A k \in 1..Len(frames) : frames[k] = <<>>
        BY <1>1, <1>3, <2>1, <3>2
      <4>2. \A j \in 1..n : AwaitedBy(scs[j]) \subseteq Awaited(scs)
        BY <1>1 DEF Awaited
      <4> QED
        BY <1>1, <1>4, <1>5, <1>6, <3>2, <4>1, <4>2
    <3> QED
      BY <1>6, <3>1, <3>2
  <2> QED
    BY <1>1, <2>1 DEF LiveStack
<1>13. Awaited(scs2) \cup (hole \ AwaitedBy(s)) = Awaited(scs) \cup hole
  BY <1>7
<1>14. (hole \ AwaitedBy(s)) \cap Awaited(scs2) = {}
  BY <1>7
<1> QED
  BY <1>8, <1>9, <1>10, <1>11, <1>12, <1>13, <1>14 DEF scs2, base2, frames2, waits2

\* The loops of the stack, before and after a block is opened.
LEMMA LoopsPush ==
    ASSUME NEW base, NEW scs, scs \in Seq(ScopeRecords), NEW lps, NEW frames,
           FramesFit(frames, scs, base), LoopsFit(lps, scs, base),
           NEW s \in ScopeRecords
    PROVE  /\ s.part # "loop" => LoopsFit(lps, Append(scs, s), Based(base, scs, frames))
           /\ s.part = "loop" /\ scs # <<>> =>
                LoopsFit(Append(lps, [continue_block |-> s.other, break_block |-> s.after,
                                      cleanup_depth |-> Len(frames) + 1, outside |-> Len(scs)]),
                         Append(scs, s), Based(base, scs, frames))
<1> DEFINE n == Len(scs)
           scs2 == Append(scs, s)
           base2 == Based(base, scs, frames)
           loop == [continue_block |-> s.other, break_block |-> s.after,
                    cleanup_depth |-> Len(frames) + 1, outside |-> Len(scs)]
           m == Len(lps)
           lps2 == Append(lps, loop)
<1>1. /\ n \in Nat /\ scs2 \in Seq(ScopeRecords) /\ Len(scs2) = n + 1 /\ n = Len(scs)
      /\ scs2[n + 1] = s /\ (\A i \in 1..n : scs2[i] = scs[i]) /\ DOMAIN scs = 1..n /\ DOMAIN scs2 = 1..(n + 1)
  OBVIOUS
<1>2. frames \in Seq(Seq(Places)) /\ base \in [1..n -> Nat]
  BY <1>1 DEF FramesFit
<1>3. base2[n + 1] = Len(frames) /\ \A i \in 1..n : base2[i] = base[i]
  BY <1>1, <1>2 DEF Based
<1>4. loop \in LoopRecords /\ loop.outside = n /\ loop.break_block = s.after
      /\ loop.continue_block = s.other /\ loop.cleanup_depth = Len(frames) + 1
  BY <1>1, <1>2 DEF LoopRecords, ScopeRecords
<1>5. lps \in Seq(LoopRecords) /\ m \in Nat /\ DOMAIN lps = 1..m
  BY DEF LoopsFit
<1>6. lps2 \in Seq(LoopRecords) /\ Len(lps2) = m + 1 /\ DOMAIN lps2 = 1..(m + 1)
      /\ lps2[m + 1] = loop /\ \A j \in 1..m : lps2[j] = lps[j]
  BY <1>4, <1>5
<1> HIDE DEF n, scs2, base2, loop, m, lps2
<1>7. (\A i \in 1..(n + 1) : i \in 1..n \/ i = n + 1) /\ \A j \in 1..(m + 1) : j \in 1..m \/ j = m + 1
  BY <1>1, <1>5
<1>8. ASSUME NEW j \in 1..m
      PROVE  /\ lps[j].outside \in Nat /\ lps[j].outside < n
             /\ \E i \in 1..(n + 1) : LoopAt(lps[j], i, scs2, base2)
  <2>1. lps[j] \in LoopRecords
    BY <1>5
  <2>2. lps[j].outside \in Nat
    BY <2>1 DEF LoopRecords
  <2>3. PICK i \in 1..n : LoopAt(lps[j], i, scs, base)
    BY <1>1, <1>5 DEF LoopsFit
  <2>4. i \in 1..(n + 1) /\ lps[j].outside < n
    BY <1>1, <2>2, <2>3 DEF LoopAt
  <2>5. LoopAt(lps[j], i, scs2, base2)
    BY <1>1, <1>3, <2>3 DEF LoopAt
  <2> QED
    BY <2>2, <2>4, <2>5
<1>9. ASSUME s.part # "loop"
      PROVE  LoopsFit(lps, scs2, base2)
  <2>1. ASSUME NEW i \in 1..(n + 1), scs2[i].part = "loop"
        PROVE  \E j \in 1..m : lps[j].outside + 1 = i
    <3>1. i \in 1..n
      BY <1>1, <1>7, <1>9, <2>1
    <3> QED
      BY <1>1, <1>5, <2>1, <3>1 DEF LoopsFit
  <2> QED
    BY <1>1, <1>5, <1>8, <2>1 DEF LoopsFit
<1>10. ASSUME s.part = "loop", scs # <<>>
       PROVE  LoopsFit(lps2, scs2, base2)
  <2>1. n >= 1 /\ n + 1 \in 1..(n + 1)
    <3>1. Len(scs) >= 1
      BY <1>10
    <3> QED
      BY <1>1, <3>1
  <2>2. ASSUME NEW j \in 1..(m + 1)
        PROVE  \E i \in 1..(n + 1) : LoopAt(lps2[j], i, scs2, base2)
    <3>1. CASE j \in 1..m
      BY <1>6, <1>8, <3>1
    <3>2. CASE j = m + 1
      <4>1. n + 1 > 1 /\ lps2[j] = loop /\ scs2[n + 1].part = "loop"
        BY <1>1, <1>6, <1>10, <2>1, <3>2
      <4>2. LoopAt(loop, n + 1, scs2, base2)
        BY <1>1, <1>3, <1>4, <4>1 DEF LoopAt
      <4> QED
        BY <2>1, <4>1, <4>2
    <3> QED
      BY <1>7, <3>1, <3>2
  <2>3. ASSUME NEW j \in 1..(m + 1), NEW k \in 1..(m + 1), j < k
        PROVE  lps2[j].outside < lps2[k].outside
    <3>1. j \in 1..m
      BY <1>5, <2>3
    <3>2. CASE k \in 1..m
      BY <1>5, <1>6, <2>3, <3>1, <3>2 DEF LoopsFit
    <3>3. CASE k = m + 1
      BY <1>4, <1>6, <1>8, <3>1, <3>3
    <3> QED
      BY <1>7, <3>2, <3>3
  <2>4. ASSUME NEW i \in 1..(n + 1), scs2[i].part = "loop"
        PROVE  \E j \in 1..(m + 1) : lps2[j].outside + 1 = i
    <3>1. CASE i \in 1..n
      <4>1. PICK j \in 1..m : lps[j].outside + 1 = i
        BY <1>1, <1>5, <2>4, <3>1 DEF LoopsFit
      <4>2. j \in 1..(m + 1)
        BY <1>5
      <4> QED
        BY <1>6, <4>1, <4>2
    <3>2. CASE i = n + 1
      <4>1. m + 1 \in 1..(m + 1)
        BY <1>5
      <4> QED
        BY <1>4, <1>6, <3>2, <4>1
    <3> QED
      BY <1>7, <3>1, <3>2
  <2> QED
    BY <1>1, <1>6, <2>2, <2>3, <2>4 DEF LoopsFit
<1> QED
  BY <1>9, <1>10 DEF scs2, base2, lps2, loop

\* Closing a block.
Below(frames, part) == SubSeq(frames, 1, Len(frames) - 1 - OwnFrame(part))
Outside(base, scs) == [i \in 1..(Len(scs) - 1) |-> base[i]]
LoopsAround(lps, part) == IF part = "loop" THEN Front(lps) ELSE lps

LEMMA LoopsPop ==
    ASSUME NEW base, NEW scs, scs \in Seq(ScopeRecords), NEW lps, LoopsFit(lps, scs, base), Len(scs) > 1
    PROVE  LoopsFit(LoopsAround(lps, Last(scs).part), Front(scs), Outside(base, scs))
<1> DEFINE n == Len(scs)
           m == Len(lps)
           scs2 == Front(scs)
           base2 == Outside(base, scs)
<1>1. /\ n \in Nat /\ n > 1 /\ scs2 \in Seq(ScopeRecords) /\ Len(scs2) = n - 1
      /\ (\A i \in 1..(n - 1) : scs2[i] = scs[i]) /\ DOMAIN scs = 1..n /\ DOMAIN scs2 = 1..(n - 1)
      /\ Last(scs) = scs[n]
  BY DEF Front, Last
<1>2. \A i \in 1..(n - 1) : base2[i] = base[i]
  BY DEF Outside
<1>3. lps \in Seq(LoopRecords) /\ m \in Nat /\ DOMAIN lps = 1..m
  BY DEF LoopsFit
<1>4. \A j \in 1..m : \E i \in 1..n : LoopAt(lps[j], i, scs, base)
  BY <1>1, <1>3 DEF LoopsFit
<1>5. ASSUME NEW j \in 1..m
      PROVE  lps[j].outside \in Nat
  <2>1. lps[j] \in LoopRecords
    BY <1>3
  <2> QED
    BY <2>1 DEF LoopRecords
<1> HIDE DEF n, m, scs2, base2
<1>6. ASSUME NEW j \in 1..m, NEW i \in 1..(n - 1), LoopAt(lps[j], i, scs, base)
      PROVE  LoopAt(lps[j], i, scs2, base2)
  BY <1>1, <1>2, <1>6 DEF LoopAt
<1>7. CASE scs[n].part # "loop"
  <2>1. ASSUME NEW j \in 1..m
        PROVE  \E i \in 1..(n - 1) : LoopAt(lps[j], i, scs2, base2)
    <3>1. PICK i \in 1..n : LoopAt(lps[j], i, scs, base)
      BY <1>4
    <3>2. i # n
      BY <1>7, <3>1 DEF LoopAt
    <3>3. i \in 1..(n - 1)
      BY <1>1, <3>2
    <3> QED
      BY <1>6, <3>1, <3>3
  <2>2. ASSUME NEW i \in 1..(n - 1), scs2[i].part = "loop"
        PROVE  \E j \in 1..m : lps[j].outside + 1 = i
    <3>1. i \in 1..n /\ scs[i].part = "loop"
      BY <1>1, <2>2
    <3> QED
      BY <1>1, <1>3, <3>1 DEF LoopsFit
  <2>3. LoopsFit(lps, scs2, base2)
    BY <1>1, <1>3, <2>1, <2>2 DEF LoopsFit
  <2> QED
    BY <1>1, <1>7, <2>3 DEF LoopsAround, scs2, base2
<1>8. CASE scs[n].part = "loop"
  <2> DEFINE lps2 == Front(lps)
  <2>1. PICK j0 \in 1..m : lps[j0].outside + 1 = n
    BY <1>1, <1>3, <1>8 DEF LoopsFit
  <2>2. m >= 1
    BY <2>1, <1>3
  <2>3. /\ lps2 \in Seq(LoopRecords) /\ Len(lps2) = m - 1 /\ DOMAIN lps2 = 1..(m - 1)
        /\ \A j \in 1..(m - 1) : lps2[j] = lps[j]
    BY <1>3, <2>2 DEF Front, m
  <2> HIDE DEF lps2
  <2>4. ASSUME NEW j \in 1..(m - 1)
        PROVE  lps[j].outside + 1 < n
    <3>1. CASE j0 = m
      <4>1. j \in 1..m /\ j < j0
        BY <1>3, <3>1
      <4>2. lps[j].outside < lps[j0].outside
        BY <1>3, <4>1 DEF LoopsFit
      <4> QED
        BY <1>1, <1>5, <2>1, <4>1, <4>2
    <3>2. CASE j0 # m
      <4>1. m \in 1..m /\ j0 < m
        BY <1>3, <3>2
      <4>2. lps[j0].outside < lps[m].outside
        BY <1>3, <4>1 DEF LoopsFit
      <4>3. PICK i \in 1..n : LoopAt(lps[m], i, scs, base)
        BY <1>4, <4>1
      <4>4. lps[m].outside + 1 <= n
        BY <1>1, <4>3 DEF LoopAt
      <4> QED
        BY <1>1, <1>5, <2>1, <4>1, <4>2, <4>4
    <3> QED
      BY <3>1, <3>2
  <2>5. ASSUME NEW j \in 1..(m - 1)
        PROVE  \E i \in 1..(n - 1) : LoopAt(lps2[j], i, scs2, base2)
    <3>1. j \in 1..m
      BY <1>3
    <3>2. PICK i \in 1..n : LoopAt(lps[j], i, scs, base)
      BY <1>4, <3>1
    <3>3. i \in 1..(n - 1)
      BY <1>1, <2>4, <3>2 DEF LoopAt
    <3>4. LoopAt(lps[j], i, scs2, base2)
      BY <1>6, <3>1, <3>2, <3>3
    <3> QED
      BY <2>3, <3>3, <3>4
  <2>6. ASSUME NEW j \in 1..(m - 1), NEW k \in 1..(m - 1), j < k
        PROVE  lps2[j].outside < lps2[k].outside
    <3>1. j \in 1..m /\ k \in 1..m
      BY <1>3
    <3>2. lps[j].outside < lps[k].outside
      BY <1>3, <2>6, <3>1 DEF LoopsFit
    <3> QED
      BY <2>3, <3>2
  <2>7. ASSUME NEW i \in 1..(n - 1), scs2[i].part = "loop"
        PROVE  \E j \in 1..(m - 1) : lps2[j].outside + 1 = i
    <3>1. i \in 1..n /\ scs[i].part = "loop"
      BY <1>1, <2>7
    <3>2. PICK j \in 1..m : lps[j].outside + 1 = i
      BY <1>1, <1>3, <3>1 DEF LoopsFit
    <3>3. j # m
      <4>1. ASSUME j = m
            PROVE  FALSE
        <5>1. CASE j0 = m
          BY <1>1, <2>1, <3>2, <4>1, <5>1
        <5>2. CASE j0 # m
          <6>1. m \in 1..m /\ j0 < m
            BY <1>3, <5>2
          <6>2. lps[j0].outside < lps[m].outside
            BY <1>3, <6>1 DEF LoopsFit
          <6> QED
            BY <1>1, <1>5, <2>1, <3>2, <4>1, <6>1, <6>2
        <5> QED
          BY <5>1, <5>2
      <4> QED
        BY <4>1
    <3>4. j \in 1..(m - 1)
      BY <1>3, <3>3
    <3> QED
      BY <2>3, <3>2, <3>4
  <2>8. LoopsFit(lps2, scs2, base2)
    BY <1>1, <2>3, <2>5, <2>6, <2>7 DEF LoopsFit
  <2> QED
    BY <1>1, <1>8, <2>8 DEF LoopsAround, lps2, scs2, base2
<1> QED
  BY <1>7, <1>8

\* What closing the block s gives.
Popped(code, want, live, base, scs, lps, frames, waits, hole, s) ==
  /\ Around(code, want, live, Outside(base, scs), Front(scs), LoopsAround(lps, s.part),
            Below(frames, s.part), Front(waits), hole \cup AwaitedBy(s))
  /\ Front(scs) # <<>> /\ Shape(code, s) /\ s \in ScopeRecords /\ s.part # "body"
  /\ Untouched(code, AwaitedBy(s)) /\ AwaitedBy(s) \cap hole = {}
  /\ \A b \in AwaitedBy(s) : want[b] = Due(Front(scs), Front(waits))
  /\ AwaitedBy(s) \cap live # {} =>
       /\ AwaitedBy(s) \subseteq live /\ Awaited(Front(scs)) \subseteq live
       /\ \A k \in DOMAIN Below(frames, s.part) : Below(frames, s.part)[k] = <<>>
  /\ Due(scs, waits) = Append(Due(Front(scs), Front(waits)),
                              [scope |-> s.at, bodies |-> Last(waits)])

LEMMA Pop ==
    ASSUME NEW code, NEW want, NEW live, NEW base, NEW scs, NEW lps, NEW frames, NEW waits, NEW hole,
           Around(code, want, live, base, scs, lps, frames, waits, hole), Len(scs) > 1,
           NEW s, s = Last(scs)
    PROVE  Popped(code, want, live, base, scs, lps, frames, waits, hole, s)
<1> DEFINE n == Len(scs)
           scs2 == Front(scs)
           base2 == Outside(base, scs)
           frames2 == Below(frames, s.part)
           waits2 == Front(waits)
           F == Len(frames)
<1>1. /\ n \in Nat /\ n > 1 /\ scs2 \in Seq(ScopeRecords) /\ Len(scs2) = n - 1 /\ scs \in Seq(ScopeRecords)
      /\ (\A i \in 1..(n - 1) : scs2[i] = scs[i]) /\ DOMAIN scs = 1..n /\ DOMAIN scs2 = 1..(n - 1)
      /\ s = scs[n] /\ Len(scs) = n
  <2>1. scs \in Seq(ScopeRecords)
    BY DEF Around, StackFits
  <2> QED
    BY <2>1 DEF Front, Last
<1>2. /\ waits \in Seq(Seq(Places)) /\ Len(waits) = n /\ waits2 \in Seq(Seq(Places)) /\ Len(waits2) = n - 1
      /\ (\A i \in 1..(n - 1) : waits2[i] = waits[i]) /\ Last(waits) = waits[n]
      /\ DOMAIN waits = 1..n /\ DOMAIN waits2 = 1..(n - 1)
  <2>1. waits \in Seq(Seq(Places)) /\ Len(waits) = n
    BY DEF Around, WaitsFit
  <2> QED
    BY <1>1, <2>1 DEF Front, Last
<1>3. /\ frames \in Seq(Seq(Places)) /\ F \in Nat /\ base \in [1..n -> Nat]
      /\ (\A i \in 1..n : base[i] < F) /\ F = base[n] + 1 + OwnFrame(s.part)
      /\ OwnFrame(s.part) \in {0, 1}
  <2>1. FramesFit(frames, scs, base)
    BY DEF Around
  <2>2. frames \in Seq(Seq(Places)) /\ base \in [1..n -> Nat] /\ \A i \in 1..n : base[i] < F
    BY <1>1, <2>1 DEF FramesFit
  <2>3. n \in DOMAIN scs
    BY <1>1
  <2>4. F = base[n] + 1 + OwnFrame(s.part)
    BY <1>1, <2>1, <2>3 DEF FramesFit, n
  <2> QED
    BY <2>2, <2>4 DEF OwnFrame
<1>4. /\ F - 1 - OwnFrame(s.part) = base[n] /\ base[n] \in Nat /\ base[n] < F
      /\ frames2 \in Seq(Seq(Places)) /\ Len(frames2) = base[n] /\ \A k \in 1..base[n] : frames2[k] = frames[k]
  <2>1. F - 1 - OwnFrame(s.part) = base[n] /\ base[n] \in Nat /\ base[n] < F
    BY <1>1, <1>3
  <2>2. frames2 = SubSeq(frames, 1, base[n])
    BY <2>1 DEF Below
  <2> QED
    BY <1>3, <2>1, <2>2
<1>5. base2 \in [1..(n - 1) -> Nat] /\ \A i \in 1..(n - 1) : base2[i] = base[i]
  BY <1>1, <1>3 DEF Outside
<1>6. LoopsFit(LoopsAround(lps, s.part), scs2, base2)
  BY <1>1, LoopsPop DEF Around
<1>7. Awaited(scs) = Awaited(scs2) \cup AwaitedBy(s)
  <2>1. scs # <<>>
    BY <1>1
  <2> QED
    BY <1>1, <2>1, AwaitedSplit
<1> HIDE DEF n, scs2, base2, frames2, waits2, F
<1>8. \A i \in 1..(n - 1) : i \in 1..n
  BY <1>1
<1>9. /\ Shape(code, s) /\ s.part # "body" /\ s \in ScopeRecords
      /\ \A i \in 1..n : Shape(code, scs[i]) /\ (scs[i].part = "body" <=> i = 1)
      /\ \A i, j \in 1..n : i # j => AwaitedBy(scs[i]) \cap AwaitedBy(scs[j]) = {}
      /\ Untouched(code, Awaited(scs))
  BY <1>1 DEF Around, StackFits
<1>10. StackFits(code, scs2)
  <2>1. Untouched(code, Awaited(scs2))
    BY <1>7, <1>9 DEF Untouched
  <2> QED
    BY <1>1, <1>8, <1>9, <2>1 DEF StackFits
<1>11. Awaited(scs2) \cap AwaitedBy(s) = {}
  <2>1. ASSUME NEW i \in 1..(n - 1)
        PROVE  AwaitedBy(scs2[i]) \cap AwaitedBy(s) = {}
    <3>1. i \in 1..n /\ i # n /\ n \in 1..n
      BY <1>1
    <3> QED
      BY <1>1, <1>9, <3>1
  <2> QED
    BY <1>1, <2>1 DEF Awaited
<1>12. FramesFit(frames2, scs2, base2)
  <2>1. FramesFit(frames, scs, base)
    BY DEF Around
  <2>2. n \in 1..n /\ \A i \in 1..(n - 1) : i < n
    BY <1>1
  <2>3. \A i \in 1..(n - 1) : base2[i] < Len(frames2)
    <3>1. ASSUME NEW i \in 1..(n - 1)
          PROVE  base2[i] < Len(frames2)
      <4>1. i \in 1..n /\ i < n
        BY <2>2, <1>8
      <4>2. base[i] < base[n]
        BY <1>1, <2>1, <2>2, <4>1 DEF FramesFit
      <4> QED
        BY <1>4, <1>5, <4>2
    <3> QED
      BY <3>1
  <2>4. \A i, j \in 1..(n - 1) : i < j => base2[i] < base2[j]
    BY <1>1, <1>5, <1>8, <2>1 DEF FramesFit
  <2>5. ASSUME NEW i \in 1..(n - 1)
        PROVE  (IF i = n - 1 THEN Len(frames2) ELSE base2[i + 1]) = base2[i] + 1 + OwnFrame(scs2[i].part)
    <3>1. i \in 1..n /\ i # n
      BY <1>1
    <3>2. base[i + 1] = base[i] + 1 + OwnFrame(scs[i].part)
      BY <1>1, <2>1, <3>1 DEF FramesFit
    <3>3. CASE i = n - 1
      <4>1. i + 1 = n
        BY <1>1, <3>3
      <4> QED
        BY <1>1, <1>4, <1>5, <3>2, <3>3, <4>1
    <3>4. CASE i # n - 1
      <4>1. i + 1 \in 1..(n - 1)
        BY <1>1, <3>4
      <4> QED
        BY <1>1, <1>5, <3>2, <3>4, <4>1
    <3> QED
      BY <3>3, <3>4
  <2> QED
    BY <1>1, <1>4, <1>5, <2>3, <2>4, <2>5 DEF FramesFit
<1>13. WaitsFit(code, waits2, scs2)
  <2>1. WaitsFit(code, waits, scs)
    BY DEF Around
  <2> QED
    BY <1>1, <1>2, <1>8, <2>1 DEF WaitsFit
<1>14. ASSUME NEW k \in 0..(n - 1)
       PROVE  Upto(k, scs2, waits2) = Upto(k, scs, waits)
  <2>1. \A i \in 1..k : i \in 1..(n - 1)
    BY <1>1
  <2> QED
    BY <1>1, <1>2, <2>1 DEF Upto
<1>15. Expected(want, scs2, waits2)
  <2>1. ASSUME NEW i \in 1..(n - 1), NEW b \in AwaitedBy(scs2[i])
        PROVE  want[b] = Upto(i - 1, scs2, waits2)
    <3>1. want[b] = Upto(i - 1, scs, waits)
      BY <1>1, <1>8 DEF Around, Expected
    <3>2. PICK k \in 0..(n - 1) : k = i - 1
      BY <1>1
    <3> QED
      BY <1>14, <3>1, <3>2, Zenon
  <2> QED
    BY <1>1, <2>1 DEF Expected
<1>16. LiveStack(live, scs2, frames2, base2)
  <2>1. LiveStack(live, scs, frames, base)
    BY DEF Around
  <2>2. ASSUME NEW i \in 1..(n - 1), AwaitedBy(scs2[i]) \cap live # {}
        PROVE  /\ \A j \in 1..i : AwaitedBy(scs2[j]) \subseteq live
               /\ \A k \in 1..base2[i] : frames2[k] = <<>>
    <3>1. /\ \A j \in 1..i : AwaitedBy(scs[j]) \subseteq live
          /\ \A k \in 1..base[i] : frames[k] = <<>>
      BY <1>1, <1>8, <2>1, <2>2 DEF LiveStack
    <3>2. \A j \in 1..i : j \in 1..(n - 1)
      BY <1>1
    <3>3. \A k \in 1..base[i] : k \in 1..base[n]
      <4>1. base[i] < base[n] /\ base[i] \in Nat
        <5>1. i \in 1..n /\ n \in 1..n /\ i < n
          BY <1>1
        <5> QED
          BY <1>1, <1>3, <5>1 DEF Around, FramesFit
      <4> QED
        BY <1>4, <4>1
    <3> QED
      BY <1>1, <1>4, <1>5, <3>1, <3>2, <3>3
  <2> QED
    BY <1>1, <2>2 DEF LiveStack
<1>17. Awaited(scs2) \cup (hole \cup AwaitedBy(s)) = Awaited(scs) \cup hole
  BY <1>7
<1>18. AwaitedBy(s) \subseteq DOMAIN code
  BY <1>9 DEF Shape, AwaitedBy
<1>19. AwaitedBy(s) \cap hole = {} /\ (hole \cup AwaitedBy(s)) \cap Awaited(scs2) = {}
       /\ hole \cup AwaitedBy(s) \subseteq DOMAIN code
  BY <1>7, <1>11, <1>18 DEF Around
<1>20. Around(code, want, live, base2, scs2, LoopsAround(lps, s.part), frames2, waits2, hole \cup AwaitedBy(s))
  BY <1>6, <1>10, <1>12, <1>13, <1>15, <1>16, <1>17, <1>19 DEF Around
<1>21. scs2 # <<>> /\ Untouched(code, AwaitedBy(s))
  BY <1>1, <1>7, <1>9 DEF Untouched
<1>22. \A b \in AwaitedBy(s) : want[b] = Due(scs2, waits2)
  <2>1. n \in 1..n /\ n - 1 \in 0..(n - 1) /\ Len(scs2) = n - 1
    BY <1>1
  <2>2. \A b \in AwaitedBy(s) : want[b] = Upto(n - 1, scs, waits)
    BY <1>1, <2>1 DEF Around, Expected
  <2>3. Upto(n - 1, scs, waits) = Due(scs2, waits2)
    BY <1>14, <2>1, Zenon DEF Due
  <2> QED
    BY <2>2, <2>3
<1>23. ASSUME AwaitedBy(s) \cap live # {}
       PROVE  /\ AwaitedBy(s) \subseteq live /\ Awaited(scs2) \subseteq live
              /\ \A k \in DOMAIN frames2 : frames2[k] = <<>>
  <2>1. n \in 1..n
    BY <1>1
  <2>2. /\ \A j \in 1..n : AwaitedBy(scs[j]) \subseteq live
        /\ \A k \in 1..base[n] : frames[k] = <<>>
    <3>1. LiveStack(live, scs, frames, base)
      BY DEF Around
    <3> QED
      BY <1>1, <1>23, <2>1, <3>1 DEF LiveStack
  <2>3. Awaited(scs) \subseteq live
    BY <1>1, <2>2 DEF Awaited
  <2>4. DOMAIN frames2 = 1..base[n]
    BY <1>4
  <2> QED
    BY <1>4, <1>7, <2>2, <2>3, <2>4
<1>24. Due(scs, waits) = Append(Due(scs2, waits2), [scope |-> s.at, bodies |-> Last(waits)])
  <2> DEFINE e == [scope |-> s.at, bodies |-> Last(waits)]
             f == [i \in 1..n |-> [scope |-> scs[i].at, bodies |-> waits[i]]]
             g == [i \in 1..(n - 1) |-> [scope |-> scs2[i].at, bodies |-> waits2[i]]]
  <2>1. f[n] = e
    BY <1>1, <1>2
  <2>2. \A i \in 1..(n - 1) : f[i] = g[i]
    BY <1>1, <1>2
  <2>3. Due(scs, waits) = f /\ Due(scs2, waits2) = g
    BY <1>1 DEF Due, Upto
  <2>4. f = Append(g, e)
    <3> DEFINE h == Append(g, e)
               S == {g[i] : i \in 1..(n - 1)} \cup {e}
    <3>1. g \in Seq(S) /\ Len(g) = n - 1
      BY <1>1
    <3>2. \A i \in 1..n : f[i] \in S
      <4> HIDE DEF e, f, g
      <4>1. \A i \in 1..n : i \in 1..(n - 1) \/ i = n
        BY <1>1
      <4> QED
        BY <2>1, <2>2, <4>1
    <3>3. f \in Seq(S) /\ Len(f) = n
      <4>1. f \in [1..n -> S]
        BY <3>2
      <4> HIDE DEF f, S
      <4> QED
        BY <1>1, <4>1
    <3> HIDE DEF e, g, f, S
    <3>4. e \in S
      BY DEF S
    <3>5. h \in Seq(S) /\ Len(h) = n /\ h[n] = e /\ \A i \in 1..(n - 1) : h[i] = g[i]
      BY <1>1, <3>1, <3>4
    <3> HIDE DEF h
    <3>6. \A i \in 1..n : f[i] = h[i]
      <4>1. \A i \in 1..n : i \in 1..(n - 1) \/ i = n
        BY <1>1
      <4> QED
        BY <2>1, <2>2, <3>5, <4>1
    <3>7. f = h
      BY <3>3, <3>5, <3>6, SeqEqual
    <3> QED
      BY <3>7 DEF h
  <2> QED
    BY <2>3, <2>4
<1> QED
  BY <1>9, <1>19, <1>20, <1>21, <1>22, <1>23, <1>24
     DEF Popped, scs2, base2, frames2, waits2

(***************************************************************************)
(* Blocks of code.                                                         *)
(***************************************************************************)
LEMMA TermTargets ==
    /\ None \in Terms /\ Ret \in Terms /\ Panic \in Terms
    /\ Ret # None /\ Panic # None
    /\ Targets(None) = {} /\ Targets(Ret) = {} /\ Targets(Panic) = {}
    /\ \A b \in Nat : Jump(b) \in Terms /\ Jump(b) # None /\ Targets(Jump(b)) = {b}
    /\ \A c \in Conds, b, d \in Nat :
         Branch(c, b, d) \in Terms /\ Branch(c, b, d) # None /\ Targets(Branch(c, b, d)) = {b, d}
<1>1. None.kind = "none" /\ Ret.kind = "ret" /\ Panic.kind = "panic"
  BY DEF None, Ret, Panic
<1>2. None \in Terms /\ Ret \in Terms /\ Panic \in Terms
  BY DEF Terms
<1>3. Ret # None /\ Panic # None
  BY <1>1
<1>4. Targets(None) = {} /\ Targets(Ret) = {} /\ Targets(Panic) = {}
  BY <1>1 DEF Targets
<1>5. ASSUME NEW b \in Nat
      PROVE  Jump(b) \in Terms /\ Jump(b) # None /\ Targets(Jump(b)) = {b}
  <2>1. Jump(b).kind = "jump" /\ Jump(b).to = b
    BY DEF Jump
  <2>2. Jump(b) \in [kind : {"jump"}, to : Nat]
    BY DEF Jump
  <2> QED
    BY <1>1, <2>1, <2>2 DEF Targets, Terms
<1>6. ASSUME NEW c \in Conds, NEW b \in Nat, NEW d \in Nat
      PROVE  Branch(c, b, d) \in Terms /\ Branch(c, b, d) # None /\ Targets(Branch(c, b, d)) = {b, d}
  <2>1. Branch(c, b, d).kind = "branch" /\ Branch(c, b, d).yes = b /\ Branch(c, b, d).no = d
    BY DEF Branch
  <2>2. Branch(c, b, d) \in [kind : {"branch"}, cond : Conds, yes : Nat, no : Nat]
    BY DEF Branch
  <2> QED
    BY <1>1, <2>1, <2>2 DEF Targets, Terms
<1> QED
  BY <1>2, <1>3, <1>4, <1>5, <1>6

LEMMA MarkIs == \A op \in Ops, arg \in Nat \cup Places :
                  /\ Mark(op, arg) \in Insts /\ Mark(op, arg).op = op /\ Mark(op, arg).arg = arg
                  /\ <<Mark(op, arg)>> \in Seq(Insts)
  BY DEF Mark, Insts

LEMMA RunsIs == ASSUME NEW op \in Ops, NEW d \in Seq(Places)
                PROVE  Runs(op, d) \in Seq(Insts)
<1>1. PICK n \in Nat : n = Len(d)
  OBVIOUS
<1>2. DOMAIN d = 1..n /\ \A i \in 1..n : d[i] \in Places
  BY <1>1
<1>3. \A i \in 1..n : Mark(op, d[i]) \in Insts
  BY <1>2, MarkIs
<1>4. [i \in 1..n |-> Mark(op, d[i])] \in [1..n -> Insts]
  BY <1>3
<1>5. [1..n -> Insts] \subseteq Seq(Insts)
  BY SeqDef
<1> QED
  BY <1>2, <1>4, <1>5 DEF Runs

LEMMA NewBlock == newBlock \in BlockRecords /\ newBlock.insts = <<>> /\ newBlock.term = None
                  /\ newBlock.nest = <<>>
  BY TermTargets DEF newBlock, BlockRecords

LEMMA GrowIs ==
    ASSUME NEW code \in Code, NEW n \in Nat
    PROVE  /\ Grow(code, n) \in Code /\ Len(Grow(code, n)) = Len(code) + n
           /\ \A b \in 1..Len(code) : Grow(code, n)[b] = code[b]
           /\ \A b \in (Len(code) + 1)..(Len(code) + n) : Grow(code, n)[b] = newBlock
<1> DEFINE more == [i \in 1..n |-> newBlock]
<1>1. more \in Seq(BlockRecords) /\ Len(more) = n /\ \A i \in 1..n : more[i] = newBlock
  BY NewBlock
<1> HIDE DEF more
<1>2. /\ code \o more \in Seq(BlockRecords) /\ Len(code \o more) = Len(code) + n
      /\ \A b \in 1..Len(code) : (code \o more)[b] = code[b]
      /\ \A b \in (Len(code) + 1)..(Len(code) + n) : (code \o more)[b] = more[b - Len(code)]
  BY <1>1 DEF Code
<1>3. \A b \in (Len(code) + 1)..(Len(code) + n) : b - Len(code) \in 1..n
  BY DEF Code
<1> QED
  BY <1>1, <1>2, <1>3 DEF Grow, more, Code

\* More instructions in a block, and its terminator.
LEMMA EmitIs ==
    ASSUME NEW code \in Code, NEW b \in DOMAIN code, NEW insts \in Seq(Insts)
    PROVE  /\ Emit(code, b, insts) \in Code /\ Len(Emit(code, b, insts)) = Len(code)
           /\ \A c \in DOMAIN code \ {b} : Emit(code, b, insts)[c] = code[c]
           /\ Emit(code, b, insts)[b].insts = code[b].insts \o insts
           /\ Emit(code, b, insts)[b].term = code[b].term /\ Emit(code, b, insts)[b].nest = code[b].nest
<1>1. code \in Seq(BlockRecords) /\ b \in 1..Len(code)
  BY DEF Code
<1>2. code[b] \in BlockRecords
  BY <1>1
<1>3. code[b].insts \in Seq(Insts)
  BY <1>2 DEF BlockRecords
<1>4. code[b].insts \o insts \in Seq(Insts)
  BY <1>3
<1> DEFINE r == [code[b] EXCEPT !.insts = @ \o insts]
<1>5. r \in BlockRecords /\ r.insts = code[b].insts \o insts /\ r.term = code[b].term /\ r.nest = code[b].nest
  BY <1>2, <1>4 DEF BlockRecords
<1>6. Emit(code, b, insts) = [code EXCEPT ![b] = r]
  BY DEF Emit
<1> HIDE DEF r
<1> QED
  BY <1>1, <1>5, <1>6 DEF Code

LEMMA SealIs ==
    ASSUME NEW code \in Code, NEW b \in DOMAIN code, NEW term \in Terms
    PROVE  /\ Seal(code, b, term) \in Code /\ Len(Seal(code, b, term)) = Len(code)
           /\ \A c \in DOMAIN code \ {b} : Seal(code, b, term)[c] = code[c]
           /\ Seal(code, b, term)[b].insts = code[b].insts
           /\ Seal(code, b, term)[b].term = term /\ Seal(code, b, term)[b].nest = code[b].nest
<1>1. code \in Seq(BlockRecords) /\ b \in 1..Len(code)
  BY DEF Code
<1>2. code[b] \in BlockRecords
  BY <1>1
<1> DEFINE r == [code[b] EXCEPT !.term = term]
<1>5. r \in BlockRecords /\ r.insts = code[b].insts /\ r.term = term /\ r.nest = code[b].nest
  BY <1>2 DEF BlockRecords
<1>6. Seal(code, b, term) = [code EXCEPT ![b] = r]
  BY DEF Seal
<1> HIDE DEF r
<1> QED
  BY <1>1, <1>5, <1>6 DEF Code

Nested(code, b, nest) == [code EXCEPT ![b].nest = nest]
Filled(code, b, r) == [code EXCEPT ![b] = r]

LEMMA NestIs ==
    ASSUME NEW code \in Code, NEW b \in DOMAIN code, NEW nest \in Seq(Places)
    PROVE  /\ Nested(code, b, nest) \in Code /\ Len(Nested(code, b, nest)) = Len(code)
           /\ \A c \in DOMAIN code \ {b} : Nested(code, b, nest)[c] = code[c]
           /\ Nested(code, b, nest)[b].insts = code[b].insts
           /\ Nested(code, b, nest)[b].term = code[b].term
           /\ Nested(code, b, nest)[b].nest = nest
<1>1. code \in Seq(BlockRecords) /\ b \in 1..Len(code)
  BY DEF Code
<1>2. code[b] \in BlockRecords
  BY <1>1
<1> DEFINE r == [code[b] EXCEPT !.nest = nest]
<1>5. r \in BlockRecords /\ r.insts = code[b].insts /\ r.term = code[b].term /\ r.nest = nest
  BY <1>2 DEF BlockRecords
<1>6. Nested(code, b, nest) = [code EXCEPT ![b] = r]
  BY DEF Nested
<1> HIDE DEF r
<1> QED
  BY <1>1, <1>5, <1>6 DEF Code

\* Contents put in a block.
LEMMA FillIs ==
    ASSUME NEW code \in Code, NEW b \in DOMAIN code, NEW r \in BlockRecords
    PROVE  /\ Filled(code, b, r) \in Code /\ Len(Filled(code, b, r)) = Len(code)
           /\ \A c \in DOMAIN code \ {b} : Filled(code, b, r)[c] = code[c]
           /\ Filled(code, b, r)[b] = r
<1>1. code \in Seq(BlockRecords) /\ b \in 1..Len(code)
  BY DEF Code
<1> QED
  BY <1>1 DEF Code, Filled

LEMMA CodeDomain == ASSUME NEW code \in Code
                    PROVE  /\ DOMAIN code = 1..Len(code) /\ Len(code) \in Nat
                           /\ \A b \in DOMAIN code : code[b] \in BlockRecords /\ code[b].insts \in Seq(Insts)
                                                     /\ code[b].term \in Terms
<1>1. DOMAIN code = 1..Len(code) /\ Len(code) \in Nat /\ \A b \in DOMAIN code : code[b] \in BlockRecords
  BY DEF Code
<1> QED
  BY <1>1 DEF BlockRecords

(***************************************************************************)
(* The state at the point that has been lowered.                           *)
(***************************************************************************)
LEMMA BuiltFacts ==
    ASSUME NEW code, NEW want, NEW live, NEW base, NEW scs, NEW lps, NEW frames, NEW waits, NEW hole,
           Around(code, want, live, base, scs, lps, frames, waits, hole)
    PROVE  /\ code \in Code /\ want \in [DOMAIN code -> States] /\ live \subseteq DOMAIN code
           /\ 1 \in live /\ want[1] = <<>> /\ hole \subseteq DOMAIN code /\ hole \cap Awaited(scs) = {}
           /\ \A b \in DOMAIN code : Targets(code[b].term) \subseteq DOMAIN code
           /\ \A b \in live : Good(code[b], want, live, b)
           /\ scs \in Seq(ScopeRecords) /\ frames \in Seq(Seq(Places)) /\ lps \in Seq(LoopRecords)
           /\ waits \in Seq(Seq(Places)) /\ Len(waits) = Len(scs)
           /\ Awaited(scs) \subseteq DOMAIN code
           /\ scs # <<>> => frames # <<>> /\ waits # <<>>
<1>1. /\ Annotated(code, want, live) /\ StackFits(code, scs) /\ FramesFit(frames, scs, base)
      /\ LoopsFit(lps, scs, base) /\ WaitsFit(code, waits, scs)
      /\ hole \subseteq DOMAIN code /\ hole \cap Awaited(scs) = {}
  BY DEF Around
<1>2. /\ code \in Code /\ want \in [DOMAIN code -> States] /\ live \subseteq DOMAIN code
      /\ 1 \in live /\ want[1] = <<>>
      /\ \A b \in DOMAIN code : Targets(code[b].term) \subseteq DOMAIN code
      /\ \A b \in live : Good(code[b], want, live, b)
  BY <1>1 DEF Annotated
<1>3. scs \in Seq(ScopeRecords) /\ frames \in Seq(Seq(Places)) /\ lps \in Seq(LoopRecords)
      /\ waits \in Seq(Seq(Places)) /\ Len(waits) = Len(scs)
  BY <1>1 DEF StackFits, FramesFit, LoopsFit, WaitsFit
<1>4. Awaited(scs) \subseteq DOMAIN code
  <2>1. \A i \in DOMAIN scs : AwaitedBy(scs[i]) \subseteq DOMAIN code
    BY <1>1 DEF StackFits, Shape, AwaitedBy
  <2> QED
    BY <2>1 DEF Awaited
<1>5. ASSUME scs # <<>>
      PROVE  frames # <<>> /\ waits # <<>>
  <2>1. Len(scs) \in 1..Len(scs) /\ DOMAIN scs = 1..Len(scs)
    BY <1>3, <1>5
  <2>2. base[Len(scs)] < Len(frames) /\ base[Len(scs)] \in Nat
    BY <1>1, <2>1 DEF FramesFit
  <2>3. Len(frames) # 0
    BY <1>3, <2>2
  <2> QED
    BY <1>3, <2>1, <2>3
<1> QED
  BY <1>1, <1>2, <1>3, <1>4, <1>5

LEMMA DueIs ==
    ASSUME NEW scs \in Seq(ScopeRecords), NEW waits \in Seq(Seq(Places)), Len(waits) = Len(scs)
    PROVE  /\ Due(scs, waits) \in States /\ Len(Due(scs, waits)) = Len(scs)
           /\ ScopesOf(Due(scs, waits)) = InScopes(scs)
           /\ InScopes(scs) \in Seq(Places)
           /\ scs # <<>> => /\ Due(scs, waits) # <<>>
                            /\ Last(Due(scs, waits)).bodies = Last(waits)
                            /\ Last(waits) \in Seq(Places)
<1> DEFINE s == Due(scs, waits)
           n == Len(scs)
<1>1. n \in Nat /\ n \in 0..Len(scs) /\ DOMAIN scs = 1..n
  OBVIOUS
<1>2. s \in States /\ Len(s) = n
  BY <1>1, UptoIs DEF Due
<1>3. DOMAIN s = 1..n
  BY <1>2 DEF States
<1>4. \A i \in 1..n : s[i] = [scope |-> scs[i].at, bodies |-> waits[i]]
  BY DEF Due, Upto
<1>5. ScopesOf(s) = InScopes(scs)
  <2>1. ASSUME NEW i \in 1..n
        PROVE  s[i].scope = scs[i].at
    <3>1. s[i] = [scope |-> scs[i].at, bodies |-> waits[i]]
      BY <1>4
    <3> HIDE DEF s
    <3> QED
      BY <3>1
  <2> HIDE DEF s
  <2> QED
    BY <1>1, <1>3, <2>1 DEF ScopesOf, InScopes
<1>6. InScopes(scs) \in Seq(Places)
  <2>1. \A i \in 1..n : scs[i] \in ScopeRecords
    OBVIOUS
  <2>2. \A i \in 1..n : scs[i].at \in Places
    BY <2>1 DEF ScopeRecords
  <2>3. [i \in 1..n |-> scs[i].at] \in Seq(Places)
    BY <1>1, <2>2
  <2> QED
    BY <1>1, <2>3 DEF InScopes
<1>7. ASSUME scs # <<>>
      PROVE  s # <<>> /\ Last(s).bodies = Last(waits) /\ Last(waits) \in Seq(Places)
  <2>1. n \in 1..n
    BY <1>7
  <2>2. s # <<>>
    <3> HIDE DEF s
    <3> QED
      BY <1>2, <2>1
  <2>3. s[n].bodies = waits[n]
    <3>1. s[n] = [scope |-> scs[n].at, bodies |-> waits[n]]
      BY <1>4, <2>1
    <3> HIDE DEF s, n
    <3> QED
      BY <3>1
  <2>4. waits[n] \in Seq(Places)
    BY <2>1
  <2> HIDE DEF s
  <2> QED
    BY <1>2, <2>2, <2>3, <2>4 DEF Last
<1> HIDE DEF s
<1> QED
  BY <1>2, <1>5, <1>6, <1>7 DEF s

\* What is lowered into the innermost frame lies in no other's way.
LEMMA TopFrame ==
    ASSUME NEW code, NEW want, NEW live, NEW base, NEW scs, NEW lps, NEW frames, NEW waits, NEW hole,
           Around(code, want, live, base, scs, lps, frames, waits, hole), scs # <<>>,
           NEW frames2 \in Seq(Seq(Places)), Len(frames2) = Len(frames),
           \A k \in 1..(Len(frames) - 1) : frames2[k] = frames[k]
    PROVE  Around(code, want, live, base, scs, lps, frames2, waits, hole)
<1>1. FramesFit(frames2, scs, base)
  BY DEF Around, FramesFit
<1>2. LiveStack(live, scs, frames2, base)
  <2>1. ASSUME NEW i \in DOMAIN scs, AwaitedBy(scs[i]) \cap live # {}, NEW k \in 1..base[i]
        PROVE  frames2[k] = <<>>
    <3>1. base[i] < Len(frames) /\ base[i] \in Nat /\ Len(frames) \in Nat
      BY DEF Around, FramesFit
    <3>2. k \in 1..(Len(frames) - 1)
      BY <3>1
    <3>3. frames[k] = <<>>
      BY <2>1 DEF Around, LiveStack
    <3> QED
      BY <3>2, <3>3
  <2> QED
    BY <2>1 DEF Around, LiveStack
<1> QED
  BY <1>1, <1>2 DEF Around

\* A statement that opens and closes nothing.
LEMMA Statement ==
    ASSUME NEW code, NEW cur, NEW want, NEW live, NEW base, NEW scs, NEW lps, NEW frames, NEW waits,
           Built(code, cur, want, live, base, scs, lps, frames, waits), scs # <<>>,
           NEW code2 \in Code, NEW want2 \in [DOMAIN code2 -> States], NEW live2 \in SUBSET DOMAIN code2,
           NEW cur2 \in DOMAIN code2, cur2 = cur \/ cur2 \notin DOMAIN code,
           Rewrites(code, code2, {cur}), Continues(code, want, live, want2, live2),
           \A b \in {cur} \cup (DOMAIN code2 \ DOMAIN code) :
             /\ Targets(code2[b].term) \subseteq DOMAIN code2
             /\ b \in live2 => Good(code2[b], want2, live2, b) /\ code2[b].nest = ScopesOf(want2[b])
             /\ b \in live2 /\ b # cur2 => code2[b].term # None,
           NEW frames2 \in Seq(Seq(Places)), Len(frames2) = Len(frames),
           \A k \in 1..(Len(frames) - 1) : frames2[k] = frames[k],
           Reaches(code2, cur2, want2, live2, scs, frames2, waits)
    PROVE  Built(code2, cur2, want2, live2, base, scs, lps, frames2, waits)
<1>1. Around(code, want, live, base, scs, lps, frames, waits, {cur})
  BY DEF Built
<1>2. Around(code, want, live, base, scs, lps, frames2, waits, {cur})
  BY <1>1, TopFrame
<1>3. {cur2} \in SUBSET DOMAIN code2 /\ {cur2} \cap (DOMAIN code \ {cur}) = {}
  OBVIOUS
<1>4. \A b \in {cur} \cup (DOMAIN code2 \ DOMAIN code) :
        /\ b \in live2 \ {cur2} => code2[b].term # None
        /\ b \in live2 => code2[b].nest = ScopesOf(want2[b])
  OBVIOUS
<1>5. Around(code2, want2, live2, base, scs, lps, frames2, waits, {cur2})
  BY <1>2, <1>3, <1>4, Rewrite
<1>6. cur2 \in live2 => code2[cur2].nest = ScopesOf(want2[cur2])
  BY <1>3
<1> QED
  BY <1>5, <1>6 DEF Built

\* A sequence with another last element.
LEMMA LastReplaced ==
    ASSUME NEW S, NEW s \in Seq(S), s # <<>>, NEW x \in S
    PROVE  /\ [s EXCEPT ![Len(s)] = x] \in Seq(S) /\ Len([s EXCEPT ![Len(s)] = x]) = Len(s)
           /\ [s EXCEPT ![Len(s)] = x] # <<>> /\ Last([s EXCEPT ![Len(s)] = x]) = x
           /\ \A k \in 1..(Len(s) - 1) : [s EXCEPT ![Len(s)] = x][k] = s[k]
<1> DEFINE t == [s EXCEPT ![Len(s)] = x]
<1>1. Len(s) \in 1..Len(s)
  OBVIOUS
<1>2. t \in Seq(S) /\ Len(t) = Len(s) /\ t[Len(s)] = x /\ \A k \in 1..(Len(s) - 1) : t[k] = s[k]
  BY <1>1
<1> HIDE DEF t
<1>3. Last(t) = x
  BY <1>2 DEF Last
<1>4. t # <<>>
  BY <1>1, <1>2, EmptySeq
<1> QED
  BY <1>2, <1>3, <1>4 DEF t

\* The cleanup frames after the defers of the innermost block have been lowered.
Flushed(frames, waits) == [frames EXCEPT ![Len(frames)] = @ \o Last(waits)]

LEMMA FlushIs ==
    ASSUME NEW frames \in Seq(Seq(Places)), frames # <<>>, NEW waits \in Seq(Seq(Places)), waits # <<>>
    PROVE  /\ Flushed(frames, waits) \in Seq(Seq(Places)) /\ Len(Flushed(frames, waits)) = Len(frames)
           /\ \A k \in 1..(Len(frames) - 1) : Flushed(frames, waits)[k] = frames[k]
           /\ Last(Flushed(frames, waits)) \in Seq(Places)
           /\ Last(frames) = <<>> => Last(Flushed(frames, waits)) = Last(waits)
<1> DEFINE n == Len(frames)
           d == Last(waits)
           frames2 == Flushed(frames, waits)
<1>1. n \in 1..n /\ frames[n] \in Seq(Places)
  OBVIOUS
<1>2. d \in Seq(Places)
  BY DEF Last
<1> HIDE DEF d
<1>3. frames[n] \o d \in Seq(Places) /\ (frames[n] = <<>> => frames[n] \o d = d)
  <2>1. PICK x \in Seq(Places) : x = frames[n]
    BY <1>1
  <2>2. x \o d \in Seq(Places) /\ (x = <<>> => x \o d = d)
    BY <1>2, ConcatProperties, ConcatEmptySeq
  <2> QED
    BY <2>1, <2>2
<1>4. frames2 = [frames EXCEPT ![n] = frames[n] \o d]
  BY DEF d, Flushed
<1> HIDE DEF frames2
<1>5. frames2 \in Seq(Seq(Places)) /\ Len(frames2) = n /\ Last(frames2) = frames[n] \o d
      /\ \A k \in 1..(n - 1) : frames2[k] = frames[k]
  <2>1. PICK x \in Seq(Places) : x = frames[n] \o d
    BY <1>3
  <2>2. frames2 = [frames EXCEPT ![Len(frames)] = x]
    BY <1>4, <2>1
  <2> HIDE DEF d
  <2>3. frames2 \in Seq(Seq(Places)) /\ Len(frames2) = Len(frames) /\ Last(frames2) = x
        /\ \A k \in 1..(Len(frames) - 1) : frames2[k] = frames[k]
    <3> DEFINE y == [frames EXCEPT ![Len(frames)] = x]
    <3>1. y \in Seq(Seq(Places)) /\ Len(y) = Len(frames) /\ Last(y) = x
          /\ \A k \in 1..(Len(frames) - 1) : y[k] = frames[k]
      BY LastReplaced
    <3> HIDE DEF y
    <3>2. frames2 = y
      BY <2>2 DEF y
    <3> QED
      BY <3>1, <3>2
  <2> QED
    BY <2>1, <2>3
<1> QED
  BY <1>1, <1>3, <1>5 DEF Last, d, frames2

\* The instructions emitted at an exit, from the frame `first`.
Unwinding(frames, first) ==
  Runs("unwind", Reverse(FlattenSeq(SubSeq(frames, first, Len(frames)))))

LEMMA UnwindingIs ==
    ASSUME NEW frames \in Seq(Seq(Places)), NEW first \in 1..Len(frames)
    PROVE  /\ Unwinding(frames, first) \in Seq(Insts)
           /\ \A s \in States :
                /\ s # <<>> /\ Distinct(Last(s).bodies) /\ Last(frames) = Last(s).bodies
                /\ \A k \in 1..(Len(frames) - 1) : frames[k] = <<>>
                => Leads(Unwinding(frames, first), s, Cleared(s))
<1> DEFINE n == Len(frames)
           m == n - first + 1
           top == SubSeq(frames, first, n)
<1>1. n \in Nat /\ n >= 1 /\ m \in Nat /\ m >= 1
  OBVIOUS
<1>2. top \in Seq(Seq(Places)) /\ Len(top) = m /\ \A k \in 1..m : top[k] = frames[first + k - 1]
  OBVIOUS
<1>3. FlattenSeq(top) \in Seq(Places)
  BY <1>2, FlattenType
<1>4. Unwinding(frames, first) = Runs("unwind", Reverse(FlattenSeq(top)))
  BY DEF Unwinding
<1>5. Unwinding(frames, first) \in Seq(Insts)
  <2> HIDE DEF top
  <2>1. Reverse(FlattenSeq(top)) \in Seq(Places)
    BY <1>3, ReverseType
  <2>2. "unwind" \in Ops
    BY DEF Ops
  <2> QED
    BY <1>4, <2>1, <2>2, RunsIs, Zenon
<1>6. ASSUME NEW s \in States, s # <<>>, Distinct(Last(s).bodies), Last(frames) = Last(s).bodies,
             \A k \in 1..(n - 1) : frames[k] = <<>>
      PROVE  Leads(Unwinding(frames, first), s, Cleared(s))
  <2>1. top[m] = Last(s).bodies
    <3>1. first + m - 1 = n /\ m \in 1..m
      BY <1>1
    <3>2. top[m] = frames[n]
      BY <1>2, <3>1
    <3> QED
      BY <1>6, <3>2 DEF Last
  <2>2. \A k \in 1..(m - 1) : top[k] = <<>>
    <3>1. \A k \in 1..(m - 1) : k \in 1..m /\ first + k - 1 \in 1..(n - 1)
      BY <1>1
    <3> QED
      BY <1>2, <1>6, <3>1
  <2> HIDE DEF top
  <2>3. FlattenSeq(top) = Last(s).bodies
    <3>1. top \in Seq(Seq(Places)) /\ Len(top) # 0 /\ \A k \in 1..(Len(top) - 1) : top[k] = <<>>
      BY <1>1, <1>2, <2>2
    <3>2. FlattenSeq(top) = top[Len(top)]
      BY <3>1, FlattenLast, Zenon
    <3> QED
      BY <1>2, <2>1, <3>2
  <2> QED
    BY <1>4, <1>6, <2>3, LeadsUnwind
<1> QED
  BY <1>5, <1>6

\* What is due before and after the defers of the innermost block have run.
LEMMA ClearedIs ==
    ASSUME NEW scs \in Seq(ScopeRecords), scs # <<>>, NEW waits \in Seq(Seq(Places)),
           Len(waits) = Len(scs)
    PROVE  /\ Cleared(Due(scs, waits)) \in States /\ Cleared(Due(scs, waits)) # <<>>
           /\ Len(Cleared(Due(scs, waits))) = Len(scs)
           /\ ScopesOf(Cleared(Due(scs, waits))) = InScopes(scs)
           /\ Last(Cleared(Due(scs, waits))).bodies = <<>>
           /\ \A i \in 0..(Len(scs) - 1) :
                SubSeq(Cleared(Due(scs, waits)), 1, i) = Upto(i, scs, waits)
<1> DEFINE n == Len(scs)
           s == Due(scs, waits)
           c == Cleared(s)
<1>1. n \in Nat /\ n >= 1 /\ n \in 1..n
  OBVIOUS
<1>2. s \in States /\ Len(s) = n /\ ScopesOf(s) = InScopes(scs) /\ s # <<>>
  BY DueIs
<1>3. s = Upto(n, scs, waits)
  BY DEF Due
<1> HIDE DEF s
<1>4. c \in States /\ c # <<>> /\ Last(c).bodies = <<>> /\ Len(c) = n
  BY <1>2, WithIs, EmptySeq DEF Cleared
<1>5. c = [s EXCEPT ![n].bodies = <<>>] /\ DOMAIN s = 1..n
  BY <1>2 DEF Cleared, With, States
<1>6. DOMAIN c = 1..n /\ \A i \in 1..n : i # n => c[i] = s[i]
  BY <1>5
<1>7. c[n].scope = s[n].scope
  <2>1. s[n] \in Entries
    BY <1>1, <1>2 DEF States
  <2> QED
    BY <1>1, <1>5, <2>1 DEF Entries
<1> HIDE DEF c
<1>8. ScopesOf(c) = ScopesOf(s)
  <2>1. \A i \in 1..n : c[i].scope = s[i].scope
    BY <1>6, <1>7
  <2> QED
    BY <1>5, <1>6, <2>1 DEF ScopesOf
<1>9. ASSUME NEW i \in 0..(n - 1)
      PROVE  SubSeq(c, 1, i) = Upto(i, scs, waits)
  <2>1. SubSeq(c, 1, i) = [k \in 1..i |-> c[k]]
    BY <1>1, <1>4 DEF States
  <2>2. \A k \in 1..i : k \in 1..n /\ k # n
    BY <1>1
  <2>3. \A k \in 1..i : c[k] = [scope |-> scs[k].at, bodies |-> waits[k]]
    BY <1>3, <1>6, <2>2 DEF Upto
  <2> QED
    BY <2>1, <2>3 DEF Upto
<1> QED
  BY <1>2, <1>4, <1>8, <1>9 DEF s, c

\* A statement that ends the block being lowered in new blocks: control is there in
\* the state t.
Forked(code, code2, cur, cur2, live, t) ==
  \A b \in DOMAIN code2 \ DOMAIN code :
    /\ Targets(code2[b].term) \subseteq DOMAIN code2 \ DOMAIN code
    /\ code2[b].nest = ScopesOf(t)
    /\ b # cur2 => code2[b].term # None
    /\ cur \in live => \E u \in States : /\ Leads(code2[b].insts, t, u)
                                         /\ Targets(code2[b].term) # {} => u = t

\* The blocks that are not new.
Left(code, code2, cur) ==
  /\ Len(code) <= Len(code2) /\ \A b \in DOMAIN code \ {cur} : code2[b] = code[b]
  /\ code2[cur].nest = code[cur].nest /\ code2[cur].term # None
  /\ Len(code[cur].insts) <= Len(code2[cur].insts)
  /\ Targets(code2[cur].term) \subseteq DOMAIN code2 \ DOMAIN code

SameBelow(frames, frames2) ==
  /\ frames2 \in Seq(Seq(Places)) /\ Len(frames2) = Len(frames)
  /\ \A k \in 1..(Len(frames) - 1) : frames2[k] = frames[k]

\* Lowering goes on in the block cur2, unless it has a terminator.
GoesOn(code, code2, cur, cur2, scs, frames, frames2, waits, t) ==
  /\ cur2 \in DOMAIN code2 /\ (cur2 = cur \/ cur2 \notin DOMAIN code)
  /\ cur2 # cur /\ code2[cur2].term = None =>
       frames2 = frames /\ t = Due(scs, waits) /\ code2[cur2].insts = <<>>

LEMMA Forks ==
    ASSUME NEW code, NEW cur, NEW want, NEW live, NEW base, NEW scs, NEW lps, NEW frames, NEW waits,
           Built(code, cur, want, live, base, scs, lps, frames, waits), scs # <<>>,
           code[cur].term = None,
           NEW t \in States, NEW code2 \in Code, NEW cur2, NEW frames2,
           Left(code, code2, cur), Forked(code, code2, cur, cur2, live, t), SameBelow(frames, frames2),
           GoesOn(code, code2, cur, cur2, scs, frames, frames2, waits, t),
           cur \in live => Leads(code2[cur].insts, want[cur], t)
    PROVE  \E want2, live2 : Built(code2, cur2, want2, live2, base, scs, lps, frames2, waits)
<1> USE DEF Forked, Left, SameBelow, GoesOn
<1>1. Around(code, want, live, base, scs, lps, frames, waits, {cur})
      /\ (cur \in live => code[cur].nest = ScopesOf(want[cur]))
      /\ Reaches(code, cur, want, live, scs, frames, waits)
  BY DEF Built
<1>2. /\ code \in Code /\ want \in [DOMAIN code -> States] /\ live \subseteq DOMAIN code
      /\ cur \in DOMAIN code /\ frames \in Seq(Seq(Places))
  BY <1>1, BuiltFacts
<1>3. DOMAIN code = 1..Len(code) /\ DOMAIN code2 = 1..Len(code2) /\ Len(code) \in Nat /\ Len(code2) \in Nat
  BY <1>2, CodeDomain
<1>4. DOMAIN code \subseteq DOMAIN code2
  BY <1>3
<1> DEFINE new == DOMAIN code2 \ DOMAIN code
           want2 == [b \in DOMAIN code2 |-> IF b \in DOMAIN code THEN want[b] ELSE t]
           live2 == IF cur \in live THEN live \cup new ELSE live
<1>5. want2 \in [DOMAIN code2 -> States] /\ (\A b \in DOMAIN code : want2[b] = want[b])
      /\ \A b \in new : want2[b] = t
  BY <1>2, <1>4
<1>6. live2 \in SUBSET DOMAIN code2 /\ (\A b \in DOMAIN code : b \in live2 <=> b \in live)
      /\ (\A b \in new : b \in live2 <=> cur \in live)
  BY <1>2, <1>4
<1> HIDE DEF new, want2, live2
<1>7. Rewrites(code, code2, {cur})
  <2>1. ASSUME NEW b \in DOMAIN code
        PROVE  Len(code[b].insts) <= Len(code2[b].insts)
    <3>1. CASE b = cur
      BY <3>1
    <3>2. CASE b # cur
      <4>1. code2[b] = code[b] /\ code[b].insts \in Seq(Insts)
        BY <1>2, <3>2, CodeDomain
      <4>2. Len(code[b].insts) \in Nat
        BY <4>1
      <4> QED
        BY <4>1, <4>2
    <3> QED
      BY <3>1, <3>2
  <2> QED
    BY <2>1 DEF Rewrites
<1>8. Continues(code, want, live, want2, live2)
  BY <1>5, <1>6 DEF Continues
<1>9. ASSUME NEW b \in {cur} \cup new
      PROVE  /\ Targets(code2[b].term) \subseteq new
             /\ b \in live2 => Good(code2[b], want2, live2, b) /\ code2[b].nest = ScopesOf(want2[b])
             /\ b \in live2 /\ b # cur2 => code2[b].term # None
  <2>1. CASE b = cur
    <3>1. Targets(code2[b].term) \subseteq new
      BY <2>1 DEF new
    <3>2. ASSUME b \in live2
          PROVE  Good(code2[b], want2, live2, b) /\ code2[b].nest = ScopesOf(want2[b])
      <4>1. cur \in live /\ want2[b] = want[cur]
        BY <1>2, <1>5, <1>6, <2>1, <3>2
      <4>2. Leads(code2[b].insts, want2[b], t)
        BY <2>1, <4>1
      <4>3. \A x \in Targets(code2[b].term) : x \in live2 /\ want2[x] = t
        BY <1>5, <1>6, <3>1, <4>1
      <4> QED
        BY <1>1, <2>1, <4>1, <4>2, <4>3 DEF Good
    <3> QED
      BY <2>1, <3>1, <3>2
  <2>2. CASE b \in new
    <3>1. Targets(code2[b].term) \subseteq new
      BY <2>2 DEF new
    <3>2. ASSUME b \in live2
          PROVE  Good(code2[b], want2, live2, b) /\ code2[b].nest = ScopesOf(want2[b])
      <4>1. cur \in live /\ want2[b] = t
        BY <1>5, <1>6, <2>2, <3>2
      <4>2. PICK u \in States : /\ Leads(code2[b].insts, t, u)
                                /\ Targets(code2[b].term) # {} => u = t
        BY <2>2, <4>1 DEF new
      <4>3. \A x \in Targets(code2[b].term) : x \in live2 /\ want2[x] = u
        BY <1>5, <1>6, <3>1, <4>1, <4>2
      <4>4. Good(code2[b], want2, live2, b)
        BY <4>1, <4>2, <4>3 DEF Good
      <4>5. code2[b].nest = ScopesOf(t)
        BY <2>2 DEF new
      <4> QED
        BY <4>1, <4>4, <4>5
    <3>3. b # cur2 => code2[b].term # None
      BY <2>2 DEF new
    <3> QED
      BY <3>1, <3>2, <3>3
  <2> QED
    BY <2>1, <2>2
<1>10. Reaches(code2, cur2, want2, live2, scs, frames2, waits)
  <2> SUFFICES ASSUME cur2 \in live2, code2[cur2].term = None
               PROVE  /\ \A k \in DOMAIN frames2 : frames2[k] = <<>>
                      /\ Awaited(scs) \subseteq live2
                      /\ Leads(code2[cur2].insts, want2[cur2], Due(scs, waits))
    BY DEF Reaches
  <2>1. cur2 # cur /\ cur2 \in new
    BY DEF new
  <2>2. frames2 = frames /\ t = Due(scs, waits) /\ code2[cur2].insts = <<>> /\ cur \in live /\ want2[cur2] = t
    BY <1>5, <1>6, <2>1
  <2>3. (\A k \in DOMAIN frames : frames[k] = <<>>) /\ Awaited(scs) \subseteq live
    BY <1>1, <2>2 DEF Reaches
  <2>4. live \subseteq live2
    BY <2>2 DEF live2
  <2>5. Leads(<<>>, t, t)
    BY LeadsNowhere
  <2> QED
    BY <2>2, <2>3, <2>4, <2>5
<1>11. \A b \in {cur} \cup (DOMAIN code2 \ DOMAIN code) :
         /\ Targets(code2[b].term) \subseteq DOMAIN code2
         /\ b \in live2 => Good(code2[b], want2, live2, b) /\ code2[b].nest = ScopesOf(want2[b])
         /\ b \in live2 /\ b # cur2 => code2[b].term # None
  BY <1>9 DEF new
<1>12. Built(code2, cur2, want2, live2, base, scs, lps, frames2, waits)
  BY <1>5, <1>6, <1>7, <1>8, <1>10, <1>11, Statement
<1> QED
  BY <1>12

\* One instruction.
LEMMA LeadsOne == ASSUME NEW s \in States, NEW inst \in Insts, Sound(inst, s)
                  PROVE  Leads(<<inst>>, s, Effect(inst, s))
<1>1. Leads(<<>>, s, s)
  BY LeadsNowhere
<1>2. <<>> \in Seq(Insts) /\ <<>> \o <<inst>> = <<inst>>
  OBVIOUS
<1>3. Leads(<<>> \o <<inst>>, s, Effect(inst, s))
  BY <1>1, <1>2, LeadsThen
<1> QED
  BY <1>2, <1>3

\* An instruction that no place or defer depends on.
Neutral == Ops \ {"enter", "defer", "run", "unwind", "leave"}

LEMMA LeadsNeutral == ASSUME NEW s \in States, NEW op \in Neutral, NEW n \in Nat
                      PROVE  /\ <<Mark(op, n)>> \in Seq(Insts)
                             /\ Leads(<<Mark(op, n)>>, s, s)
<1>1. Mark(op, n) \in Insts /\ Mark(op, n).op = op /\ <<Mark(op, n)>> \in Seq(Insts)
  BY MarkIs DEF Neutral
<1>2. op \notin {"enter", "defer", "run", "unwind", "leave"}
  BY DEF Neutral
<1>3. Sound(Mark(op, n), s) /\ Effect(Mark(op, n), s) = s
  BY <1>1, <1>2 DEF Sound, Effect
<1> QED
  BY <1>1, <1>3, LeadsOne

\* Leaving k blocks, of which the innermost has nothing due.
LEMMA LeadsOut == ASSUME NEW s \in States, s # <<>>, Last(s).bodies = <<>>, NEW k \in 0..Len(s)
                  PROVE  /\ <<Mark("leave", k)>> \in Seq(Insts)
                         /\ Leads(<<Mark("leave", k)>>, s, SubSeq(s, 1, Len(s) - k))
<1>1. k \in Nat /\ "leave" \in Ops
  BY DEF Ops
<1>2. /\ Mark("leave", k) \in Insts /\ Mark("leave", k).op = "leave" /\ Mark("leave", k).arg = k
      /\ <<Mark("leave", k)>> \in Seq(Insts)
  BY <1>1, MarkIs
<1>3. Sound(Mark("leave", k), s) /\ Effect(Mark("leave", k), s) = SubSeq(s, 1, Len(s) - k)
  BY <1>2 DEF Sound, Effect
<1> QED
  BY <1>2, <1>3, LeadsOne

\* The cleanup at an exit.
LEMMA ExitIs ==
    ASSUME NEW code, NEW cur, NEW want, NEW live, NEW base, NEW scs, NEW lps, NEW frames, NEW waits,
           Built(code, cur, want, live, base, scs, lps, frames, waits), scs # <<>>,
           code[cur].term = None,
           NEW first \in 1..Len(frames)
    PROVE  /\ Flushed(frames, waits) \in Seq(Seq(Places)) /\ Len(Flushed(frames, waits)) = Len(frames)
           /\ \A k \in 1..(Len(frames) - 1) : Flushed(frames, waits)[k] = frames[k]
           /\ Unwinding(Flushed(frames, waits), first) \in Seq(Insts)
           /\ cur \in live =>
                Leads(code[cur].insts \o Unwinding(Flushed(frames, waits), first), want[cur],
                      Cleared(Due(scs, waits)))
<1> DEFINE frames2 == Flushed(frames, waits)
           s == Due(scs, waits)
<1>1. Around(code, want, live, base, scs, lps, frames, waits, {cur})
      /\ Reaches(code, cur, want, live, scs, frames, waits)
  BY DEF Built
<1>2. /\ code \in Code /\ cur \in DOMAIN code /\ frames \in Seq(Seq(Places)) /\ scs \in Seq(ScopeRecords)
      /\ waits \in Seq(Seq(Places)) /\ Len(waits) = Len(scs) /\ frames # <<>> /\ waits # <<>>
  BY <1>1, BuiltFacts
<1>3. /\ frames2 \in Seq(Seq(Places)) /\ Len(frames2) = Len(frames)
      /\ \A k \in 1..(Len(frames) - 1) : frames2[k] = frames[k]
      /\ Last(frames) = <<>> => Last(frames2) = Last(waits)
  BY <1>2, FlushIs
<1>4. s \in States /\ s # <<>> /\ Last(s).bodies = Last(waits)
  BY <1>2, DueIs
<1>5. Distinct(Last(waits))
  <2>1. \A i \in DOMAIN waits : Distinct(waits[i])
    BY <1>1 DEF Around, WaitsFit
  <2>2. Len(waits) \in DOMAIN waits
    BY <1>2
  <2> QED
    BY <2>1, <2>2 DEF Last
<1>6. first \in 1..Len(frames2)
  BY <1>3
<1>7. Unwinding(frames2, first) \in Seq(Insts)
  BY <1>3, <1>6, UnwindingIs
<1> HIDE DEF s, frames2
<1>8. ASSUME cur \in live
      PROVE  Leads(code[cur].insts \o Unwinding(frames2, first), want[cur], Cleared(s))
  <2>1. (\A k \in DOMAIN frames : frames[k] = <<>>) /\ Leads(code[cur].insts, want[cur], s)
    BY <1>1, <1>8 DEF Reaches, s
  <2>2. Len(frames) \in DOMAIN frames /\ 1..(Len(frames) - 1) \subseteq DOMAIN frames
    BY <1>2
  <2>3. Last(frames2) = Last(s).bodies /\ \A k \in 1..(Len(frames2) - 1) : frames2[k] = <<>>
    BY <1>3, <1>4, <2>1, <2>2 DEF Last
  <2>4. Leads(Unwinding(frames2, first), s, Cleared(s))
    BY <1>3, <1>4, <1>5, <1>6, <2>3, UnwindingIs
  <2>5. code[cur].insts \in Seq(Insts)
    BY <1>2, CodeDomain
  <2> QED
    BY <1>7, <2>1, <2>4, <2>5, LeadsOn
<1> QED
  BY <1>3, <1>7, <1>8 DEF s, frames2

(***************************************************************************)
(* The statements.                                                         *)
(***************************************************************************)
Lowered(want, live, base) ==
  Built(blocks, current, want, live, base, scopes, loops, cleanups, pending)
Lowers == \E want, live, base : Lowered(want, live, base)

LEMMA LoweredFacts ==
    ASSUME NEW want, NEW live, NEW base, Lowered(want, live, base), scopes # <<>>
    PROVE  /\ Around(blocks, want, live, base, scopes, loops, cleanups, pending, {current})
           /\ current \in live => blocks[current].nest = ScopesOf(want[current])
           /\ Reaches(blocks, current, want, live, scopes, cleanups, pending)
           /\ blocks \in Code /\ current \in DOMAIN blocks /\ current \in Nat
           /\ DOMAIN blocks = 1..Len(blocks) /\ Len(blocks) \in Nat
           /\ blocks[current].insts \in Seq(Insts)
           /\ want \in [DOMAIN blocks -> States] /\ live \in SUBSET DOMAIN blocks
           /\ scopes \in Seq(ScopeRecords) /\ Len(scopes) \in Nat /\ Len(scopes) >= 1
           /\ cleanups \in Seq(Seq(Places)) /\ cleanups # <<>> /\ loops \in Seq(LoopRecords)
           /\ pending \in Seq(Seq(Places)) /\ pending # <<>> /\ Len(pending) = Len(scopes)
           /\ Due(scopes, pending) \in States /\ Due(scopes, pending) # <<>>
           /\ ScopesOf(Due(scopes, pending)) = InScopes(scopes) /\ InScopes(scopes) \in Seq(Places)
           /\ Awaited(scopes) \subseteq DOMAIN blocks
<1>1. /\ Around(blocks, want, live, base, scopes, loops, cleanups, pending, {current})
      /\ current \in live => blocks[current].nest = ScopesOf(want[current])
      /\ Reaches(blocks, current, want, live, scopes, cleanups, pending)
  BY DEF Lowered, Built
<1>2. /\ blocks \in Code /\ current \in DOMAIN blocks
      /\ want \in [DOMAIN blocks -> States] /\ live \in SUBSET DOMAIN blocks
      /\ scopes \in Seq(ScopeRecords) /\ cleanups \in Seq(Seq(Places)) /\ loops \in Seq(LoopRecords)
      /\ pending \in Seq(Seq(Places)) /\ Len(pending) = Len(scopes)
      /\ cleanups # <<>> /\ pending # <<>> /\ Awaited(scopes) \subseteq DOMAIN blocks
  BY <1>1, BuiltFacts
<1>3. DOMAIN blocks = 1..Len(blocks) /\ Len(blocks) \in Nat /\ blocks[current].insts \in Seq(Insts)
  BY <1>2, CodeDomain
<1>4. current \in Nat
  BY <1>2, <1>3
<1>5. Len(scopes) \in Nat /\ Len(scopes) >= 1
  BY <1>2
<1>6. /\ Due(scopes, pending) \in States /\ Due(scopes, pending) # <<>>
      /\ ScopesOf(Due(scopes, pending)) = InScopes(scopes) /\ InScopes(scopes) \in Seq(Places)
  BY <1>2, DueIs
<1> QED
  BY <1>1, <1>2, <1>3, <1>4, <1>5, <1>6

\* More instructions in the block being lowered.
LEMMA Lengthens ==
    ASSUME NEW code \in Code, NEW cur \in DOMAIN code, NEW code2 \in Code, Len(code2) = Len(code),
           \A b \in DOMAIN code \ {cur} : code2[b] = code[b],
           NEW insts \in Seq(Insts), code2[cur].insts = code[cur].insts \o insts,
           code[cur].term # None => code2[cur].term # None
    PROVE  /\ Rewrites(code, code2, {cur}) /\ DOMAIN code2 = DOMAIN code
           /\ Len(code2[cur].insts) = Len(code[cur].insts) + Len(insts)
<1>1. DOMAIN code2 = DOMAIN code /\ Len(code) \in Nat
  BY CodeDomain
<1>2. ASSUME NEW b \in DOMAIN code
      PROVE  code[b].insts \in Seq(Insts) /\ Len(code[b].insts) \in Nat
  <2>1. code[b].insts \in Seq(Insts)
    BY CodeDomain
  <2> QED
    BY <2>1
<1>3. Len(code2[cur].insts) = Len(code[cur].insts) + Len(insts) /\ Len(insts) \in Nat
  BY <1>2
<1>4. ASSUME NEW b \in DOMAIN code
      PROVE  /\ code[b].term # None => code2[b].term # None
             /\ Len(code[b].insts) <= Len(code2[b].insts)
  <2>1. CASE b = cur
    BY <1>2, <1>3, <2>1
  <2>2. CASE b # cur
    BY <1>2, <2>2
  <2> QED
    BY <2>1, <2>2
<1> QED
  BY <1>1, <1>3, <1>4 DEF Rewrites

LEMMA PlainLowers ==
    ASSUME NEW want, NEW live, NEW base, Lowered(want, live, base), scopes # <<>>,
           NEW op \in Neutral, Plain(op)
    PROVE  Lowers'
<1> DEFINE inst == <<Mark(op, 0)>>
           code2 == Emit(blocks, current, inst)
<1>0. blocks[current].term = None /\ blocks' = code2
      /\ UNCHANGED <<current, loops, cleanups, pending, scopes>>
  BY DEF Plain, Open
<1>1. /\ Around(blocks, want, live, base, scopes, loops, cleanups, pending, {current})
      /\ current \in live => blocks[current].nest = ScopesOf(want[current])
      /\ Reaches(blocks, current, want, live, scopes, cleanups, pending)
      /\ blocks \in Code /\ current \in DOMAIN blocks /\ blocks[current].insts \in Seq(Insts)
      /\ want \in [DOMAIN blocks -> States] /\ live \in SUBSET DOMAIN blocks
      /\ cleanups \in Seq(Seq(Places)) /\ Due(scopes, pending) \in States
  BY LoweredFacts
<1>2. inst \in Seq(Insts) /\ \A s \in States : Leads(inst, s, s)
  <2>1. 0 \in Nat
    OBVIOUS
  <2> QED
    BY <1>1, <2>1, LeadsNeutral, Zenon
<1> HIDE DEF inst
<1>3. /\ code2 \in Code /\ Len(code2) = Len(blocks)
      /\ \A b \in DOMAIN blocks \ {current} : code2[b] = blocks[b]
      /\ code2[current].insts = blocks[current].insts \o inst
      /\ code2[current].term = blocks[current].term /\ code2[current].nest = blocks[current].nest
  BY <1>1, <1>2, EmitIs
<1> HIDE DEF code2
<1>4. Rewrites(blocks, code2, {current}) /\ DOMAIN code2 = DOMAIN blocks
  <2>1. blocks[current].term # None => code2[current].term # None
    BY <1>3
  <2> QED
    BY <1>1, <1>2, <1>3, <2>1, Lengthens
<1>5. Continues(blocks, want, live, want, live)
  BY DEF Continues
<1>6. ASSUME current \in live
      PROVE  Leads(code2[current].insts, want[current], Due(scopes, pending))
  <2>1. Leads(blocks[current].insts, want[current], Due(scopes, pending))
    BY <1>0, <1>1, <1>6 DEF Reaches
  <2> QED
    BY <1>1, <1>2, <1>3, <2>1, LeadsOn
<1>7. \A b \in {current} \cup (DOMAIN code2 \ DOMAIN blocks) :
        /\ Targets(code2[b].term) \subseteq DOMAIN code2
        /\ b \in live => Good(code2[b], want, live, b) /\ code2[b].nest = ScopesOf(want[b])
        /\ b \in live /\ b # current => code2[b].term # None
  <2>1. Targets(code2[current].term) = {}
    BY <1>0, <1>3, TermTargets
  <2>2. current \in live => Good(code2[current], want, live, current)
    BY <1>1, <1>6, <2>1 DEF Good
  <2> QED
    BY <1>1, <1>3, <1>4, <2>1, <2>2
<1>8. Reaches(code2, current, want, live, scopes, cleanups, pending)
  BY <1>0, <1>1, <1>6 DEF Reaches
<1>9. Built(code2, current, want, live, base, scopes, loops, cleanups, pending)
  BY <1>1, <1>3, <1>4, <1>5, <1>7, <1>8, Statement DEF Lowered
<1> QED
  BY <1>0, <1>9 DEF Lowers, Lowered

\* One more defer in the innermost block.
Registered(waits, d) == [waits EXCEPT ![Len(waits)] = Append(@, d)]

LEMMA Awaits ==
    ASSUME NEW code, NEW want, NEW live, NEW base, NEW scs, NEW lps, NEW frames, NEW waits, NEW hole,
           Around(code, want, live, base, scs, lps, frames, waits, hole), scs # <<>>,
           NEW b \in DOMAIN code, NEW k \in 1..Len(code[b].insts),
           \A i \in DOMAIN waits : \A j \in DOMAIN waits[i] : waits[i][j] # <<b, k>>
    PROVE  /\ Around(code, want, live, base, scs, lps, frames, Registered(waits, <<b, k>>), hole)
           /\ Due(scs, Registered(waits, <<b, k>>)) = Effect(Mark("defer", <<b, k>>), Due(scs, waits))
           /\ Sound(Mark("defer", <<b, k>>), Due(scs, waits))
           /\ Mark("defer", <<b, k>>) \in Insts
<1> DEFINE n == Len(scs)
           d == <<b, k>>
           waits2 == Registered(waits, d)
<1>1. /\ code \in Code /\ scs \in Seq(ScopeRecords) /\ waits \in Seq(Seq(Places)) /\ Len(waits) = n
      /\ code[b].insts \in Seq(Insts) /\ DOMAIN code = 1..Len(code)
  <2>1. code \in Code /\ scs \in Seq(ScopeRecords) /\ waits \in Seq(Seq(Places)) /\ Len(waits) = n
    BY BuiltFacts
  <2> QED
    BY <2>1, CodeDomain
<1>2. n \in Nat /\ n \in 1..n /\ DOMAIN scs = 1..n /\ DOMAIN waits = 1..n /\ waits[n] \in Seq(Places)
      /\ k \in Nat /\ b \in Nat /\ k <= Len(code[b].insts)
  BY <1>1
<1>3. d \in Places
  BY <1>2 DEF Places
<1> HIDE DEF d, n, waits2
<1>4. PICK w \in Seq(Places) : w = Append(waits[n], d)
  <2>1. PICK v \in Seq(Places) : v = waits[n]
    BY <1>2
  <2>2. Append(v, d) \in Seq(Places)
    BY <1>3
  <2> QED
    BY <2>1, <2>2
<1>5. /\ Len(w) = Len(waits[n]) + 1 /\ w[Len(waits[n]) + 1] = d
      /\ (\A j \in 1..Len(waits[n]) : w[j] = waits[n][j])
      /\ Len(waits[n]) \in Nat /\ DOMAIN w = 1..Len(w) /\ DOMAIN waits[n] = 1..Len(waits[n])
  BY <1>2, <1>3, <1>4
<1>6. waits2 = [waits EXCEPT ![n] = w]
  BY <1>1, <1>4 DEF waits2, Registered
<1>7. /\ waits2 \in Seq(Seq(Places)) /\ Len(waits2) = n /\ DOMAIN waits2 = 1..n /\ waits2[n] = w
      /\ \A i \in 1..n : i # n => waits2[i] = waits[i]
  <2>1. waits \in Seq(Seq(Places)) /\ n \in 1..Len(waits)
    BY <1>1, <1>2
  <2> DEFINE e == [waits EXCEPT ![n] = w]
  <2>2. e \in Seq(Seq(Places)) /\ Len(e) = Len(waits) /\ e[n] = w
        /\ \A i \in 1..Len(waits) : i # n => e[i] = waits[i]
    BY <2>1
  <2> HIDE DEF e
  <2>3. waits2 = e /\ Len(waits) = n
    BY <1>1, <1>6 DEF e
  <2>4. DOMAIN e = 1..Len(e)
    BY <2>2
  <2> QED
    BY <2>2, <2>3, <2>4
<1>8. WaitsFit(code, waits2, scs)
  <2>1. ASSUME NEW i \in 1..n
        PROVE  /\ Distinct(waits2[i])
               /\ \A j \in DOMAIN waits2[i] : waits2[i][j][1] \in DOMAIN code
                                              /\ waits2[i][j][2] <= Len(code[waits2[i][j][1]].insts)
    <3>1. /\ Distinct(waits[i])
          /\ \A j \in DOMAIN waits[i] : waits[i][j][1] \in DOMAIN code
                                        /\ waits[i][j][2] <= Len(code[waits[i][j][1]].insts)
      BY <1>2 DEF Around, WaitsFit
    <3>2. CASE i # n
      BY <1>7, <3>1, <3>2
    <3>3. CASE i = n
      <4>1. \A j \in 1..Len(w) : j \in 1..Len(waits[n]) \/ j = Len(waits[n]) + 1
        BY <1>5
      <4>2. \A j \in 1..Len(waits[n]) : waits[n][j] # d
        BY <1>2, <1>5 DEF d
      <4>3. \A x, y \in 1..Len(waits[n]) : waits[n][x] = waits[n][y] => x = y
        BY <1>5, <3>1, <3>3 DEF Distinct
      <4>4. Distinct(w)
        BY <1>5, <4>1, <4>2, <4>3 DEF Distinct
      <4>5. ASSUME NEW j \in 1..Len(w)
            PROVE  w[j][1] \in DOMAIN code /\ w[j][2] <= Len(code[w[j][1]].insts)
        <5>1. CASE j \in 1..Len(waits[n])
          <6>1. w[j] = waits[n][j] /\ j \in DOMAIN waits[n]
            BY <1>5, <5>1
          <6> QED
            BY <3>1, <3>3, <6>1
        <5>2. CASE j = Len(waits[n]) + 1
          <6>1. w[j] = <<b, k>>
            BY <1>5, <5>2 DEF d
          <6>2. w[j][1] = b /\ w[j][2] = k
            BY <6>1
          <6> QED
            BY <1>2, <6>2
        <5> QED
          BY <4>1, <5>1, <5>2
      <4> QED
        BY <1>5, <1>7, <3>3, <4>4, <4>5
    <3> QED
      BY <3>2, <3>3
  <2> QED
    BY <1>1, <1>7, <2>1 DEF WaitsFit, n
<1>9. Expected(want, scs, waits2)
  <2>1. ASSUME NEW i \in 1..n
        PROVE  Upto(i - 1, scs, waits2) = Upto(i - 1, scs, waits)
    <3>1. \A j \in 1..(i - 1) : j \in 1..n /\ j # n
      BY <1>2
    <3>2. \A j \in 1..(i - 1) : waits2[j] = waits[j]
      BY <1>7, <3>1
    <3> QED
      BY <3>2 DEF Upto
  <2>2. Expected(want, scs, waits)
    BY DEF Around
  <2> QED
    BY <1>2, <2>1, <2>2 DEF Expected
<1>10. Around(code, want, live, base, scs, lps, frames, waits2, hole)
  BY <1>8, <1>9 DEF Around
<1> DEFINE s == Due(scs, waits)
           m == Mark("defer", d)
<1>11. m \in Insts /\ m.op = "defer" /\ m.arg = d
  <2>1. "defer" \in Ops
    BY DEF Ops
  <2>2. d \in Nat \cup Places
    BY <1>3
  <2>3. m = Mark("defer", d)
    OBVIOUS
  <2> HIDE DEF m
  <2> QED
    BY <2>1, <2>2, <2>3, MarkIs
<1>12. s \in States /\ s # <<>> /\ Len(s) = n
  <2>1. scs # <<>> /\ Len(waits) = Len(scs)
    BY <1>1 DEF n
  <2> QED
    BY <1>1, <2>1, DueIs DEF n
<1>13. Sound(m, s)
  BY <1>3, <1>11, <1>12 DEF Sound
<1>14. Due(scs, waits2) = Effect(m, s)
  <2>1. Effect(m, s) = [s EXCEPT ![n].bodies = Append(@, d)]
    BY <1>11, <1>12 DEF Effect
  <2>2. s = [i \in 1..n |-> [scope |-> scs[i].at, bodies |-> waits[i]]]
    BY DEF Due, Upto, n
  <2>3. s[n] = [scope |-> scs[n].at, bodies |-> waits[n]]
    BY <1>2, <2>2
  <2>4. [s[n] EXCEPT !.bodies = Append(@, d)] = [scope |-> scs[n].at, bodies |-> w]
    <3>1. PICK r : r = s[n]
      OBVIOUS
    <3> HIDE DEF s
    <3>2. r = [scope |-> scs[n].at, bodies |-> waits[n]]
      BY <2>3, <3>1
    <3>3. [r EXCEPT !.bodies = Append(@, d)] = [scope |-> scs[n].at, bodies |-> w]
      <4>1. Append(r.bodies, d) = w
        BY <1>4, <3>2
      <4>2. [r EXCEPT !.bodies = w] = [scope |-> scs[n].at, bodies |-> w]
        BY <3>2
      <4> QED
        BY <4>1, <4>2
    <3> QED
      BY <3>1, <3>3
  <2>5. Effect(m, s) = [s EXCEPT ![n] = [scope |-> scs[n].at, bodies |-> w]]
    BY <2>1, <2>4
  <2>6. Due(scs, waits2) = [i \in 1..n |-> [scope |-> scs[i].at, bodies |-> waits2[i]]]
    BY DEF Due, Upto, n
  <2> DEFINE e == [s EXCEPT ![n] = [scope |-> scs[n].at, bodies |-> w]]
  <2>7. e = [i \in 1..n |-> IF i = n THEN [scope |-> scs[n].at, bodies |-> w] ELSE s[i]]
    BY <2>2
  <2>8. \A i \in 1..n : i # n => s[i] = [scope |-> scs[i].at, bodies |-> waits2[i]]
    BY <1>7, <2>2
  <2> HIDE DEF s
  <2>9. \A i \in 1..n : (IF i = n THEN [scope |-> scs[n].at, bodies |-> w] ELSE s[i])
                         = [scope |-> scs[i].at, bodies |-> waits2[i]]
    BY <1>7, <2>8
  <2>10. e = [i \in 1..n |-> [scope |-> scs[i].at, bodies |-> waits2[i]]]
    BY <2>7, <2>9
  <2> HIDE DEF e
  <2>11. Effect(m, s) = e
    BY <2>5 DEF e
  <2> QED
    BY <2>6, <2>10, <2>11
<1> QED
  BY <1>10, <1>11, <1>13, <1>14 DEF d, waits2

LEMMA DeferLowers ==
    ASSUME NEW want, NEW live, NEW base, Lowered(want, live, base), scopes # <<>>, Defer
    PROVE  Lowers'
<1> DEFINE k == Len(blocks[current].insts) + 1
           d == <<current, k>>
           inst == <<Mark("defer", d)>>
           code2 == Emit(blocks, current, inst)
           waits2 == Registered(pending, d)
<1>0. blocks[current].term = None /\ blocks' = code2 /\ pending' = waits2
      /\ UNCHANGED <<current, loops, cleanups, scopes>>
  BY DEF Defer, Open, Here, Registered
<1>1. /\ Around(blocks, want, live, base, scopes, loops, cleanups, pending, {current})
      /\ current \in live => blocks[current].nest = ScopesOf(want[current])
      /\ Reaches(blocks, current, want, live, scopes, cleanups, pending)
      /\ blocks \in Code /\ current \in DOMAIN blocks /\ blocks[current].insts \in Seq(Insts)
      /\ want \in [DOMAIN blocks -> States] /\ live \in SUBSET DOMAIN blocks /\ current \in Nat
      /\ cleanups \in Seq(Seq(Places)) /\ Due(scopes, pending) \in States
      /\ pending \in Seq(Seq(Places))
  BY LoweredFacts
<1>2. k \in Nat /\ k >= 1 /\ d \in Places
  BY <1>1 DEF Places
<1>3. inst \in Seq(Insts) /\ Len(inst) = 1 /\ Mark("defer", d) \in Insts
  BY <1>2, MarkIs DEF Ops
<1> HIDE DEF inst
<1>4. /\ code2 \in Code /\ Len(code2) = Len(blocks)
      /\ \A b \in DOMAIN blocks \ {current} : code2[b] = blocks[b]
      /\ code2[current].insts = blocks[current].insts \o inst
      /\ code2[current].term = blocks[current].term /\ code2[current].nest = blocks[current].nest
  BY <1>1, <1>3, EmitIs
<1> HIDE DEF code2
<1>5. Rewrites(blocks, code2, {current}) /\ DOMAIN code2 = DOMAIN blocks
      /\ Len(code2[current].insts) = Len(blocks[current].insts) + Len(inst)
  <2>1. blocks[current].term # None => code2[current].term # None
    BY <1>4
  <2> QED
    BY <1>1, <1>3, <1>4, <2>1, Lengthens
<1>6. \A i \in DOMAIN pending : \A j \in DOMAIN pending[i] : pending[i][j] # d
  <2>1. ASSUME NEW i \in DOMAIN pending, NEW j \in DOMAIN pending[i], pending[i][j] = d
        PROVE  FALSE
    <3>1. pending[i][j][1] = current /\ pending[i][j][2] = k
      BY <2>1
    <3>2. pending[i][j][2] <= Len(blocks[pending[i][j][1]].insts)
      BY <1>1 DEF Around, WaitsFit
    <3>3. k <= Len(blocks[current].insts)
      BY <3>1, <3>2
    <3>4. Len(blocks[current].insts) \in Nat
      BY <1>1
    <3> QED
      BY <3>3, <3>4
  <2> QED
    BY <2>1
<1>7. Continues(blocks, want, live, want, live)
  BY DEF Continues
<1>8. Targets(code2[current].term) = {}
  BY <1>0, <1>4, TermTargets
<1> DEFINE s == Due(scopes, pending)
<1>9. ASSUME current \in live, Sound(Mark("defer", d), s)
      PROVE  Leads(code2[current].insts, want[current], Effect(Mark("defer", d), s))
  <2>1. Leads(blocks[current].insts, want[current], s)
    BY <1>0, <1>1, <1>9 DEF Reaches
  <2> HIDE DEF s
  <2>2. code2[current].insts = blocks[current].insts \o <<Mark("defer", d)>>
    BY <1>4 DEF inst
  <2> QED
    BY <1>1, <1>3, <1>9, <2>1, <2>2, LeadsThen
<1>10. d[1] = current /\ Sound(Mark("defer", d), s)
  <2>1. Mark("defer", d).op = "defer" /\ Mark("defer", d).arg = d
    BY DEF Mark
  <2>2. s # <<>>
    BY LoweredFacts
  <2> QED
    BY <1>2, <2>1, <2>2 DEF Sound
<1>11. ASSUME current \in live
       PROVE  Good(code2[current], want, live, current)
  <2>1. Effect(Mark("defer", d), s) \in States
    BY <1>1, <1>3, <1>10, EffectType
  <2> QED
    BY <1>8, <1>9, <1>10, <1>11, <2>1 DEF Good
<1>12. Around(code2, want, live, base, scopes, loops, cleanups, pending, {current})
  <2>1. \A b \in {current} \cup (DOMAIN code2 \ DOMAIN blocks) :
          /\ Targets(code2[b].term) \subseteq DOMAIN code2
          /\ b \in live => Good(code2[b], want, live, b)
          /\ b \in live /\ code2[b].term # None => code2[b].nest = ScopesOf(want[b])
          /\ b \in live \ {current} => code2[b].term # None
    BY <1>1, <1>4, <1>5, <1>8, <1>11
  <2>2. {current} \in SUBSET DOMAIN code2 /\ {current} \cap (DOMAIN blocks \ {current}) = {}
    BY <1>1, <1>5
  <2>3. want \in [DOMAIN code2 -> States] /\ live \in SUBSET DOMAIN code2
    BY <1>1, <1>5
  <2> QED
    BY <1>1, <1>4, <1>5, <1>7, <2>1, <2>2, <2>3, Rewrite
<1>13. /\ Around(code2, want, live, base, scopes, loops, cleanups, waits2, {current})
       /\ Due(scopes, waits2) = Effect(Mark("defer", d), s)
  <2>1. current \in DOMAIN code2 /\ k \in 1..Len(code2[current].insts)
    BY <1>1, <1>2, <1>3, <1>5
  <2>2. scopes # <<>>
    OBVIOUS
  <2> HIDE DEF k
  <2> QED
    BY <1>6, <1>12, <2>1, <2>2, Awaits
<1>14. Reaches(code2, current, want, live, scopes, cleanups, waits2)
  <2> HIDE DEF d, waits2, s
  <2> QED
    BY <1>0, <1>1, <1>9, <1>10, <1>13 DEF Reaches
<1>15. Built(code2, current, want, live, base, scopes, loops, cleanups, waits2)
  BY <1>1, <1>4, <1>13, <1>14 DEF Built
<1> QED
  BY <1>0, <1>15 DEF Lowers, Lowered

\* The way out of the k innermost blocks, once their cleanup has run.
LEMMA LeadsAway ==
    ASSUME NEW scs \in Seq(ScopeRecords), scs # <<>>, NEW waits \in Seq(Seq(Places)),
           Len(waits) = Len(scs), NEW k \in 1..Len(scs)
    PROVE  /\ <<Mark("leave", k)>> \in Seq(Insts)
           /\ Upto(Len(scs) - k, scs, waits) \in States
           /\ Cleared(Due(scs, waits)) \in States
           /\ ScopesOf(Cleared(Due(scs, waits))) = InScopes(scs)
           /\ Leads(<<Mark("leave", k)>>, Cleared(Due(scs, waits)), Upto(Len(scs) - k, scs, waits))
<1> DEFINE n == Len(scs)
           c == Cleared(Due(scs, waits))
<1>1. /\ c \in States /\ c # <<>> /\ Len(c) = n /\ Last(c).bodies = <<>>
      /\ ScopesOf(c) = InScopes(scs)
      /\ \A i \in 0..(n - 1) : SubSeq(c, 1, i) = Upto(i, scs, waits)
  BY ClearedIs
<1>2. n \in Nat /\ k \in 0..n /\ n - k \in 0..(n - 1) /\ n - k \in 0..n
  OBVIOUS
<1> HIDE DEF c
<1>3. <<Mark("leave", k)>> \in Seq(Insts) /\ Leads(<<Mark("leave", k)>>, c, SubSeq(c, 1, n - k))
  BY <1>1, <1>2, LeadsOut
<1>4. Upto(n - k, scs, waits) \in States
  BY <1>2, UptoIs
<1> QED
  BY <1>1, <1>2, <1>3, <1>4 DEF c

LEMMA ReturnLowers ==
    ASSUME NEW want, NEW live, NEW base, Lowered(want, live, base), scopes # <<>>, Return
    PROVE  Lowers'
<1> DEFINE n == Len(scopes)
           frames2 == Flushed(cleanups, pending)
           unwinding == Unwinding(frames2, 1)
           out == <<Mark("value", 0), Mark("leave", n)>>
           c == Cleared(Due(scopes, pending))
           t == Upto(n - n, scopes, pending)
           code1 == Emit(blocks, current, unwinding)
           code2 == Emit(code1, current, out)
           code3 == Seal(code2, current, Ret)
<1>0. /\ blocks[current].term = None /\ cleanups' = frames2 /\ blocks' = code3
      /\ UNCHANGED <<current, loops, pending, scopes>>
  <2>1. blocks[current].term = None /\ cleanups' = frames2 /\ UNCHANGED <<current, loops, pending, scopes>>
    BY DEF Return, Open, flushPendingDefers, Flushed
  <2>2. emitCleanupFrom(blocks, cleanups', 1) = code1
    BY <2>1 DEF emitCleanupFrom, Unwinding
  <2> QED
    BY <2>1, <2>2 DEF Return
<1>1. /\ Built(blocks, current, want, live, base, scopes, loops, cleanups, pending)
      /\ blocks \in Code /\ current \in DOMAIN blocks /\ blocks[current].insts \in Seq(Insts)
      /\ DOMAIN blocks = 1..Len(blocks)
      /\ scopes \in Seq(ScopeRecords) /\ n \in Nat /\ n >= 1
      /\ cleanups \in Seq(Seq(Places)) /\ cleanups # <<>>
      /\ pending \in Seq(Seq(Places)) /\ Len(pending) = n
  BY LoweredFacts DEF Lowered
<1>2. 1 \in 1..Len(cleanups) /\ n \in 1..Len(scopes)
  BY <1>1
<1>3. /\ frames2 \in Seq(Seq(Places)) /\ Len(frames2) = Len(cleanups)
      /\ \A k \in 1..(Len(cleanups) - 1) : frames2[k] = cleanups[k]
      /\ unwinding \in Seq(Insts)
      /\ current \in live => Leads(blocks[current].insts \o unwinding, want[current], c)
  BY <1>0, <1>1, <1>2, ExitIs
<1>4. /\ <<Mark("leave", n)>> \in Seq(Insts) /\ t \in States /\ c \in States
      /\ Leads(<<Mark("leave", n)>>, c, t)
  BY <1>1, <1>2, LeadsAway
<1>5. <<Mark("value", 0)>> \in Seq(Insts) /\ Leads(<<Mark("value", 0)>>, c, c)
  <2>1. "value" \in Neutral /\ 0 \in Nat
    BY DEF Neutral, Ops
  <2> QED
    BY <1>4, <2>1, LeadsNeutral, Zenon
<1> HIDE DEF unwinding, c, t, frames2, n
<1>6. out \in Seq(Insts) /\ Leads(out, c, t)
  <2>1. out = <<Mark("value", 0)>> \o <<Mark("leave", n)>>
    OBVIOUS
  <2>2. out \in Seq(Insts)
    BY <1>4, <1>5, <2>1, ConcatProperties
  <2> HIDE DEF out
  <2> QED
    BY <1>4, <1>5, <2>1, <2>2, LeadsOn
<1> HIDE DEF out
<1>7. /\ code1 \in Code /\ Len(code1) = Len(blocks)
      /\ \A b \in DOMAIN blocks \ {current} : code1[b] = blocks[b]
      /\ code1[current].insts = blocks[current].insts \o unwinding
      /\ code1[current].nest = blocks[current].nest
  BY <1>1, <1>3, EmitIs
<1> HIDE DEF code1
<1>8. current \in DOMAIN code1 /\ DOMAIN code1 = DOMAIN blocks
  BY <1>1, <1>7, CodeDomain
<1>9. /\ code2 \in Code /\ Len(code2) = Len(code1)
      /\ \A b \in DOMAIN code1 \ {current} : code2[b] = code1[b]
      /\ code2[current].insts = code1[current].insts \o out
      /\ code2[current].nest = code1[current].nest
  BY <1>6, <1>7, <1>8, EmitIs
<1> HIDE DEF code2
<1>10. current \in DOMAIN code2 /\ DOMAIN code2 = DOMAIN blocks
  BY <1>8, <1>9, CodeDomain
<1>11. Ret \in Terms /\ Ret # None /\ Targets(Ret) = {}
  BY TermTargets
<1>12. /\ code3 \in Code /\ Len(code3) = Len(code2)
       /\ \A b \in DOMAIN code2 \ {current} : code3[b] = code2[b]
       /\ code3[current].insts = code2[current].insts
       /\ code3[current].term = Ret /\ code3[current].nest = code2[current].nest
  BY <1>9, <1>10, <1>11, SealIs
<1> HIDE DEF code3
<1>13. current \in DOMAIN code3 /\ DOMAIN code3 = DOMAIN blocks
  BY <1>10, <1>12, CodeDomain
<1>14. \A b \in DOMAIN blocks \ {current} : code3[b] = blocks[b]
  BY <1>7, <1>8, <1>9, <1>10, <1>12
<1>15. current \in live => Leads(code3[current].insts, want[current], t)
  <2>1. code3[current].insts = (blocks[current].insts \o unwinding) \o out
    BY <1>7, <1>9, <1>12
  <2>2. blocks[current].insts \o unwinding \in Seq(Insts)
    BY <1>1, <1>3, ConcatProperties
  <2> QED
    BY <1>3, <1>6, <2>1, <2>2, LeadsOn
<1>16. Len(blocks[current].insts) <= Len(code3[current].insts)
  <2>1. code3[current].insts = (blocks[current].insts \o unwinding) \o out
    BY <1>7, <1>9, <1>12
  <2>2. /\ blocks[current].insts \o unwinding \in Seq(Insts)
        /\ Len(blocks[current].insts \o unwinding) = Len(blocks[current].insts) + Len(unwinding)
        /\ Len(blocks[current].insts) \in Nat /\ Len(unwinding) \in Nat /\ Len(out) \in Nat
    BY <1>1, <1>3, <1>6, ConcatProperties, LenProperties
  <2>3. Len(code3[current].insts) = Len(blocks[current].insts) + Len(unwinding) + Len(out)
    BY <1>6, <2>1, <2>2, ConcatProperties
  <2> QED
    BY <2>2, <2>3
<1>17. \E want2, live2 : Built(code3, current, want2, live2, base, scopes, loops, frames2, pending)
  <2>1. Left(blocks, code3, current)
    BY <1>7, <1>9, <1>11, <1>12, <1>14, <1>16 DEF Left
  <2>2. Forked(blocks, code3, current, current, live, t)
    BY <1>13 DEF Forked
  <2>3. SameBelow(cleanups, frames2)
    BY <1>3 DEF SameBelow
  <2>4. GoesOn(blocks, code3, current, current, scopes, cleanups, frames2, pending, t)
    BY <1>1, <1>13 DEF GoesOn
  <2> QED
    BY <1>0, <1>1, <1>4, <1>12, <1>15, <2>1, <2>2, <2>3, <2>4, Forks, Zenon
<1> QED
  BY <1>0, <1>17 DEF Lowers, Lowered

\* New blocks, and a terminator of the block before them.
Extended(code, cur, n, term) == Seal(Grow(code, n), cur, term)

IsExtended(code2, code, cur, n, term) ==
  /\ code2 \in Code /\ Len(code2) = Len(code) + n
  /\ \A b \in DOMAIN code \ {cur} : code2[b] = code[b]
  /\ code2[cur].insts = code[cur].insts /\ code2[cur].nest = code[cur].nest
  /\ code2[cur].term = term
  /\ \A b \in (Len(code) + 1)..(Len(code) + n) : code2[b] = newBlock

LEMMA ExtendedIs ==
    ASSUME NEW code \in Code, NEW cur \in DOMAIN code, NEW n \in Nat, NEW term \in Terms
    PROVE  IsExtended(Extended(code, cur, n, term), code, cur, n, term)
<1> DEFINE grown == Grow(code, n)
           sealed == Seal(grown, cur, term)
<1>1. DOMAIN code = 1..Len(code) /\ Len(code) \in Nat
  BY CodeDomain
<1>2. /\ grown \in Code /\ Len(grown) = Len(code) + n
      /\ \A b \in 1..Len(code) : grown[b] = code[b]
      /\ \A b \in (Len(code) + 1)..(Len(code) + n) : grown[b] = newBlock
  BY GrowIs
<1> HIDE DEF grown
<1>3. DOMAIN grown = 1..(Len(code) + n) /\ cur \in DOMAIN grown
  BY <1>1, <1>2, CodeDomain
<1>4. /\ sealed \in Code /\ Len(sealed) = Len(grown)
      /\ \A c \in DOMAIN grown \ {cur} : sealed[c] = grown[c]
      /\ sealed[cur].insts = grown[cur].insts
      /\ sealed[cur].term = term /\ sealed[cur].nest = grown[cur].nest
  BY <1>2, <1>3, SealIs
<1> HIDE DEF sealed
<1>5. \A b \in DOMAIN code \ {cur} : sealed[b] = code[b]
  BY <1>1, <1>2, <1>3, <1>4
<1>6. \A b \in (Len(code) + 1)..(Len(code) + n) : b \in DOMAIN grown \ {cur}
  BY <1>1, <1>3
<1>7. \A b \in (Len(code) + 1)..(Len(code) + n) : sealed[b] = newBlock
  BY <1>2, <1>4, <1>6
<1>8. grown[cur] = code[cur]
  BY <1>1, <1>2
<1> QED
  BY <1>2, <1>4, <1>5, <1>7, <1>8 DEF sealed, grown, Extended, IsExtended

LEMMA BranchLowers ==
    ASSUME NEW want, NEW live, NEW base, Lowered(want, live, base), scopes # <<>>,
           NEW failing \in BlockRecords, failing.term \in {Ret, Panic}, failing.nest = InScopes(scopes),
           blocks[current].term = None /\ current \in live =>
             \E u \in States : Leads(failing.insts, Due(scopes, pending), u),
           BranchTo(failing)
    PROVE  Lowers'
<1> DEFINE N == Len(blocks)
           s == Due(scopes, pending)
           term == Branch("opaque", N + 1, N + 2)
           code1 == Extended(blocks, current, 2, term)
           code2 == Filled(code1, N + 2, failing)
           code3 == Nested(code2, N + 1, InScopes(scopes))
<1>0. /\ blocks[current].term = None /\ blocks' = code3 /\ current' = N + 1
      /\ UNCHANGED <<loops, cleanups, pending, scopes>>
  BY DEF BranchTo, Open, SetCurrent, Filled, Nested, Extended
<1>1. /\ Built(blocks, current, want, live, base, scopes, loops, cleanups, pending)
      /\ Reaches(blocks, current, want, live, scopes, cleanups, pending)
      /\ blocks \in Code /\ current \in DOMAIN blocks /\ blocks[current].insts \in Seq(Insts)
      /\ DOMAIN blocks = 1..N /\ N \in Nat /\ cleanups \in Seq(Seq(Places))
      /\ s \in States /\ ScopesOf(s) = InScopes(scopes) /\ InScopes(scopes) \in Seq(Places)
  BY LoweredFacts DEF Lowered
<1> HIDE DEF N, s
<1>2. N + 1 \in Nat /\ N + 2 \in Nat /\ N + 1 # N + 2
  BY <1>1
<1>3. term \in Terms /\ term # None /\ Targets(term) = {N + 1, N + 2}
  BY <1>2, TermTargets DEF Conds
<1> HIDE DEF term
<1>4. /\ code1 \in Code /\ Len(code1) = N + 2
      /\ \A b \in DOMAIN blocks \ {current} : code1[b] = blocks[b]
      /\ code1[current].insts = blocks[current].insts
      /\ code1[current].nest = blocks[current].nest /\ code1[current].term = term
      /\ \A b \in (N + 1)..(N + 2) : code1[b] = newBlock
  <2>1. blocks \in Code /\ current \in DOMAIN blocks /\ 2 \in Nat /\ term \in Terms
    BY <1>1, <1>3
  <2>2. IsExtended(code1, blocks, current, 2, term)
    BY <2>1, ExtendedIs
  <2> HIDE DEF code1
  <2> QED
    BY <2>2 DEF N, IsExtended
<1> HIDE DEF code1
<1>5. DOMAIN code1 = 1..(N + 2) /\ N + 2 \in DOMAIN code1
  BY <1>1, <1>4, CodeDomain
<1>6. /\ code2 \in Code /\ Len(code2) = N + 2 /\ code2[N + 2] = failing
      /\ \A c \in DOMAIN code1 \ {N + 2} : code2[c] = code1[c]
  <2>1. code1 \in Code /\ Len(code1) = N + 2 /\ N + 2 \in DOMAIN code1 /\ failing \in BlockRecords
    BY <1>4, <1>5
  <2>2. code2 = Filled(code1, N + 2, failing)
    OBVIOUS
  <2> HIDE DEF code2
  <2> QED
    BY <2>1, <2>2, FillIs
<1> HIDE DEF code2
<1>7. DOMAIN code2 = 1..(N + 2) /\ N + 1 \in DOMAIN code2
  BY <1>1, <1>6, CodeDomain
<1>8. /\ code3 \in Code /\ Len(code3) = N + 2
      /\ \A c \in DOMAIN code2 \ {N + 1} : code3[c] = code2[c]
      /\ code3[N + 1].insts = code2[N + 1].insts /\ code3[N + 1].term = code2[N + 1].term
      /\ code3[N + 1].nest = InScopes(scopes)
  BY <1>1, <1>6, <1>7, NestIs
<1> HIDE DEF code3
<1>9. DOMAIN code3 = 1..(N + 2) /\ DOMAIN code3 \ DOMAIN blocks = {N + 1, N + 2}
  <2>1. DOMAIN code3 = 1..(N + 2)
    BY <1>8, CodeDomain
  <2>2. \A b \in 1..(N + 2) : b \notin 1..N <=> b \in {N + 1, N + 2}
    BY <1>1
  <2>3. \A b \in {N + 1, N + 2} : b \in 1..(N + 2)
    BY <1>1
  <2> QED
    BY <1>1, <2>1, <2>2, <2>3
<1>10. current \in 1..N /\ current # N + 1 /\ current # N + 2
  BY <1>1
<1>11. /\ \A b \in DOMAIN blocks \ {current} : code3[b] = blocks[b]
       /\ code3[current].insts = blocks[current].insts /\ code3[current].nest = blocks[current].nest
       /\ code3[current].term = term
  <2>1. \A b \in 1..N : b \in DOMAIN code1 \ {N + 2} /\ b \in DOMAIN code2 \ {N + 1}
    BY <1>1, <1>5, <1>7
  <2> QED
    BY <1>1, <1>4, <1>6, <1>8, <1>10, <2>1
<1>12. code3[N + 1].insts = <<>> /\ code3[N + 1].term = None /\ code3[N + 2] = failing
  <2>1. N + 1 \in DOMAIN code1 \ {N + 2} /\ N + 1 \in (N + 1)..(N + 2) /\ N + 2 \in DOMAIN code2 \ {N + 1}
    BY <1>1, <1>2, <1>5, <1>7
  <2>2. code2[N + 1] = newBlock
    BY <1>4, <1>6, <2>1
  <2> QED
    BY <1>6, <1>8, <2>1, <2>2, NewBlock
<1>13. Left(blocks, code3, current)
  <2>1. Len(blocks[current].insts) <= Len(code3[current].insts)
    <3>1. Len(blocks[current].insts) \in Nat
      BY <1>1
    <3> QED
      BY <1>11, <3>1
  <2>2. Len(blocks) <= Len(code3)
    BY <1>1, <1>8 DEF N
  <2> QED
    BY <1>3, <1>9, <1>11, <2>1, <2>2 DEF Left
<1>14. Forked(blocks, code3, current, N + 1, live, s)
  <2>1. Targets(None) = {} /\ Targets(Ret) = {} /\ Targets(Panic) = {} /\ Ret # None /\ Panic # None
    BY TermTargets
  <2>2. Leads(<<>>, s, s)
    BY <1>1, LeadsNowhere
  <2>3. current \in live => \E u \in States : Leads(failing.insts, s, u)
    BY <1>0 DEF s
  <2>4. Targets(code3[N + 1].term) = {} /\ Targets(code3[N + 2].term) = {}
    BY <1>12, <2>1
  <2> QED
    BY <1>1, <1>8, <1>9, <1>12, <2>1, <2>2, <2>3, <2>4 DEF Forked
<1>15. SameBelow(cleanups, cleanups)
  BY <1>1 DEF SameBelow
<1>16. GoesOn(blocks, code3, current, N + 1, scopes, cleanups, cleanups, pending, s)
  BY <1>9, <1>12 DEF GoesOn, s
<1>17. current \in live => Leads(code3[current].insts, want[current], s)
  BY <1>0, <1>1, <1>11 DEF Reaches, s
<1>18. \E want2, live2 : Built(code3, N + 1, want2, live2, base, scopes, loops, cleanups, pending)
  BY <1>0, <1>1, <1>8, <1>13, <1>14, <1>15, <1>16, <1>17, Forks, Zenon
<1> QED
  BY <1>0, <1>18 DEF Lowers, Lowered

LEMMA EndsIs ==
    ASSUME NEW insts \in Seq(Insts), NEW term \in Terms, InScopes(scopes) \in Seq(Places)
    PROVE  /\ Ends(insts, term) \in BlockRecords /\ Ends(insts, term).insts = insts
           /\ Ends(insts, term).term = term /\ Ends(insts, term).nest = InScopes(scopes)
  BY DEF Ends, BlockRecords

LEMMA PropLowers ==
    ASSUME NEW want, NEW live, NEW base, Lowered(want, live, base), scopes # <<>>, lowerOptionalProp
    PROVE  Lowers'
<1> DEFINE insts == <<Mark("abandon", Len(scopes))>>
           failing == Ends(insts, Ret)
<1>1. Due(scopes, pending) \in States /\ InScopes(scopes) \in Seq(Places) /\ Len(scopes) \in Nat
  BY LoweredFacts
<1>2. insts \in Seq(Insts) /\ Leads(insts, Due(scopes, pending), Due(scopes, pending))
  <2>1. "abandon" \in Neutral
    BY DEF Neutral, Ops
  <2> QED
    BY <1>1, <2>1, LeadsNeutral, Zenon
<1>3. BranchTo(failing)
  BY DEF lowerOptionalProp
<1> HIDE DEF insts
<1>4. failing \in BlockRecords /\ failing.insts = insts /\ failing.term = Ret
      /\ failing.nest = InScopes(scopes)
  BY <1>1, <1>2, EndsIs, TermTargets
<1> HIDE DEF failing
<1>5. \E u \in States : Leads(failing.insts, Due(scopes, pending), u)
  BY <1>1, <1>2, <1>4
<1> QED
  BY <1>3, <1>4, <1>5, BranchLowers

LEMMA MustLowers ==
    ASSUME NEW want, NEW live, NEW base, Lowered(want, live, base), scopes # <<>>, lowerOptionalPayload
    PROVE  Lowers'
<1> DEFINE failing == Ends(<<>>, Panic)
<1>1. Due(scopes, pending) \in States /\ InScopes(scopes) \in Seq(Places)
  BY LoweredFacts
<1>2. <<>> \in Seq(Insts) /\ Leads(<<>>, Due(scopes, pending), Due(scopes, pending))
  BY <1>1, LeadsNowhere
<1>3. BranchTo(failing)
  BY DEF lowerOptionalPayload
<1>4. failing \in BlockRecords /\ failing.insts = <<>> /\ failing.term = Panic
      /\ failing.nest = InScopes(scopes)
  BY <1>1, <1>2, EndsIs, TermTargets
<1> HIDE DEF failing
<1>5. \E u \in States : Leads(failing.insts, Due(scopes, pending), u)
  BY <1>1, <1>2, <1>4
<1> QED
  BY <1>3, <1>4, <1>5, BranchLowers

LEMMA AssertLowers ==
    ASSUME NEW want, NEW live, NEW base, Lowered(want, live, base), scopes # <<>>, lowerTestAssert
    PROVE  Lowers'
<1> DEFINE s == Due(scopes, pending)
           cleanup == Runs("unwind", Reverse(FlattenSeq(cleanups)))
           out == <<Mark("abandon", Len(scopes))>>
           insts == cleanup \o out
           failing == Ends(insts, Ret)
<1>1. /\ s \in States /\ InScopes(scopes) \in Seq(Places) /\ Len(scopes) \in Nat
      /\ cleanups \in Seq(Seq(Places)) /\ cleanups # <<>>
      /\ Reaches(blocks, current, want, live, scopes, cleanups, pending)
  BY LoweredFacts
<1>2. out \in Seq(Insts) /\ Leads(out, s, s)
  <2>1. "abandon" \in Neutral
    BY DEF Neutral, Ops
  <2> QED
    BY <1>1, <2>1, LeadsNeutral, Zenon
<1>3. cleanup \in Seq(Insts)
  <2>1. FlattenSeq(cleanups) \in Seq(Places)
    BY <1>1, FlattenType
  <2>2. Reverse(FlattenSeq(cleanups)) \in Seq(Places) /\ "unwind" \in Ops
    BY <2>1, ReverseType DEF Ops
  <2> QED
    BY <2>2, RunsIs, Zenon
<1>4. BranchTo(failing)
  BY DEF lowerTestAssert
<1>5. ASSUME blocks[current].term = None, current \in live
      PROVE  Leads(insts, s, s)
  <2>1. \A k \in DOMAIN cleanups : cleanups[k] = <<>>
    BY <1>1, <1>5 DEF Reaches
  <2>2. FlattenSeq(cleanups) = <<>>
    <3>1. Len(cleanups) # 0 /\ Len(cleanups) \in DOMAIN cleanups
          /\ \A k \in 1..(Len(cleanups) - 1) : k \in DOMAIN cleanups
      BY <1>1
    <3>2. FlattenSeq(cleanups) = cleanups[Len(cleanups)]
      BY <1>1, <2>1, <3>1, FlattenLast
    <3> QED
      BY <2>1, <3>1, <3>2
  <2>3. Reverse(<<>>) = <<>> /\ Runs("unwind", <<>>) = <<>>
    BY DEF Reverse, Runs
  <2>4. cleanup = <<>>
    BY <2>2, <2>3
  <2> HIDE DEF cleanup, out
  <2>5. insts = out
    BY <1>2, <2>4
  <2> QED
    BY <1>2, <2>5
<1> HIDE DEF cleanup, out
<1>6. insts \in Seq(Insts)
  BY <1>2, <1>3
<1> HIDE DEF insts
<1>7. failing \in BlockRecords /\ failing.insts = insts /\ failing.term = Ret
      /\ failing.nest = InScopes(scopes)
  BY <1>1, <1>6, EndsIs, TermTargets
<1> HIDE DEF failing
<1>8. blocks[current].term = None /\ current \in live => \E u \in States : Leads(failing.insts, s, u)
  BY <1>1, <1>5, <1>7
<1> QED
  BY <1>4, <1>7, <1>8, BranchLowers

LEMMA IndexLowers ==
    ASSUME NEW want, NEW live, NEW base, Lowered(want, live, base), scopes # <<>>, lowerIndex
    PROVE  Lowers'
<1> DEFINE N == Len(blocks)
           s == Due(scopes, pending)
           term == Branch("opaque", N + 1, N + 1 + 1)
           stored == Ends(<<>>, Jump(N + 1 + 2))
           code1 == Extended(blocks, current, 3, term)
           code2 == Filled(code1, N + 1, stored)
           code3 == Filled(code2, N + 1 + 1, stored)
           code4 == Nested(code3, N + 1 + 2, InScopes(scopes))
<1>0. /\ blocks[current].term = None /\ blocks' = code4 /\ current' = N + 1 + 2
      /\ UNCHANGED <<loops, cleanups, pending, scopes>>
  BY DEF lowerIndex, Open, SetCurrent, Filled, Nested, Extended
<1>1. /\ Built(blocks, current, want, live, base, scopes, loops, cleanups, pending)
      /\ Reaches(blocks, current, want, live, scopes, cleanups, pending)
      /\ blocks \in Code /\ current \in DOMAIN blocks /\ blocks[current].insts \in Seq(Insts)
      /\ DOMAIN blocks = 1..N /\ N \in Nat /\ cleanups \in Seq(Seq(Places))
      /\ s \in States /\ ScopesOf(s) = InScopes(scopes) /\ InScopes(scopes) \in Seq(Places)
  BY LoweredFacts DEF Lowered
<1> HIDE DEF s
<1>2. blocks \in Code /\ current \in DOMAIN blocks /\ 3 \in Nat /\ term \in Terms
      /\ term # None /\ Targets(term) = {N + 1, N + 1 + 1}
  <2>1. N + 1 \in Nat /\ N + 1 + 1 \in Nat /\ "opaque" \in Conds
    BY <1>1 DEF Conds
  <2> HIDE DEF N
  <2> QED
    BY <1>1, <2>1, TermTargets
<1>3. IsExtended(code1, blocks, current, 3, term)
  BY <1>2, ExtendedIs
<1>4. stored \in BlockRecords /\ stored.insts = <<>> /\ stored.nest = InScopes(scopes)
      /\ stored.term # None /\ Targets(stored.term) = {N + 3}
  <2>1. <<>> \in Seq(Insts) /\ N + 1 + 2 \in Nat /\ N + 1 + 2 = N + 3
    BY <1>1
  <2> HIDE DEF N
  <2>2. /\ Jump(N + 1 + 2) \in Terms /\ Jump(N + 1 + 2) # None
        /\ Targets(Jump(N + 1 + 2)) = {N + 3}
    BY <2>1, TermTargets
  <2> QED
    BY <1>1, <2>1, <2>2, EndsIs
<1> HIDE DEF code1, term, stored
<1>5. /\ code1 \in Code /\ Len(code1) = N + 3 /\ DOMAIN code1 = 1..(N + 3)
      /\ \A b \in DOMAIN blocks \ {current} : code1[b] = blocks[b]
      /\ code1[current].insts = blocks[current].insts
      /\ code1[current].nest = blocks[current].nest /\ code1[current].term = term
      /\ code1[N + 3] = newBlock
  <2>1. /\ code1 \in Code /\ Len(code1) = N + 3
        /\ \A b \in (N + 1)..(N + 3) : code1[b] = newBlock
    BY <1>3 DEF IsExtended
  <2>2. DOMAIN code1 = 1..(N + 3)
    BY <2>1, CodeDomain
  <2>3. N + 3 \in (N + 1)..(N + 3)
    BY <1>1
  <2> QED
    BY <1>3, <2>1, <2>2, <2>3 DEF IsExtended
<1> HIDE DEF N
<1>6. /\ code2 \in Code /\ Len(code2) = N + 3 /\ DOMAIN code2 = 1..(N + 3) /\ code2[N + 1] = stored
      /\ \A c \in DOMAIN code1 \ {N + 1} : code2[c] = code1[c]
  <2>1. N + 1 \in DOMAIN code1
    BY <1>1, <1>5
  <2>2. /\ code2 \in Code /\ Len(code2) = N + 3 /\ code2[N + 1] = stored
        /\ \A c \in DOMAIN code1 \ {N + 1} : code2[c] = code1[c]
    BY <1>4, <1>5, <2>1, FillIs
  <2> HIDE DEF code2
  <2> QED
    BY <2>2, CodeDomain
<1> HIDE DEF code2
<1>7. /\ code3 \in Code /\ Len(code3) = N + 3 /\ DOMAIN code3 = 1..(N + 3) /\ code3[N + 1 + 1] = stored
      /\ \A c \in DOMAIN code2 \ {N + 1 + 1} : code3[c] = code2[c]
  <2>1. N + 1 + 1 \in DOMAIN code2
    BY <1>1, <1>6
  <2>2. /\ code3 \in Code /\ Len(code3) = N + 3 /\ code3[N + 1 + 1] = stored
        /\ \A c \in DOMAIN code2 \ {N + 1 + 1} : code3[c] = code2[c]
    <3>1. code2 \in Code /\ Len(code2) = N + 3 /\ stored \in BlockRecords
      BY <1>4, <1>6
    <3>2. code3 = Filled(code2, N + 1 + 1, stored)
      OBVIOUS
    <3> HIDE DEF code3
    <3> QED
      BY <2>1, <3>1, <3>2, FillIs
  <2> HIDE DEF code3
  <2> QED
    BY <2>2, CodeDomain
<1> HIDE DEF code3
<1>8. /\ code4 \in Code /\ Len(code4) = N + 3 /\ DOMAIN code4 = 1..(N + 3)
      /\ \A c \in DOMAIN code3 \ {N + 3} : code4[c] = code3[c]
      /\ code4[N + 3].insts = code3[N + 3].insts /\ code4[N + 3].term = code3[N + 3].term
      /\ code4[N + 3].nest = InScopes(scopes)
  <2>1. N + 1 + 2 = N + 3 /\ N + 3 \in DOMAIN code3
    BY <1>1, <1>7
  <2>2. /\ code4 \in Code /\ Len(code4) = N + 3
        /\ \A c \in DOMAIN code3 \ {N + 3} : code4[c] = code3[c]
        /\ code4[N + 3].insts = code3[N + 3].insts /\ code4[N + 3].term = code3[N + 3].term
        /\ code4[N + 3].nest = InScopes(scopes)
    <3>1. N + 1 + 2 \in DOMAIN code3
      BY <2>1
    <3>2. /\ code4 \in Code /\ Len(code4) = Len(code3)
          /\ \A c \in DOMAIN code3 \ {N + 1 + 2} : code4[c] = code3[c]
          /\ code4[N + 1 + 2].insts = code3[N + 1 + 2].insts
          /\ code4[N + 1 + 2].term = code3[N + 1 + 2].term
          /\ code4[N + 1 + 2].nest = InScopes(scopes)
      BY <1>1, <1>7, <3>1, NestIs
    <3> HIDE DEF code4
    <3> QED
      BY <1>7, <2>1, <3>2
  <2> HIDE DEF code4
  <2> QED
    BY <2>2, CodeDomain
<1> HIDE DEF code4
<1>9. /\ \A b \in DOMAIN blocks \ {current} : code4[b] = blocks[b]
      /\ code4[current].insts = blocks[current].insts /\ code4[current].nest = blocks[current].nest
      /\ code4[current].term = term
  <2>1. \A b \in 1..N : b \in DOMAIN code1 \ {N + 1} /\ b \in DOMAIN code2 \ {N + 1 + 1}
                        /\ b \in DOMAIN code3 \ {N + 3}
    BY <1>1, <1>5, <1>6, <1>7
  <2>2. \A b \in 1..N : code4[b] = code1[b]
    BY <1>6, <1>7, <1>8, <2>1
  <2> QED
    BY <1>1, <1>5, <2>2
<1>10. /\ code4[N + 1] = stored /\ code4[N + 2] = stored
       /\ code4[N + 3].insts = <<>> /\ code4[N + 3].term = None
  <2>1. /\ N + 1 \in DOMAIN code2 \ {N + 1 + 1} /\ N + 1 \in DOMAIN code3 \ {N + 3}
        /\ N + 1 + 1 = N + 2 /\ N + 2 \in DOMAIN code3 \ {N + 3}
        /\ N + 3 \in DOMAIN code1 \ {N + 1} /\ N + 3 \in DOMAIN code2 \ {N + 1 + 1}
    BY <1>1, <1>5, <1>6, <1>7
  <2> QED
    BY <1>5, <1>6, <1>7, <1>8, <2>1, NewBlock
<1>11. DOMAIN code4 \ DOMAIN blocks = {N + 1, N + 2, N + 3}
  <2>1. \A b \in 1..(N + 3) : b \notin 1..N => b \in {N + 1, N + 2, N + 3}
    BY <1>1
  <2>2. \A b \in {N + 1, N + 2, N + 3} : b \in 1..(N + 3) /\ b \notin 1..N
    BY <1>1
  <2> QED
    BY <1>1, <1>8, <2>1, <2>2
<1>12. Left(blocks, code4, current)
  <2>1. Len(blocks[current].insts) <= Len(code4[current].insts)
    <3>1. Len(blocks[current].insts) \in Nat
      BY <1>1
    <3> QED
      BY <1>9, <3>1
  <2>2. Len(blocks) <= Len(code4)
    BY <1>1, <1>8 DEF N
  <2>3. Targets(term) \subseteq DOMAIN code4 \ DOMAIN blocks
    BY <1>1, <1>2, <1>11
  <2> QED
    BY <1>2, <1>9, <2>1, <2>2, <2>3 DEF Left
<1>13. Forked(blocks, code4, current, N + 3, live, s)
  <2>1. Targets(None) = {}
    BY TermTargets
  <2>2. Leads(<<>>, s, s)
    BY <1>1, LeadsNowhere
  <2>3. ASSUME NEW b \in {N + 1, N + 2, N + 3}
        PROVE  /\ code4[b].insts = <<>> /\ Targets(code4[b].term) \subseteq DOMAIN code4 \ DOMAIN blocks
               /\ code4[b].nest = ScopesOf(s) /\ (b # N + 3 => code4[b].term # None)
    BY <1>1, <1>4, <1>8, <1>10, <1>11, <2>1
  <2> QED
    BY <1>1, <1>11, <2>2, <2>3 DEF Forked
<1>14. SameBelow(cleanups, cleanups)
  BY <1>1 DEF SameBelow
<1>15. GoesOn(blocks, code4, current, N + 3, scopes, cleanups, cleanups, pending, s)
  BY <1>10, <1>11 DEF GoesOn, s
<1>16. current \in live => Leads(code4[current].insts, want[current], s)
  BY <1>0, <1>1, <1>9 DEF Reaches, s
<1>17. \E want2, live2 : Built(code4, N + 3, want2, live2, base, scopes, loops, cleanups, pending)
  BY <1>0, <1>1, <1>8, <1>12, <1>13, <1>14, <1>15, <1>16, Forks, Zenon
<1>18. current' = N + 3
  BY <1>0, <1>1
<1> QED
  BY <1>0, <1>17, <1>18 DEF Lowers, Lowered

LEMMA ReturnPropLowers ==
    ASSUME NEW want, NEW live, NEW base, Lowered(want, live, base), scopes # <<>>, ReturnProp
    PROVE  Lowers'
<1> DEFINE N == Len(blocks)
           n == Len(scopes)
           frames2 == Flushed(cleanups, pending)
           unwinding == Unwinding(frames2, 1)
           c == Cleared(Due(scopes, pending))
           leaving == <<Mark("leave", n)>>
           out == Ends(leaving, Ret)
           term == Branch("opaque", N + 1, N + 1 + 1)
           code1 == Emit(blocks, current, unwinding)
           code2 == Extended(code1, current, 2, term)
           code3 == Filled(code2, N + 1, out)
           code4 == Filled(code3, N + 1 + 1, out)
<1>0. /\ blocks[current].term = None /\ cleanups' = frames2 /\ blocks' = code4 /\ current' = N + 1
      /\ UNCHANGED <<loops, pending, scopes>>
  <2>1. blocks[current].term = None /\ cleanups' = frames2 /\ UNCHANGED <<loops, pending, scopes>>
        /\ current' = N + 1
    BY DEF ReturnProp, Open, flushPendingDefers, Flushed
  <2>2. emitCleanupFrom(blocks, cleanups', 1) = code1
    BY <2>1 DEF emitCleanupFrom, Unwinding
  <2> QED
    BY <2>1, <2>2 DEF ReturnProp, Extended, Filled
<1>1. /\ Built(blocks, current, want, live, base, scopes, loops, cleanups, pending)
      /\ blocks \in Code /\ current \in DOMAIN blocks /\ blocks[current].insts \in Seq(Insts)
      /\ DOMAIN blocks = 1..N /\ N \in Nat /\ InScopes(scopes) \in Seq(Places)
      /\ scopes \in Seq(ScopeRecords) /\ n \in Nat /\ n >= 1
      /\ cleanups \in Seq(Seq(Places)) /\ cleanups # <<>>
      /\ pending \in Seq(Seq(Places)) /\ Len(pending) = n
  BY LoweredFacts DEF Lowered
<1>2. 1 \in 1..Len(cleanups) /\ n \in 1..Len(scopes)
  BY <1>1
<1>3. /\ frames2 \in Seq(Seq(Places)) /\ Len(frames2) = Len(cleanups)
      /\ \A k \in 1..(Len(cleanups) - 1) : frames2[k] = cleanups[k]
      /\ unwinding \in Seq(Insts)
      /\ current \in live => Leads(blocks[current].insts \o unwinding, want[current], c)
  BY <1>0, <1>1, <1>2, ExitIs
<1>4. leaving \in Seq(Insts) /\ c \in States /\ ScopesOf(c) = InScopes(scopes)
      /\ \E u \in States : Leads(leaving, c, u)
  BY <1>1, <1>2, LeadsAway
<1>5. out \in BlockRecords /\ out.insts = leaving /\ out.term = Ret /\ out.nest = InScopes(scopes)
  <2> HIDE DEF leaving
  <2> QED
    BY <1>1, <1>4, EndsIs, TermTargets
<1>6. term \in Terms /\ term # None /\ Targets(term) = {N + 1, N + 2}
  <2>1. N + 1 \in Nat /\ N + 1 + 1 \in Nat /\ N + 1 + 1 = N + 2 /\ "opaque" \in Conds
    BY <1>1 DEF Conds
  <2> HIDE DEF N
  <2> QED
    BY <2>1, TermTargets
<1> HIDE DEF unwinding, c, frames2, n, leaving, out, term
<1>7. /\ code1 \in Code /\ Len(code1) = N
      /\ \A b \in DOMAIN blocks \ {current} : code1[b] = blocks[b]
      /\ code1[current].insts = blocks[current].insts \o unwinding
      /\ code1[current].nest = blocks[current].nest
  BY <1>1, <1>3, EmitIs
<1> HIDE DEF code1
<1>8. code1 \in Code /\ current \in DOMAIN code1 /\ 2 \in Nat /\ term \in Terms /\ DOMAIN code1 = 1..N
  BY <1>1, <1>6, <1>7, CodeDomain
<1>9. IsExtended(code2, code1, current, 2, term)
  BY <1>8, ExtendedIs
<1> HIDE DEF code2
<1>10. /\ code2 \in Code /\ Len(code2) = N + 2 /\ DOMAIN code2 = 1..(N + 2)
       /\ \A b \in 1..N : b # current => code2[b] = code1[b]
       /\ code2[current].insts = code1[current].insts
       /\ code2[current].nest = code1[current].nest /\ code2[current].term = term
  <2>1. code2 \in Code /\ Len(code2) = N + 2
    BY <1>7, <1>9 DEF IsExtended
  <2>2. DOMAIN code2 = 1..(N + 2)
    BY <2>1, CodeDomain
  <2> QED
    BY <1>8, <1>9, <2>1, <2>2 DEF IsExtended
<1> HIDE DEF N
<1>11. /\ code3 \in Code /\ Len(code3) = N + 2 /\ DOMAIN code3 = 1..(N + 2) /\ code3[N + 1] = out
       /\ \A b \in DOMAIN code2 \ {N + 1} : code3[b] = code2[b]
  <2>1. N + 1 \in DOMAIN code2
    BY <1>1, <1>10
  <2>2. /\ code3 \in Code /\ Len(code3) = N + 2 /\ code3[N + 1] = out
        /\ \A b \in DOMAIN code2 \ {N + 1} : code3[b] = code2[b]
    BY <1>5, <1>10, <2>1, FillIs
  <2> HIDE DEF code3
  <2> QED
    BY <2>2, CodeDomain
<1> HIDE DEF code3
<1>12. /\ code4 \in Code /\ Len(code4) = N + 2 /\ DOMAIN code4 = 1..(N + 2) /\ code4[N + 1 + 1] = out
       /\ \A b \in DOMAIN code3 \ {N + 1 + 1} : code4[b] = code3[b]
  <2>1. N + 1 + 1 \in DOMAIN code3
    BY <1>1, <1>11
  <2>2. /\ code4 \in Code /\ Len(code4) = N + 2 /\ code4[N + 1 + 1] = out
        /\ \A b \in DOMAIN code3 \ {N + 1 + 1} : code4[b] = code3[b]
    BY <1>5, <1>11, <2>1, FillIs
  <2> HIDE DEF code4
  <2> QED
    BY <2>2, CodeDomain
<1> HIDE DEF code4
<1>13. /\ \A b \in DOMAIN blocks \ {current} : code4[b] = blocks[b]
       /\ code4[current].insts = blocks[current].insts \o unwinding
       /\ code4[current].nest = blocks[current].nest /\ code4[current].term = term
       /\ code4[N + 1] = out /\ code4[N + 2] = out
  <2>1. \A b \in 1..(N + 1) : b \in DOMAIN code3 \ {N + 1 + 1}
    BY <1>1, <1>11
  <2>2. \A b \in 1..N : b \in 1..(N + 1) /\ b \in DOMAIN code2 \ {N + 1}
    BY <1>1, <1>10
  <2>3. \A b \in 1..N : code4[b] = code2[b]
    BY <1>11, <1>12, <2>1, <2>2
  <2>4. N + 1 \in 1..(N + 1) /\ N + 1 + 1 = N + 2
    BY <1>1
  <2> QED
    BY <1>1, <1>7, <1>10, <1>11, <1>12, <2>1, <2>3, <2>4
<1>14. DOMAIN code4 \ DOMAIN blocks = {N + 1, N + 2}
  <2>1. \A b \in 1..(N + 2) : b \notin 1..N => b \in {N + 1, N + 2}
    BY <1>1
  <2>2. \A b \in {N + 1, N + 2} : b \in 1..(N + 2) /\ b \notin 1..N
    BY <1>1
  <2> QED
    BY <1>1, <1>12, <2>1, <2>2
<1>15. Left(blocks, code4, current)
  <2>1. /\ Len(blocks[current].insts) \in Nat /\ Len(unwinding) \in Nat
        /\ Len(blocks[current].insts \o unwinding) = Len(blocks[current].insts) + Len(unwinding)
    BY <1>1, <1>3, ConcatProperties, LenProperties
  <2>2. Len(blocks[current].insts) <= Len(code4[current].insts)
    BY <1>13, <2>1
  <2>3. Len(blocks) <= Len(code4)
    BY <1>1, <1>12 DEF N
  <2> QED
    BY <1>6, <1>13, <1>14, <2>2, <2>3 DEF Left
<1>16. Forked(blocks, code4, current, N + 1, live, c)
  <2>1. Targets(Ret) = {} /\ Ret # None
    BY TermTargets
  <2>2. \A b \in {N + 1, N + 2} : code4[b] = out
    BY <1>13
  <2> QED
    BY <1>4, <1>5, <1>14, <2>1, <2>2 DEF Forked
<1>17. SameBelow(cleanups, frames2)
  BY <1>3 DEF SameBelow
<1>18. GoesOn(blocks, code4, current, N + 1, scopes, cleanups, frames2, pending, c)
  <2>1. Ret # None
    BY TermTargets
  <2> QED
    BY <1>5, <1>13, <1>14, <2>1 DEF GoesOn
<1>19. current \in live => Leads(code4[current].insts, want[current], c)
  BY <1>3, <1>13
<1>20. \E want2, live2 : Built(code4, N + 1, want2, live2, base, scopes, loops, frames2, pending)
  BY <1>0, <1>1, <1>4, <1>12, <1>15, <1>16, <1>17, <1>18, <1>19, Forks, Zenon
<1> QED
  BY <1>0, <1>20 DEF Lowers, Lowered

LEMMA LeaveLowers ==
    ASSUME NEW want, NEW live, NEW base, Lowered(want, live, base), scopes # <<>>,
           NEW k \in Nat, NEW target \in {"break_block", "continue_block"}, LeaveLoop(k, target)
    PROVE  Lowers'
<1> DEFINE N == Len(blocks)
           n == Len(scopes)
           loop == loops[Len(loops) - k]
           x == loop[target]
           first == loop.cleanup_depth
           frames2 == Flushed(cleanups, pending)
           unwinding == Unwinding(frames2, first)
           c == Cleared(Due(scopes, pending))
           leaving == <<Mark("leave", n - loop.outside)>>
           code1 == Emit(blocks, current, unwinding)
           code2 == Emit(code1, current, leaving)
           code3 == Seal(code2, current, Jump(x))
           code4 == Grow(code3, 1)
           code5 == Nested(code4, N + 1, InScopes(scopes))
<1>0. /\ blocks[current].term = None /\ k < Len(loops) /\ cleanups' = frames2 /\ blocks' = code5
      /\ current' = N + 1 /\ UNCHANGED <<loops, pending, scopes>>
  <2>1. /\ blocks[current].term = None /\ k < Len(loops) /\ cleanups' = frames2
        /\ UNCHANGED <<loops, pending, scopes>> /\ current' = N + 1
    BY DEF LeaveLoop, Open, flushPendingDefers, Flushed, SetCurrent
  <2>2. emitCleanupFrom(blocks, cleanups', first) = code1
    BY <2>1 DEF emitCleanupFrom, Unwinding
  <2> QED
    BY <2>1, <2>2 DEF LeaveLoop, SetCurrent, Nested
<1>1. /\ Built(blocks, current, want, live, base, scopes, loops, cleanups, pending)
      /\ Around(blocks, want, live, base, scopes, loops, cleanups, pending, {current})
      /\ Reaches(blocks, current, want, live, scopes, cleanups, pending)
      /\ current \in live => blocks[current].nest = ScopesOf(want[current])
      /\ blocks \in Code /\ current \in DOMAIN blocks /\ blocks[current].insts \in Seq(Insts)
      /\ DOMAIN blocks = 1..N /\ N \in Nat /\ InScopes(scopes) \in Seq(Places)
      /\ want \in [DOMAIN blocks -> States] /\ live \in SUBSET DOMAIN blocks
      /\ scopes \in Seq(ScopeRecords) /\ n \in Nat /\ n >= 1
      /\ cleanups \in Seq(Seq(Places)) /\ cleanups # <<>> /\ loops \in Seq(LoopRecords)
      /\ pending \in Seq(Seq(Places)) /\ Len(pending) = n
      /\ Awaited(scopes) \subseteq DOMAIN blocks
  BY LoweredFacts DEF Lowered
<1>a. DOMAIN scopes = 1..n /\ n = Len(scopes)
  BY <1>1
<1>2. PICK i \in DOMAIN scopes : LoopAt(loop, i, scopes, base)
  <2>1. Len(loops) - k \in DOMAIN loops
    BY <1>0, <1>1
  <2> HIDE DEF loop
  <2>2. loop = loops[Len(loops) - k]
    BY DEF loop
  <2> QED
    <3>1. LoopsFit(loops, scopes, base)
      BY <1>1 DEF Around
    <3>2. \E i \in DOMAIN scopes : LoopAt(loops[Len(loops) - k], i, scopes, base)
      BY <2>1, <3>1 DEF LoopsFit
    <3> QED
      BY <2>2, <3>2
<1>3. loop \in LoopRecords
  <2>1. Len(loops) - k \in 1..Len(loops)
    <3>1. PICK m \in Nat : m = Len(loops)
      BY <1>1
    <3>2. k \in Nat /\ k < m
      BY <1>0, <3>1
    <3>3. m - k \in 1..m
      BY <3>2
    <3> QED
      BY <3>1, <3>3
  <2> QED
    BY <1>1, <2>1
<1> HIDE DEF loop
<1>4. /\ x \in AwaitedBy(scopes[i]) /\ i = loop.outside + 1 /\ i \in 1..n /\ loop.outside \in Nat
      /\ first = base[i] + 1
  <2>1. /\ scopes[i].part = "loop" /\ loop.break_block = scopes[i].after
        /\ loop.continue_block = scopes[i].other /\ i = loop.outside + 1 /\ first = base[i] + 1
    BY <1>2 DEF LoopAt
  <2>2. Shape(blocks, scopes[i])
    BY <1>1, <1>2 DEF Around, StackFits
  <2>3. scopes[i].after # 0 /\ scopes[i].other # 0
    BY <1>1, <2>1, <2>2 DEF Shape
  <2>4. x = scopes[i].after \/ x = scopes[i].other
    BY <1>3, <2>1 DEF LoopRecords
  <2> QED
    BY <1>1, <1>a, <1>2, <1>3, <2>1, <2>3, <2>4 DEF AwaitedBy, LoopRecords
<1>5. first \in 1..Len(cleanups)
  <2>1. base[i] \in Nat /\ base[i] < Len(cleanups)
    BY <1>1, <1>2 DEF Around, FramesFit
  <2>2. Len(cleanups) \in Nat
    BY <1>1
  <2> HIDE DEF first
  <2> QED
    BY <1>4, <2>1, <2>2
<1> HIDE DEF n
<1>6. n - loop.outside \in 1..Len(scopes) /\ n - (n - loop.outside) = i - 1
  <2>1. PICK o \in Nat : o = loop.outside
    BY <1>4
  <2>2. n \in Nat /\ i \in 1..n /\ i = o + 1
    BY <1>1, <1>4, <2>1
  <2>3. n - o \in 1..n /\ n - (n - o) = i - 1
    BY <2>2
  <2> QED
    BY <1>a, <2>1, <2>3
<1> DEFINE t == Upto(i - 1, scopes, pending)
<1>7. x \in Awaited(scopes) /\ x \in DOMAIN blocks /\ x \in Nat /\ want[x] = t
  <2>1. x \in Awaited(scopes)
    BY <1>2, <1>4 DEF Awaited
  <2>2. want[x] = t
    BY <1>1, <1>2, <1>4 DEF Around, Expected
  <2> QED
    BY <1>1, <2>1, <2>2
<1>8. /\ frames2 \in Seq(Seq(Places)) /\ Len(frames2) = Len(cleanups)
      /\ \A j \in 1..(Len(cleanups) - 1) : frames2[j] = cleanups[j]
      /\ unwinding \in Seq(Insts)
      /\ current \in live => Leads(blocks[current].insts \o unwinding, want[current], c)
  <2> HIDE DEF first
  <2> QED
    BY <1>0, <1>1, <1>5, ExitIs
<1>9. leaving \in Seq(Insts) /\ c \in States /\ t \in States /\ Leads(leaving, c, t)
  <2> DEFINE m == n - loop.outside
  <2>1. m \in 1..Len(scopes) /\ n - m = i - 1
    BY <1>6
  <2> HIDE DEF m
  <2>2. <<Mark("leave", m)>> \in Seq(Insts) /\ c \in States /\ Upto(n - m, scopes, pending) \in States
        /\ Leads(<<Mark("leave", m)>>, c, Upto(n - m, scopes, pending))
    BY <1>1, <1>a, <2>1, LeadsAway
  <2> QED
    BY <2>1, <2>2 DEF m
<1> HIDE DEF unwinding, c, frames2, leaving, x, t, first
<1>10. /\ Jump(x) \in Terms /\ Jump(x) # None /\ Targets(Jump(x)) = {x}
  BY <1>7, TermTargets
<1>11. /\ code1 \in Code /\ Len(code1) = N
       /\ \A b \in DOMAIN blocks \ {current} : code1[b] = blocks[b]
       /\ code1[current].insts = blocks[current].insts \o unwinding
       /\ code1[current].nest = blocks[current].nest
  BY <1>1, <1>8, EmitIs
<1> HIDE DEF code1
<1>12. DOMAIN code1 = 1..N /\ current \in DOMAIN code1
  BY <1>1, <1>11, CodeDomain
<1>13. /\ code2 \in Code /\ Len(code2) = N
       /\ \A b \in DOMAIN code1 \ {current} : code2[b] = code1[b]
       /\ code2[current].insts = code1[current].insts \o leaving
       /\ code2[current].nest = code1[current].nest
  BY <1>9, <1>11, <1>12, EmitIs
<1> HIDE DEF code2
<1>14. DOMAIN code2 = 1..N /\ current \in DOMAIN code2
  BY <1>1, <1>13, CodeDomain
<1>15. /\ code3 \in Code /\ Len(code3) = N
       /\ \A b \in DOMAIN code2 \ {current} : code3[b] = code2[b]
       /\ code3[current].insts = code2[current].insts
       /\ code3[current].term = Jump(x) /\ code3[current].nest = code2[current].nest
  <2>1. code2 \in Code /\ current \in DOMAIN code2 /\ Jump(x) \in Terms /\ Len(code2) = N
    BY <1>10, <1>13, <1>14
  <2>2. code3 = Seal(code2, current, Jump(x))
    OBVIOUS
  <2> HIDE DEF code3
  <2> QED
    BY <2>1, <2>2, SealIs
<1> HIDE DEF code3
<1>16. DOMAIN code3 = 1..N /\ current \in DOMAIN code3
  BY <1>1, <1>15, CodeDomain
<1>17. /\ code4 \in Code /\ Len(code4) = N + 1 /\ code4[N + 1] = newBlock
       /\ \A b \in 1..N : code4[b] = code3[b]
  <2>1. 1 \in Nat /\ N + 1 \in (N + 1)..(N + 1)
    BY <1>1
  <2> HIDE DEF N
  <2> QED
    <3>1. /\ code4 \in Code /\ Len(code4) = Len(code3) + 1
          /\ \A b \in 1..Len(code3) : code4[b] = code3[b]
          /\ \A b \in (Len(code3) + 1)..(Len(code3) + 1) : code4[b] = newBlock
      BY <1>15, <2>1, GrowIs
    <3>2. Len(code3) = N
      BY <1>15
    <3> HIDE DEF code4
    <3> QED
      BY <2>1, <3>1, <3>2
<1> HIDE DEF code4
<1>18. DOMAIN code4 = 1..(N + 1) /\ N + 1 \in DOMAIN code4
  <2>1. N + 1 \in 1..(N + 1)
    BY <1>1
  <2>2. DOMAIN code4 = 1..Len(code4)
    BY <1>17, CodeDomain
  <2> QED
    BY <1>17, <2>1, <2>2
<1>19. /\ code5 \in Code /\ Len(code5) = N + 1
       /\ \A b \in DOMAIN code4 \ {N + 1} : code5[b] = code4[b]
       /\ code5[N + 1].insts = code4[N + 1].insts /\ code5[N + 1].term = code4[N + 1].term
  <2> HIDE DEF N
  <2> QED
    <3>1. code4 \in Code /\ N + 1 \in DOMAIN code4 /\ InScopes(scopes) \in Seq(Places)
          /\ Len(code4) = N + 1
      BY <1>1, <1>17, <1>18
    <3>2. code5 = Nested(code4, N + 1, InScopes(scopes))
      OBVIOUS
    <3> HIDE DEF code5
    <3> QED
      BY <3>1, <3>2, NestIs
<1> HIDE DEF code5
<1>20. DOMAIN code5 = 1..(N + 1) /\ DOMAIN code5 \ DOMAIN blocks = {N + 1}
  <2>1. DOMAIN code5 = 1..(N + 1)
    BY <1>19, CodeDomain
  <2>2. \A b \in 1..(N + 1) : b \notin 1..N <=> b = N + 1
    BY <1>1
  <2>3. N + 1 \in 1..(N + 1)
    BY <1>1
  <2> QED
    BY <1>1, <2>1, <2>2, <2>3
<1>21. /\ \A b \in DOMAIN blocks \ {current} : code5[b] = blocks[b]
       /\ code5[current].insts = (blocks[current].insts \o unwinding) \o leaving
       /\ code5[current].nest = blocks[current].nest /\ code5[current].term = Jump(x)
       /\ code5[N + 1].term = None
  <2>1. \A b \in 1..N : b \in DOMAIN code4 \ {N + 1}
    <3>1. \A b \in 1..N : b \in 1..(N + 1) /\ b # N + 1
      BY <1>1
    <3> QED
      BY <1>18, <3>1
  <2>2. \A b \in 1..N : code5[b] = code3[b]
    BY <1>17, <1>19, <2>1
  <2>3. /\ \A b \in 1..N : b # current => code5[b] = blocks[b]
        /\ current \in 1..N
    BY <1>1, <1>11, <1>12, <1>13, <1>14, <1>15, <2>2
  <2>4. /\ code5[current].insts = (blocks[current].insts \o unwinding) \o leaving
        /\ code5[current].nest = blocks[current].nest /\ code5[current].term = Jump(x)
    BY <1>11, <1>13, <1>15, <2>2, <2>3
  <2>5. code5[N + 1].term = None
    BY <1>17, <1>19, NewBlock
  <2> QED
    BY <1>1, <2>3, <2>4, <2>5
<1>22. Rewrites(blocks, code5, {current})
  <2>1. ASSUME NEW b \in DOMAIN blocks
        PROVE  Len(blocks[b].insts) <= Len(code5[b].insts)
    <3>1. CASE b = current
      <4>1. /\ blocks[current].insts \o unwinding \in Seq(Insts)
            /\ Len(blocks[current].insts \o unwinding) = Len(blocks[current].insts) + Len(unwinding)
            /\ Len(blocks[current].insts) \in Nat /\ Len(unwinding) \in Nat /\ Len(leaving) \in Nat
        <5>1. blocks[current].insts \in Seq(Insts) /\ unwinding \in Seq(Insts) /\ leaving \in Seq(Insts)
          BY <1>1, <1>8, <1>9
        <5> QED
          BY <5>1, ConcatProperties, LenProperties
      <4>2. Len(code5[current].insts) = Len(blocks[current].insts) + Len(unwinding) + Len(leaving)
        BY <1>9, <1>21, <4>1, ConcatProperties
      <4> QED
        BY <3>1, <4>1, <4>2
    <3>2. CASE b # current
      <4>1. code5[b] = blocks[b] /\ blocks[b].insts \in Seq(Insts)
        BY <1>1, <1>21, <3>2, CodeDomain
      <4>2. Len(blocks[b].insts) \in Nat
        BY <4>1
      <4> QED
        BY <4>1, <4>2
    <3> QED
      BY <3>1, <3>2
  <2>2. Len(blocks) <= Len(code5)
    BY <1>1, <1>19
  <2> QED
    BY <1>0, <1>21, <2>1, <2>2 DEF Rewrites
<1> DEFINE want2 == [b \in DOMAIN code5 |-> IF b \in DOMAIN blocks THEN want[b] ELSE <<>>]
<1> HIDE DEF N
<1>23. want2 \in [DOMAIN code5 -> States] /\ \A b \in DOMAIN blocks : want2[b] = want[b]
  <2>1. <<>> \in States
    BY DEF States
  <2>2. DOMAIN blocks \subseteq DOMAIN code5
    BY <1>1, <1>20
  <2> QED
    BY <1>1, <2>1, <2>2
<1> HIDE DEF want2
<1>24. live \in SUBSET DOMAIN code5 /\ N + 1 \notin live
  BY <1>1, <1>20
<1>25. Continues(blocks, want, live, want2, live)
  BY <1>23 DEF Continues
<1>26. ASSUME current \in live
       PROVE  Good(code5[current], want2, live, current) /\ code5[current].nest = ScopesOf(want2[current])
  <2>1. x \in live /\ want2[x] = t /\ want2[current] = want[current]
    BY <1>0, <1>1, <1>7, <1>23, <1>26 DEF Reaches
  <2>2. Leads(code5[current].insts, want[current], t)
    <3>1. blocks[current].insts \o unwinding \in Seq(Insts)
      BY <1>1, <1>8, ConcatProperties
    <3> QED
      BY <1>8, <1>9, <1>21, <1>26, <3>1, LeadsOn
  <2>3. Targets(code5[current].term) = {x}
    BY <1>10, <1>21
  <2>4. Good(code5[current], want2, live, current)
    <3>1. \A y \in {x} : y \in live /\ want2[y] = t
      BY <2>1
    <3> QED
      BY <1>9, <2>1, <2>2, <2>3, <3>1 DEF Good
  <2> QED
    BY <1>1, <1>21, <1>26, <2>1, <2>4
<1>27. \A b \in {current} \cup (DOMAIN code5 \ DOMAIN blocks) :
         /\ Targets(code5[b].term) \subseteq DOMAIN code5
         /\ b \in live => Good(code5[b], want2, live, b) /\ code5[b].nest = ScopesOf(want2[b])
         /\ b \in live /\ b # N + 1 => code5[b].term # None
  <2>1. Targets(None) = {}
    BY TermTargets
  <2>2. x \in DOMAIN code5
    BY <1>1, <1>7, <1>20
  <2> QED
    BY <1>10, <1>20, <1>21, <1>24, <1>26, <2>1, <2>2
<1>28. Reaches(code5, N + 1, want2, live, scopes, frames2, pending)
  BY <1>24 DEF Reaches
<1>29. N + 1 \in DOMAIN code5 /\ N + 1 \notin DOMAIN blocks
  BY <1>1, <1>20
<1>30. Built(code5, N + 1, want2, live, base, scopes, loops, frames2, pending)
  BY <1>1, <1>8, <1>19, <1>22, <1>23, <1>24, <1>25, <1>27, <1>28, <1>29, Statement
<1> QED
  BY <1>0, <1>30 DEF Lowers, Lowered

(***************************************************************************)
(* Opening a block.                                                        *)
(***************************************************************************)
Entry(s) == [scope |-> s.at, bodies |-> <<>>]

LEMMA DueAppend ==
    ASSUME NEW scs \in Seq(ScopeRecords), NEW waits \in Seq(Seq(Places)), Len(waits) = Len(scs),
           NEW s \in ScopeRecords
    PROVE  /\ Due(Append(scs, s), Append(waits, <<>>)) = Append(Due(scs, waits), Entry(s))
           /\ Entry(s) \in Entries
<1> DEFINE n == Len(scs)
           scs2 == Append(scs, s)
           waits2 == Append(waits, <<>>)
           d == Due(scs, waits)
<1>1. n \in Nat /\ Len(scs2) = n + 1 /\ scs2[n + 1] = s /\ waits2[n + 1] = <<>>
      /\ \A i \in 1..n : scs2[i] = scs[i] /\ waits2[i] = waits[i]
  OBVIOUS
<1>2. s.at \in Places
  BY DEF ScopeRecords
<1>3. Entry(s) \in Entries
  BY <1>2 DEF Entries, Entry
<1>4. d \in Seq(Entries) /\ Len(d) = n /\ \A i \in 1..n : d[i] = [scope |-> scs[i].at, bodies |-> waits[i]]
  <2>1. d \in States /\ Len(d) = n
    BY DueIs
  <2> QED
    BY <2>1 DEF Due, Upto, States
<1>5. Due(scs2, waits2) = [i \in 1..(n + 1) |-> [scope |-> scs2[i].at, bodies |-> waits2[i]]]
  BY <1>1 DEF Due, Upto
<1> HIDE DEF d, n, scs2, waits2
<1>6. Append(d, Entry(s)) = [i \in 1..(n + 1) |-> IF i = n + 1 THEN Entry(s) ELSE d[i]]
  <2>1. PICK e \in Entries : e = Entry(s)
    BY <1>3
  <2>2. PICK x \in Seq(Entries) : x = d
    BY <1>4
  <2>3. Len(x) = n
    BY <1>4, <2>2
  <2>4. DOMAIN Append(x, e) = 1..(n + 1) /\ Append(x, e)[n + 1] = e
        /\ \A i \in 1..n : Append(x, e)[i] = x[i]
    BY <2>3, AppendProperties
  <2>5. Append(x, e) = [i \in 1..(n + 1) |-> Append(x, e)[i]]
    <3>1. PICK y \in Seq(Entries) : y = Append(x, e)
      BY AppendProperties
    <3>2. DOMAIN y = 1..(n + 1)
      BY <2>4, <3>1
    <3>3. y = [i \in DOMAIN y |-> y[i]]
      OBVIOUS
    <3> QED
      BY <3>1, <3>2, <3>3
  <2>6. Append(x, e) = [i \in 1..(n + 1) |-> IF i = n + 1 THEN e ELSE x[i]]
    <3>1. \A i \in 1..(n + 1) : i \in 1..n \/ i = n + 1
      BY <1>1
    <3>2. \A i \in 1..(n + 1) : Append(x, e)[i] = IF i = n + 1 THEN e ELSE x[i]
      BY <2>4, <3>1
    <3> QED
      BY <2>5, <3>2
  <2> QED
    BY <2>1, <2>2, <2>6
<1>7. ASSUME NEW i \in 1..(n + 1)
      PROVE  (IF i = n + 1 THEN Entry(s) ELSE d[i]) = [scope |-> scs2[i].at, bodies |-> waits2[i]]
  <2>1. CASE i = n + 1
    BY <1>1, <2>1 DEF Entry
  <2>2. CASE i # n + 1
    <3>1. i \in 1..n
      BY <1>1, <2>2
    <3> QED
      BY <1>1, <1>4, <2>2, <3>1
  <2> QED
    BY <2>1, <2>2
<1>8. Append(d, Entry(s)) = [i \in 1..(n + 1) |-> [scope |-> scs2[i].at, bodies |-> waits2[i]]]
  BY <1>6, <1>7
<1> QED
  BY <1>3, <1>5, <1>8 DEF d, scs2, waits2

\* The blocks of hole, and the new ones.
Renewed(code, code2, want2, live2, hole, kept) ==
  \A c \in hole \cup (DOMAIN code2 \ DOMAIN code) :
    /\ Targets(code2[c].term) \subseteq DOMAIN code2
    /\ c \in live2 => Good(code2[c], want2, live2, c)
    /\ c \in live2 /\ code2[c].term # None => code2[c].nest = ScopesOf(want2[c])
    /\ c \in live2 \ kept => code2[c].term # None

\* No exit has been lowered, and everything that is awaited can be reached.
Clear(scs, live, frames) ==
  Awaited(scs) \subseteq live /\ \A k \in DOMAIN frames : frames[k] = <<>>

\* The scope s may be opened in the block b.
MayOpen(code2, b, want2, live2, s, scs, waits, live, frames) ==
  /\ Shape(code2, s) /\ s.part # "body"
  /\ b \notin AwaitedBy(s) /\ Untouched(code2, AwaitedBy(s))
  /\ \A c \in AwaitedBy(s) : want2[c] = Due(scs, waits)
  /\ AwaitedBy(s) \cap live2 # {} => AwaitedBy(s) \subseteq live2 /\ Clear(scs, live, frames)
  /\ b \in live2 => code2[b].nest = ScopesOf(want2[b])
  /\ b \in live2 /\ code2[b].term = None =>
       /\ AwaitedBy(s) \subseteq live2 /\ Clear(scs, live, frames)
       /\ Leads(code2[b].insts, want2[b], Append(Due(scs, waits), Entry(s)))

LEMMA Enters ==
    ASSUME NEW code, NEW want, NEW live, NEW base, NEW scs, NEW lps, NEW frames, NEW waits, NEW hole,
           Around(code, want, live, base, scs, lps, frames, waits, hole), scs # <<>>,
           NEW code2 \in Code, NEW want2 \in [DOMAIN code2 -> States], NEW live2 \in SUBSET DOMAIN code2,
           Rewrites(code, code2, hole), Continues(code, want, live, want2, live2),
           NEW s \in ScopeRecords, NEW b \in DOMAIN code2,
           ({b} \cup AwaitedBy(s)) \cap (DOMAIN code \ hole) = {},
           Renewed(code, code2, want2, live2, hole, {b} \cup AwaitedBy(s)),
           MayOpen(code2, b, want2, live2, s, scs, waits, live, frames),
           NEW lps2, LoopsFit(lps2, Append(scs, s), Based(base, scs, frames))
    PROVE  Built(code2, b, want2, live2, Based(base, scs, frames), Append(scs, s), lps2,
                 Framed(frames, s.part), Append(waits, <<>>))
<1> DEFINE kept == {b} \cup AwaitedBy(s)
<1>1. /\ code \in Code /\ scs \in Seq(ScopeRecords) /\ frames \in Seq(Seq(Places))
      /\ waits \in Seq(Seq(Places)) /\ Len(waits) = Len(scs) /\ Awaited(scs) \subseteq DOMAIN code
  BY BuiltFacts
<1>2. kept \in SUBSET DOMAIN code2 /\ kept \cap (DOMAIN code \ hole) = {}
  <2>1. AwaitedBy(s) \subseteq DOMAIN code2
    BY DEF MayOpen, Shape, AwaitedBy
  <2> QED
    BY <2>1
<1>3. Around(code2, want2, live2, base, scs, lps, frames, waits, kept)
  <2> HIDE DEF kept
  <2>1. \A c \in hole \cup (DOMAIN code2 \ DOMAIN code) :
          /\ Targets(code2[c].term) \subseteq DOMAIN code2
          /\ c \in live2 => Good(code2[c], want2, live2, c)
          /\ c \in live2 /\ code2[c].term # None => code2[c].nest = ScopesOf(want2[c])
          /\ c \in live2 \ kept => code2[c].term # None
    BY DEF Renewed, kept
  <2> QED
    BY <1>2, <2>1, Rewrite
<1>4. Awaited(scs) \subseteq live => Awaited(scs) \subseteq live2
  BY <1>1 DEF Continues
<1>5. Around(code2, want2, live2, Based(base, scs, frames), Append(scs, s), lps2,
             Framed(frames, s.part), Append(waits, <<>>), kept \ AwaitedBy(s))
  <2>1. AwaitedBy(s) \cap live2 # {} => /\ AwaitedBy(s) \subseteq live2 /\ Awaited(scs) \subseteq live2
                                        /\ \A k \in DOMAIN frames : frames[k] = <<>>
    BY <1>4 DEF MayOpen, Clear
  <2>2. /\ Shape(code2, s) /\ s.part # "body" /\ Untouched(code2, AwaitedBy(s))
        /\ \A c \in AwaitedBy(s) : want2[c] = Due(scs, waits)
    BY DEF MayOpen
  <2>3. AwaitedBy(s) \subseteq kept
    OBVIOUS
  <2> HIDE DEF kept
  <2> QED
    BY <1>3, <2>1, <2>2, <2>3, Push
<1>6. kept \ AwaitedBy(s) = {b}
  BY DEF MayOpen
<1>7. b \in live2 => code2[b].nest = ScopesOf(want2[b])
  BY DEF MayOpen
<1>8. Reaches(code2, b, want2, live2, Append(scs, s), Framed(frames, s.part), Append(waits, <<>>))
  <2> SUFFICES ASSUME b \in live2, code2[b].term = None
               PROVE  /\ \A k \in DOMAIN Framed(frames, s.part) : Framed(frames, s.part)[k] = <<>>
                      /\ Awaited(Append(scs, s)) \subseteq live2
                      /\ Leads(code2[b].insts, want2[b], Due(Append(scs, s), Append(waits, <<>>)))
    BY DEF Reaches
  <2>1. /\ AwaitedBy(s) \subseteq live2 /\ Awaited(scs) \subseteq live2
        /\ \A k \in DOMAIN frames : frames[k] = <<>>
        /\ Leads(code2[b].insts, want2[b], Append(Due(scs, waits), Entry(s)))
    BY <1>4 DEF MayOpen, Clear
  <2>2. \A k \in DOMAIN Framed(frames, s.part) : Framed(frames, s.part)[k] = <<>>
    <3>1. /\ \A k \in 1..Len(frames) : Framed(frames, s.part)[k] = frames[k]
          /\ \A k \in DOMAIN Framed(frames, s.part) :
               k \notin 1..Len(frames) => Framed(frames, s.part)[k] = <<>>
      <4>1. frames \in Seq(Seq(Places))
        BY <1>1
      <4> QED
        BY <4>1, FramedIs
    <3>2. DOMAIN frames = 1..Len(frames)
      BY <1>1
    <3> QED
      BY <2>1, <3>1, <3>2
  <2>3. Awaited(Append(scs, s)) \subseteq live2
    BY <1>1, <2>1, AwaitedSplit
  <2> QED
    BY <1>1, <2>1, <2>2, <2>3, DueAppend
<1> HIDE DEF kept
<1> QED
  BY <1>5, <1>6, <1>7, <1>8 DEF Built

\* The beginning of a block of the source.
EntryOf(code, b) == <<b, Len(code[b].insts) + 1>>
Begun(code, b, nest) == Nested(Emit(code, b, <<Mark("enter", EntryOf(code, b))>>), b, nest)
ScopeAt(scope, place) == [scope EXCEPT !.at = place]

IsBegun(code2, code, b, nest) ==
  /\ code2 \in Code /\ Len(code2) = Len(code) /\ DOMAIN code2 = DOMAIN code
  /\ \A c \in DOMAIN code \ {b} : code2[c] = code[c]
  /\ code2[b].insts = code[b].insts \o <<Mark("enter", EntryOf(code, b))>>
  /\ code2[b].term = code[b].term /\ code2[b].nest = nest
  /\ Len(code2[b].insts) = Len(code[b].insts) + 1

LEMMA BegunIs ==
    ASSUME NEW code \in Code, NEW b \in DOMAIN code, NEW nest \in Seq(Places)
    PROVE  /\ IsBegun(Begun(code, b, nest), code, b, nest) /\ EntryOf(code, b) \in Places
           /\ Mark("enter", EntryOf(code, b)) \in Insts
<1> DEFINE place == EntryOf(code, b)
           inst == <<Mark("enter", place)>>
           code1 == Emit(code, b, inst)
           code2 == Nested(code1, b, nest)
<1>1. b \in Nat /\ code[b].insts \in Seq(Insts) /\ Len(code[b].insts) \in Nat
  <2>1. DOMAIN code = 1..Len(code) /\ code[b].insts \in Seq(Insts)
    BY CodeDomain
  <2> QED
    BY <2>1
<1>2. place \in Places
  BY <1>1 DEF Places, EntryOf
<1> HIDE DEF place
<1>3. inst \in Seq(Insts) /\ Len(inst) = 1 /\ Mark("enter", place) \in Insts
  BY <1>2, MarkIs DEF Ops
<1> HIDE DEF inst
<1>4. /\ code1 \in Code /\ Len(code1) = Len(code)
      /\ \A c \in DOMAIN code \ {b} : code1[c] = code[c]
      /\ code1[b].insts = code[b].insts \o inst /\ code1[b].term = code[b].term
  BY <1>3, EmitIs
<1> HIDE DEF code1
<1>5. b \in DOMAIN code1 /\ DOMAIN code1 = DOMAIN code
  BY <1>4, CodeDomain
<1>6. /\ code2 \in Code /\ Len(code2) = Len(code1)
      /\ \A c \in DOMAIN code1 \ {b} : code2[c] = code1[c]
      /\ code2[b].insts = code1[b].insts /\ code2[b].term = code1[b].term /\ code2[b].nest = nest
  BY <1>4, <1>5, NestIs
<1> HIDE DEF code2
<1>7. DOMAIN code2 = DOMAIN code
  BY <1>4, <1>6, CodeDomain
<1>8. Len(code2[b].insts) = Len(code[b].insts) + 1
  <2>1. PICK x \in Seq(Insts) : x = code[b].insts
    BY <1>1
  <2>2. PICK y \in Seq(Insts) : y = inst
    BY <1>3
  <2>3. Len(x \o y) = Len(x) + Len(y)
    OBVIOUS
  <2>4. code2[b].insts = x \o y
    BY <1>4, <1>6, <2>1, <2>2
  <2> QED
    BY <1>3, <2>1, <2>2, <2>3, <2>4
<1>9. IsBegun(code2, code, b, nest)
  BY <1>4, <1>5, <1>6, <1>7, <1>8 DEF IsBegun, inst, place
<1> QED
  BY <1>2, <1>3, <1>9 DEF Begun, code2, code1, inst, place

LEMMA ScopeAtIs ==
    ASSUME NEW scope \in ScopeRecords, NEW place \in Places
    PROVE  /\ ScopeAt(scope, place) \in ScopeRecords /\ ScopeAt(scope, place).at = place
           /\ ScopeAt(scope, place).part = scope.part
           /\ AwaitedBy(ScopeAt(scope, place)) = AwaitedBy(scope)
           /\ \A code : Shape(code, scope) => Shape(code, ScopeAt(scope, place))
           /\ ScopeAt(scope, place).after = scope.after /\ ScopeAt(scope, place).other = scope.other
<1> DEFINE s == ScopeAt(scope, place)
<1>1. s \in ScopeRecords /\ s.at = place /\ s.part = scope.part /\ s.after = scope.after
      /\ s.other = scope.other /\ s.left = scope.left
  BY DEF ScopeAt, ScopeRecords
<1> HIDE DEF s
<1> QED
  BY <1>1 DEF AwaitedBy, Shape, s

\* The scope may be opened at the end of the block b.
MayBegin(code, b, want2, live2, scope, scs, waits, live, frames, nest) ==
  /\ Shape(code, scope) /\ scope.part # "body"
  /\ b \notin AwaitedBy(scope) /\ Untouched(code, AwaitedBy(scope))
  /\ \A c \in AwaitedBy(scope) : want2[c] = Due(scs, waits)
  /\ AwaitedBy(scope) \cap live2 # {} => AwaitedBy(scope) \subseteq live2 /\ Clear(scs, live, frames)
  /\ code[b].term = None
  /\ b \in live2 => /\ nest = ScopesOf(want2[b])
                    /\ AwaitedBy(scope) \subseteq live2 /\ Clear(scs, live, frames)
                    /\ Leads(code[b].insts, want2[b], Due(scs, waits))

LEMMA Begins ==
    ASSUME NEW old, NEW want, NEW live, NEW base, NEW scs, NEW lps, NEW frames, NEW waits, NEW hole,
           Around(old, want, live, base, scs, lps, frames, waits, hole), scs # <<>>,
           NEW code \in Code, NEW want2 \in [DOMAIN code -> States], NEW live2 \in SUBSET DOMAIN code,
           Rewrites(old, code, hole), Continues(old, want, live, want2, live2),
           NEW scope \in ScopeRecords, NEW b \in DOMAIN code, NEW nest \in Seq(Places),
           ({b} \cup AwaitedBy(scope)) \cap (DOMAIN old \ hole) = {},
           Renewed(old, code, want2, live2, hole, {b} \cup AwaitedBy(scope)),
           MayBegin(code, b, want2, live2, scope, scs, waits, live, frames, nest),
           NEW s, s = ScopeAt(scope, EntryOf(code, b)),
           NEW lps2, LoopsFit(lps2, Append(scs, s), Based(base, scs, frames))
    PROVE  Built(Begun(code, b, nest), b, want2, live2, Based(base, scs, frames), Append(scs, s), lps2,
                 Framed(frames, scope.part), Append(waits, <<>>))
<1> DEFINE place == EntryOf(code, b)
           code2 == Begun(code, b, nest)
           m == Mark("enter", place)
           t == Due(scs, waits)
<1>1. IsBegun(code2, code, b, nest) /\ place \in Places /\ m \in Insts
  BY BegunIs
<1>2. /\ s \in ScopeRecords /\ s.at = place /\ s.part = scope.part /\ AwaitedBy(s) = AwaitedBy(scope)
      /\ \A c : Shape(c, scope) => Shape(c, s)
  BY <1>1, ScopeAtIs
<1>3. /\ old \in Code /\ scs \in Seq(ScopeRecords) /\ waits \in Seq(Seq(Places)) /\ Len(waits) = Len(scs)
      /\ DOMAIN old = 1..Len(old) /\ Len(old) \in Nat /\ DOMAIN code = 1..Len(code) /\ Len(code) \in Nat
      /\ \A c \in DOMAIN code : code[c].insts \in Seq(Insts)
      /\ \A c \in DOMAIN old : old[c].insts \in Seq(Insts)
  <2>1. old \in Code /\ scs \in Seq(ScopeRecords) /\ waits \in Seq(Seq(Places)) /\ Len(waits) = Len(scs)
    BY BuiltFacts
  <2> QED
    BY <2>1, CodeDomain
<1>4. t \in States
  BY <1>3, DueIs
<1> HIDE DEF place, code2, m, t
<1>5. /\ code2 \in Code /\ Len(code2) = Len(code) /\ DOMAIN code2 = DOMAIN code
      /\ \A c \in DOMAIN code \ {b} : code2[c] = code[c]
      /\ code2[b].insts = code[b].insts \o <<m>>
      /\ code2[b].term = code[b].term /\ code2[b].nest = nest
      /\ Len(code2[b].insts) = Len(code[b].insts) + 1
  BY <1>1 DEF IsBegun, m, place
<1>6. DOMAIN old \subseteq DOMAIN code /\ b \notin DOMAIN old \ hole
  BY <1>3 DEF Rewrites
<1>7. Rewrites(old, code2, hole)
  <2>1. ASSUME NEW c \in DOMAIN old
        PROVE  /\ old[c].term # None => code2[c].term # None
               /\ Len(old[c].insts) <= Len(code2[c].insts)
    <3>1. /\ old[c].term # None => code[c].term # None
          /\ Len(old[c].insts) <= Len(code[c].insts) /\ c \in DOMAIN code
      BY <1>6 DEF Rewrites
    <3>2. Len(old[c].insts) \in Nat /\ Len(code[c].insts) \in Nat
      BY <1>3, <3>1
    <3>3. code2[c].term = code[c].term /\ Len(code[c].insts) <= Len(code2[c].insts)
      <4>1. CASE c = b
        BY <1>5, <3>2, <4>1
      <4>2. CASE c # b
        BY <1>5, <3>1, <3>2, <4>2
      <4> QED
        BY <4>1, <4>2
    <3>4. Len(code2[c].insts) \in Nat
      <4>1. code2[c].insts \in Seq(Insts)
        BY <1>5, <3>1, CodeDomain
      <4> QED
        BY <4>1
    <3> QED
      BY <3>1, <3>2, <3>3, <3>4
  <2>2. \A c \in DOMAIN old \ hole : code2[c] = old[c]
    BY <1>5, <1>6 DEF Rewrites
  <2>3. Len(old) <= Len(code2)
    BY <1>5 DEF Rewrites
  <2> QED
    BY <2>1, <2>2, <2>3 DEF Rewrites
<1>8. /\ Shape(code, scope) /\ scope.part # "body" /\ b \notin AwaitedBy(scope)
      /\ Untouched(code, AwaitedBy(scope)) /\ \A c \in AwaitedBy(scope) : want2[c] = t
      /\ AwaitedBy(scope) \cap live2 # {} => AwaitedBy(scope) \subseteq live2 /\ Clear(scs, live, frames)
      /\ code[b].term = None
      /\ b \in live2 => /\ nest = ScopesOf(want2[b])
                        /\ AwaitedBy(scope) \subseteq live2 /\ Clear(scs, live, frames)
                        /\ Leads(code[b].insts, want2[b], t)
  BY DEF MayBegin, t
<1>9. Sound(m, t) /\ Effect(m, t) = Append(t, Entry(s))
  <2>1. m.op = "enter" /\ m.arg = place
    BY DEF m, Mark
  <2> QED
    BY <1>1, <1>2, <2>1 DEF Sound, Effect, Entry
<1>10. ASSUME b \in live2
       PROVE  Leads(code2[b].insts, want2[b], Append(t, Entry(s)))
  <2>1. code[b].insts \in Seq(Insts) /\ Leads(code[b].insts, want2[b], t)
    BY <1>3, <1>8, <1>10
  <2>2. Leads(code[b].insts \o <<m>>, want2[b], Effect(m, t))
    BY <1>1, <1>9, <2>1, LeadsThen
  <2> QED
    BY <1>5, <1>9, <2>2
<1>11. Renewed(old, code2, want2, live2, hole, {b} \cup AwaitedBy(s))
  <2> SUFFICES ASSUME NEW c \in hole \cup (DOMAIN code \ DOMAIN old)
               PROVE  /\ Targets(code2[c].term) \subseteq DOMAIN code
                      /\ c \in live2 => Good(code2[c], want2, live2, c)
                      /\ c \in live2 /\ code2[c].term # None => code2[c].nest = ScopesOf(want2[c])
                      /\ c \in live2 \ ({b} \cup AwaitedBy(scope)) => code2[c].term # None
    BY <1>2, <1>5 DEF Renewed
  <2>1. /\ Targets(code[c].term) \subseteq DOMAIN code
        /\ c \in live2 => Good(code[c], want2, live2, c)
        /\ c \in live2 /\ code[c].term # None => code[c].nest = ScopesOf(want2[c])
        /\ c \in live2 \ ({b} \cup AwaitedBy(scope)) => code[c].term # None
    BY DEF Renewed
  <2>2. CASE c = b
    <3>1. code2[b].term = None /\ Targets(None) = {}
      BY <1>5, <1>8, TermTargets
    <3>2. b \in live2 => Good(code2[b], want2, live2, b)
      <4>1. Append(t, Entry(s)) \in States
        BY <1>1, <1>4, <1>9, EffectType
      <4> QED
        BY <1>10, <3>1, <4>1 DEF Good
    <3> QED
      BY <2>2, <3>1, <3>2
  <2>3. CASE c # b
    <3>1. c \in DOMAIN code
      BY <1>6, BuiltFacts
    <3>2. code2[c] = code[c]
      BY <1>5, <2>3, <3>1
    <3> QED
      BY <2>1, <3>2
  <2> QED
    BY <2>2, <2>3
<1>12. MayOpen(code2, b, want2, live2, s, scs, waits, live, frames)
  <2>1. Shape(code2, s)
    <3>1. Shape(code, s)
      BY <1>2, <1>8
    <3>2. s.other # 0 => code2[s.other].term = code[s.other].term
      BY <1>5, <3>1 DEF Shape
    <3>3. s.part = "loop" => s.other # 0
      BY <3>1 DEF Shape
    <3> QED
      BY <1>5, <3>1, <3>2, <3>3 DEF Shape
  <2>2. Untouched(code2, AwaitedBy(s))
    <3>1. AwaitedBy(scope) \subseteq DOMAIN code
      BY <1>8 DEF Shape, AwaitedBy
    <3> QED
      BY <1>2, <1>5, <1>8, <3>1 DEF Untouched
  <2> QED
    BY <1>2, <1>5, <1>8, <1>10, <2>1, <2>2 DEF MayOpen, t
<1>13. want2 \in [DOMAIN code2 -> States] /\ live2 \in SUBSET DOMAIN code2 /\ b \in DOMAIN code2
  BY <1>5
<1>14. ({b} \cup AwaitedBy(s)) \cap (DOMAIN old \ hole) = {}
  BY <1>2
<1>15. Built(code2, b, want2, live2, Based(base, scs, frames), Append(scs, s), lps2,
             Framed(frames, s.part), Append(waits, <<>>))
  BY <1>2, <1>5, <1>7, <1>11, <1>12, <1>13, <1>14, Enters
<1> QED
  BY <1>2, <1>15 DEF code2

LEMMA SameCode == ASSUME NEW code \in Code, NEW want, NEW live, NEW hole
                  PROVE  Rewrites(code, code, hole) /\ Continues(code, want, live, want, live)
<1>1. Len(code) \in Nat
  BY CodeDomain
<1>2. ASSUME NEW b \in DOMAIN code
      PROVE  Len(code[b].insts) \in Nat
  <2>1. code[b].insts \in Seq(Insts)
    BY CodeDomain
  <2> QED
    BY <2>1
<1> QED
  BY <1>1, <1>2 DEF Rewrites, Continues

LEMMA ScopeIs ==
    ASSUME NEW part \in Parts, NEW after \in Nat, NEW other \in Nat, NEW left \in Nat
    PROVE  /\ Scope(part, after, other, left) \in ScopeRecords
           /\ Scope(part, after, other, left).part = part /\ Scope(part, after, other, left).after = after
           /\ Scope(part, after, other, left).other = other /\ Scope(part, after, other, left).left = left
           /\ AwaitedBy(Scope(part, after, other, left)) = {after, other} \ {0}
  BY DEF Scope, ScopeRecords, Places, AwaitedBy

\* BeginBlock sets the whole state but the loops.
LEMMA BeginIs ==
    ASSUME NEW code \in Code, NEW b \in DOMAIN code, NEW scope, NEW outer, NEW frames, NEW waits,
           BeginBlock(code, b, scope, outer, frames, waits)
    PROVE  /\ current' = b /\ pending' = Append(waits, <<>>)
           /\ scopes' = Append(outer, ScopeAt(scope, EntryOf(code, b)))
           /\ blocks' = Begun(code, b, IF b = current THEN code[b].nest ELSE InScopes(outer))
           /\ cleanups' = Framed(frames, scope.part)
<1> DEFINE place == EntryOf(code, b)
           code1 == Emit(code, b, <<Mark("enter", place)>>)
<1>1. /\ current' = b /\ pending' = Append(waits, <<>>)
      /\ scopes' = Append(outer, ScopeAt(scope, place))
      /\ blocks' = [code1 EXCEPT ![b].nest = IF b = current THEN @ ELSE InScopes(outer)]
      /\ cleanups' = Framed(frames, scope.part)
  BY DEF BeginBlock, ScopeAt, EntryOf, Framed
<1>2. place \in Places
  BY BegunIs, EmptySeq
<1>3. <<Mark("enter", place)>> \in Seq(Insts)
  <2> HIDE DEF place
  <2> QED
    BY <1>2, MarkIs DEF Ops
<1>4. code1[b].nest = code[b].nest
  BY <1>3, EmitIs
<1>5. blocks' = Nested(code1, b, IF b = current THEN code1[b].nest ELSE InScopes(outer))
  <2> HIDE DEF code1
  <2> QED
    BY <1>1 DEF Nested
<1> QED
  BY <1>1, <1>4, <1>5 DEF Begun

LEMMA OpenBlockLowers ==
    ASSUME NEW want, NEW live, NEW base, Lowered(want, live, base), scopes # <<>>, OpenBlock
    PROVE  Lowers'
<1> DEFINE scope == Scope("block", 0, 0, 0)
           nest == blocks[current].nest
           s == ScopeAt(scope, EntryOf(blocks, current))
           base2 == Based(base, scopes, cleanups)
<1>1. /\ Around(blocks, want, live, base, scopes, loops, cleanups, pending, {current})
      /\ current \in live => blocks[current].nest = ScopesOf(want[current])
      /\ Reaches(blocks, current, want, live, scopes, cleanups, pending)
      /\ blocks \in Code /\ current \in DOMAIN blocks
      /\ want \in [DOMAIN blocks -> States] /\ live \in SUBSET DOMAIN blocks
      /\ scopes \in Seq(ScopeRecords)
  BY LoweredFacts
<1>2. blocks[current].term = None /\ loops' = loops
      /\ BeginBlock(blocks, current, scope, scopes, cleanups, pending)
  BY DEF OpenBlock, Open
<1>3. scope \in ScopeRecords /\ scope.part = "block" /\ scope.after = 0 /\ scope.other = 0
      /\ scope.left = 0 /\ AwaitedBy(scope) = {}
  <2>1. "block" \in Parts /\ 0 \in Nat
    BY DEF Parts
  <2> QED
    BY <2>1, ScopeIs
<1> HIDE DEF scope
<1>4. /\ current' = current /\ pending' = Append(pending, <<>>) /\ scopes' = Append(scopes, s)
      /\ blocks' = Begun(blocks, current, nest) /\ cleanups' = Framed(cleanups, scope.part)
  BY <1>1, <1>2, BeginIs
<1>5. nest \in Seq(Places)
  <2>1. blocks[current] \in BlockRecords
    BY <1>1, CodeDomain
  <2> QED
    BY <2>1 DEF BlockRecords
<1>6. EntryOf(blocks, current) \in Places
  BY <1>1, <1>5, BegunIs
<1>7. s \in ScopeRecords /\ s.part = "block"
  BY <1>3, <1>6, ScopeAtIs
<1> HIDE DEF s, nest, base2
<1>8. LoopsFit(loops, Append(scopes, s), base2)
  <2>1. FramesFit(cleanups, scopes, base) /\ LoopsFit(loops, scopes, base)
    BY <1>1 DEF Around
  <2> QED
    BY <1>1, <1>7, <2>1, LoopsPush DEF base2
<1>9. Renewed(blocks, blocks, want, live, {current}, {current} \cup AwaitedBy(scope))
  <2>1. Targets(None) = {} /\ \A b \in live : Good(blocks[b], want, live, b)
    BY <1>1, BuiltFacts, TermTargets
  <2> QED
    BY <1>1, <1>2, <2>1 DEF Renewed
<1>10. MayBegin(blocks, current, want, live, scope, scopes, pending, live, cleanups, nest)
  <2>1. Shape(blocks, scope) /\ Untouched(blocks, AwaitedBy(scope))
    BY <1>3 DEF Shape, Untouched, Parts
  <2>2. current \in live => Leads(blocks[current].insts, want[current], Due(scopes, pending))
                            /\ Clear(scopes, live, cleanups)
    BY <1>1, <1>2 DEF Reaches, Clear
  <2> QED
    BY <1>1, <1>2, <1>3, <2>1, <2>2 DEF MayBegin, nest
<1>11. Rewrites(blocks, blocks, {current}) /\ Continues(blocks, want, live, want, live)
  BY <1>1, SameCode
<1>12. ({current} \cup AwaitedBy(scope)) \cap (DOMAIN blocks \ {current}) = {}
  BY <1>3
<1>13. Built(Begun(blocks, current, nest), current, want, live, base2, Append(scopes, s), loops,
             Framed(cleanups, scope.part), Append(pending, <<>>))
  <2>1. s = ScopeAt(scope, EntryOf(blocks, current))
    BY DEF s
  <2>2. LoopsFit(loops, Append(scopes, s), Based(base, scopes, cleanups))
    BY <1>8 DEF base2
  <2> QED
    BY <1>1, <1>3, <1>5, <1>9, <1>10, <1>11, <1>12, <2>1, <2>2, Begins DEF base2
<1> QED
  BY <1>2, <1>4, <1>13 DEF Lowers, Lowered

\* New blocks are entered in the state t; those of extra can be reached if cur can.
Prolonged(old, code, want, t) == [b \in DOMAIN code |-> IF b \in DOMAIN old THEN want[b] ELSE t]
Enlivened(live, cur, extra) == IF cur \in live THEN live \cup extra ELSE live

Prolongs(old, code, want, live, t, cur, extra) ==
  /\ old \in Code /\ code \in Code /\ Len(old) <= Len(code)
  /\ want \in [DOMAIN old -> States] /\ live \in SUBSET DOMAIN old /\ t \in States
  /\ cur \in DOMAIN old /\ extra \in SUBSET (DOMAIN code \ DOMAIN old)

LEMMA ProlongedIs ==
    ASSUME NEW old, NEW code, NEW want, NEW live, NEW t, NEW cur, NEW extra,
           Prolongs(old, code, want, live, t, cur, extra)
    PROVE  /\ Prolonged(old, code, want, t) \in [DOMAIN code -> States]
           /\ Enlivened(live, cur, extra) \in SUBSET DOMAIN code
           /\ Continues(old, want, live, Prolonged(old, code, want, t), Enlivened(live, cur, extra))
           /\ \A b \in DOMAIN code \ DOMAIN old :
                /\ Prolonged(old, code, want, t)[b] = t
                /\ b \in Enlivened(live, cur, extra) <=> cur \in live /\ b \in extra
           /\ DOMAIN old \subseteq DOMAIN code
<1> USE DEF Prolongs
<1>1. DOMAIN old \subseteq DOMAIN code
  <2>1. DOMAIN old = 1..Len(old) /\ DOMAIN code = 1..Len(code) /\ Len(old) \in Nat /\ Len(code) \in Nat
    BY CodeDomain
  <2> QED
    BY <2>1
<1> QED
  BY <1>1 DEF Prolonged, Enlivened, Continues

\* What is lowered into cur leads to the state the construct begins in.
Poised(old, cur, want, live, scs, frames, waits, hole) ==
  /\ cur \in hole /\ old[cur].term = None
  /\ cur \in live => Clear(scs, live, frames) /\ Leads(old[cur].insts, want[cur], Due(scs, waits))
  /\ \A c \in hole \ {cur} : /\ want[c] = Due(scs, waits) /\ (c \in live <=> cur \in live)
                             /\ old[c].term = None => old[c].insts = <<>>

\* cur ends in a terminator that leads to new blocks; b is the one the first block of
\* the source begins in.
Constructed(old, code, cur, want, live, scs, hole, scope, b, extra) ==
  /\ Len(old) <= Len(code) /\ \A c \in DOMAIN old \ {cur} : code[c] = old[c]
  /\ code[cur].insts = old[cur].insts /\ code[cur].term # None
  /\ cur \in live => code[cur].nest = ScopesOf(want[cur])
  /\ Targets(code[cur].term) \subseteq extra \cup (hole \ {cur})
  /\ b \in extra /\ code[b].term = None
  /\ \A c \in DOMAIN code \ DOMAIN old :
       /\ code[c].insts = <<>> /\ Targets(code[c].term) \subseteq extra
       /\ c \in extra /\ code[c].term # None => code[c].nest = InScopes(scs)
       /\ c \in extra \ ({b} \cup AwaitedBy(scope)) => code[c].term # None
  /\ Shape(code, scope) /\ scope.part # "body" /\ b \notin AwaitedBy(scope)
  /\ hole \ {cur} \subseteq AwaitedBy(scope)
  /\ AwaitedBy(scope) \subseteq extra \cup (hole \ {cur})

LEMMA Constructs ==
    ASSUME NEW old, NEW want, NEW live, NEW base, NEW scs, NEW lps, NEW frames, NEW waits, NEW hole,
           Around(old, want, live, base, scs, lps, frames, waits, hole), scs # <<>>,
           NEW cur, Poised(old, cur, want, live, scs, frames, waits, hole),
           NEW code \in Code, NEW extra \in SUBSET (DOMAIN code \ DOMAIN old),
           NEW scope \in ScopeRecords, NEW b,
           Constructed(old, code, cur, want, live, scs, hole, scope, b, extra),
           NEW s, s = ScopeAt(scope, EntryOf(code, b)),
           NEW lps2, LoopsFit(lps2, Append(scs, s), Based(base, scs, frames))
    PROVE  \E want2, live2 :
             Built(Begun(code, b, InScopes(scs)), b, want2, live2, Based(base, scs, frames),
                   Append(scs, s), lps2, Framed(frames, scope.part), Append(waits, <<>>))
<1> DEFINE t == Due(scs, waits)
           want2 == Prolonged(old, code, want, t)
           live2 == Enlivened(live, cur, extra)
<1>1. /\ old \in Code /\ want \in [DOMAIN old -> States] /\ live \in SUBSET DOMAIN old
      /\ hole \subseteq DOMAIN old /\ scs \in Seq(ScopeRecords)
      /\ waits \in Seq(Seq(Places)) /\ Len(waits) = Len(scs)
      /\ \A c \in DOMAIN old : Targets(old[c].term) \subseteq DOMAIN old
      /\ \A c \in live : Good(old[c], want, live, c)
  BY BuiltFacts
<1>2. t \in States /\ ScopesOf(t) = InScopes(scs) /\ InScopes(scs) \in Seq(Places)
  BY <1>1, DueIs
<1>3. /\ cur \in hole /\ cur \in DOMAIN old /\ old[cur].term = None
      /\ cur \in live => Clear(scs, live, frames) /\ Leads(old[cur].insts, want[cur], t)
      /\ \A c \in hole \ {cur} : /\ want[c] = t /\ (c \in live <=> cur \in live)
                                 /\ old[c].term = None => old[c].insts = <<>>
  BY <1>1 DEF Poised
<1>4. /\ Len(old) <= Len(code) /\ \A c \in DOMAIN old \ {cur} : code[c] = old[c]
      /\ code[cur].insts = old[cur].insts /\ code[cur].term # None
      /\ cur \in live => code[cur].nest = ScopesOf(want[cur])
      /\ Targets(code[cur].term) \subseteq extra \cup (hole \ {cur})
      /\ b \in extra /\ code[b].term = None
      /\ \A c \in DOMAIN code \ DOMAIN old :
           /\ code[c].insts = <<>> /\ Targets(code[c].term) \subseteq extra
           /\ c \in extra /\ code[c].term # None => code[c].nest = InScopes(scs)
           /\ c \in extra \ ({b} \cup AwaitedBy(scope)) => code[c].term # None
      /\ Shape(code, scope) /\ scope.part # "body" /\ b \notin AwaitedBy(scope)
      /\ hole \ {cur} \subseteq AwaitedBy(scope)
      /\ AwaitedBy(scope) \subseteq extra \cup (hole \ {cur})
  BY DEF Constructed
<1> HIDE DEF t
<1>5. /\ want2 \in [DOMAIN code -> States] /\ live2 \in SUBSET DOMAIN code
      /\ Continues(old, want, live, want2, live2)
      /\ \A c \in DOMAIN code \ DOMAIN old : want2[c] = t /\ (c \in live2 <=> cur \in live /\ c \in extra)
      /\ DOMAIN old \subseteq DOMAIN code
  <2>1. Prolongs(old, code, want, live, t, cur, extra)
    BY <1>1, <1>2, <1>3, <1>4 DEF Prolongs
  <2> QED
    BY <2>1, ProlongedIs
<1> HIDE DEF want2, live2
<1>6. \A c \in DOMAIN old : want2[c] = want[c] /\ (c \in live2 <=> c \in live)
  BY <1>5 DEF Continues
<1>7. Rewrites(old, code, hole)
  <2>1. Rewrites(old, old, hole)
    BY <1>1, SameCode
  <2>2. \A c \in DOMAIN old : /\ old[c].term # None => code[c].term # None
                              /\ Len(old[c].insts) <= Len(code[c].insts)
    BY <1>4, <2>1 DEF Rewrites
  <2> QED
    BY <1>3, <1>4, <2>2 DEF Rewrites
<1>8. \A c \in extra \cup (hole \ {cur}) : want2[c] = t /\ (c \in live2 <=> cur \in live) /\ c \in DOMAIN code
  BY <1>1, <1>3, <1>5, <1>6
<1>9. Leads(<<>>, t, t)
  BY <1>2, LeadsNowhere
<1>10. Renewed(old, code, want2, live2, hole, {b} \cup AwaitedBy(scope))
  <2> SUFFICES ASSUME NEW c \in hole \cup (DOMAIN code \ DOMAIN old)
               PROVE  /\ Targets(code[c].term) \subseteq DOMAIN code
                      /\ c \in live2 => Good(code[c], want2, live2, c)
                      /\ c \in live2 /\ code[c].term # None => code[c].nest = ScopesOf(want2[c])
                      /\ c \in live2 \ ({b} \cup AwaitedBy(scope)) => code[c].term # None
    BY DEF Renewed
  <2>1. CASE c = cur
    <3>1. c \in live2 => Good(code[c], want2, live2, c)
      <4> SUFFICES ASSUME cur \in live
                   PROVE  Good(code[cur], want2, live2, cur)
        BY <1>3, <1>6, <2>1
      <4>1. Leads(code[cur].insts, want2[cur], t)
        BY <1>3, <1>4, <1>6
      <4>2. \A x \in Targets(code[cur].term) : x \in live2 /\ want2[x] = t
        BY <1>4, <1>8
      <4> QED
        BY <1>2, <4>1, <4>2 DEF Good
    <3> QED
      BY <1>3, <1>4, <1>6, <1>8, <2>1, <3>1
  <2>2. CASE c \in hole \ {cur}
    <3>1. code[c] = old[c] /\ c \in DOMAIN old /\ want2[c] = want[c] /\ (c \in live2 <=> c \in live)
      BY <1>1, <1>4, <1>6, <2>2
    <3>2. Targets(code[c].term) \subseteq DOMAIN code
      BY <1>1, <1>5, <3>1
    <3>3. ASSUME c \in live2
          PROVE  Good(code[c], want2, live2, c)
      <4>1. PICK u \in States : /\ Leads(old[c].insts, want[c], u)
                                /\ \A x \in Targets(old[c].term) : x \in live /\ want[x] = u
        BY <1>1, <3>1, <3>3 DEF Good
      <4>2. \A x \in Targets(old[c].term) : x \in live2 /\ want2[x] = u
        BY <1>1, <1>6, <3>1, <4>1
      <4> QED
        BY <3>1, <4>1, <4>2 DEF Good
    <3>4. c \in live2 /\ code[c].term # None => code[c].nest = ScopesOf(want2[c])
      BY <3>1 DEF Around, Placed
    <3> QED
      BY <1>4, <2>2, <3>2, <3>3, <3>4
  <2>3. CASE c \in DOMAIN code \ DOMAIN old
    <3>1. /\ code[c].insts = <<>> /\ Targets(code[c].term) \subseteq extra
          /\ c \in extra /\ code[c].term # None => code[c].nest = InScopes(scs)
          /\ c \in extra \ ({b} \cup AwaitedBy(scope)) => code[c].term # None
          /\ want2[c] = t /\ (c \in live2 <=> cur \in live /\ c \in extra)
      BY <1>4, <1>5, <2>3
    <3>2. ASSUME c \in live2
          PROVE  Good(code[c], want2, live2, c)
      <4>1. \A x \in Targets(code[c].term) : x \in live2 /\ want2[x] = t
        BY <1>8, <3>1, <3>2
      <4> QED
        BY <1>2, <1>9, <3>1, <4>1 DEF Good
    <3> QED
      BY <1>2, <3>1, <3>2
  <2> QED
    BY <2>1, <2>2, <2>3
<1>11. MayBegin(code, b, want2, live2, scope, scs, waits, live, frames, InScopes(scs))
  <2>1. Untouched(code, AwaitedBy(scope))
    <3>1. ASSUME NEW c \in AwaitedBy(scope), code[c].term = None
          PROVE  code[c].insts = <<>>
      <4>1. CASE c \in extra
        BY <1>4, <4>1
      <4>2. CASE c \in hole \ {cur}
        <5>1. code[c] = old[c]
          BY <1>1, <1>4, <4>2
        <5> QED
          BY <1>3, <3>1, <4>2, <5>1
      <4> QED
        BY <1>4, <4>1, <4>2
    <3> QED
      BY <3>1 DEF Untouched
  <2>2. \A c \in AwaitedBy(scope) : want2[c] = t /\ (c \in live2 <=> cur \in live)
    BY <1>4, <1>8
  <2>3. b \in live2 <=> cur \in live
    BY <1>4, <1>8
  <2>4. want2[b] = t /\ code[b].insts = <<>>
    BY <1>4, <1>5
  <2> QED
    BY <1>2, <1>3, <1>4, <1>9, <2>1, <2>2, <2>3, <2>4 DEF MayBegin, t
<1>12. ({b} \cup AwaitedBy(scope)) \cap (DOMAIN old \ hole) = {} /\ b \in DOMAIN code
  BY <1>4
<1>13. Built(Begun(code, b, InScopes(scs)), b, want2, live2, Based(base, scs, frames), Append(scs, s), lps2,
             Framed(frames, scope.part), Append(waits, <<>>))
  BY <1>2, <1>5, <1>7, <1>10, <1>11, <1>12, Begins
<1> QED
  BY <1>13

\* The loops once the scope has been opened.
LoopsInside(lps, scope, frames, scs) ==
  IF scope.part = "loop"
  THEN Append(lps, [continue_block |-> scope.other, break_block |-> scope.after,
                    cleanup_depth |-> Len(frames) + 1, outside |-> Len(scs)])
  ELSE lps

LEMMA LoopsInsideIs ==
    ASSUME NEW base, NEW scs, scs \in Seq(ScopeRecords), scs # <<>>, NEW lps, NEW frames,
           FramesFit(frames, scs, base), LoopsFit(lps, scs, base),
           NEW scope \in ScopeRecords, NEW place \in Places
    PROVE  LoopsFit(LoopsInside(lps, scope, frames, scs), Append(scs, ScopeAt(scope, place)),
                    Based(base, scs, frames))
<1> DEFINE s == ScopeAt(scope, place)
<1>1. s \in ScopeRecords /\ s.part = scope.part /\ s.after = scope.after /\ s.other = scope.other
  BY ScopeAtIs
<1> HIDE DEF s
<1>2. CASE scope.part # "loop"
  <2>1. LoopsFit(lps, Append(scs, s), Based(base, scs, frames))
    BY <1>1, <1>2, LoopsPush
  <2> QED
    BY <1>2, <2>1 DEF LoopsInside, s
<1>3. CASE scope.part = "loop"
  <2>1. LoopsFit(Append(lps, [continue_block |-> s.other, break_block |-> s.after,
                              cleanup_depth |-> Len(frames) + 1, outside |-> Len(scs)]),
                 Append(scs, s), Based(base, scs, frames))
    BY <1>1, <1>3, LoopsPush
  <2> QED
    BY <1>1, <1>3, <2>1 DEF LoopsInside, s
<1> QED
  BY <1>2, <1>3

LEMMA ConstructLowers ==
    ASSUME NEW want, NEW live, NEW base, Lowered(want, live, base), scopes # <<>>,
           blocks[current].term = None,
           NEW code \in Code, NEW extra \in SUBSET (DOMAIN code \ DOMAIN blocks),
           NEW scope \in ScopeRecords, NEW b,
           Constructed(blocks, code, current, want, live, scopes, {current}, scope, b, extra),
           BeginBlock(code, b, scope, scopes, cleanups, pending),
           loops' = LoopsInside(loops, scope, cleanups, scopes)
    PROVE  Lowers'
<1> DEFINE s == ScopeAt(scope, EntryOf(code, b))
           lps2 == LoopsInside(loops, scope, cleanups, scopes)
           code2 == Begun(code, b, InScopes(scopes))
           base2 == Based(base, scopes, cleanups)
<1>1. /\ Around(blocks, want, live, base, scopes, loops, cleanups, pending, {current})
      /\ Reaches(blocks, current, want, live, scopes, cleanups, pending)
      /\ current \in DOMAIN blocks /\ scopes \in Seq(ScopeRecords) /\ InScopes(scopes) \in Seq(Places)
  BY LoweredFacts
<1>2. b \in extra /\ b \in DOMAIN code /\ b # current
  BY <1>1 DEF Constructed
<1>3. Poised(blocks, current, want, live, scopes, cleanups, pending, {current})
  BY <1>1 DEF Poised, Reaches, Clear
<1>4. EntryOf(code, b) \in Places
  BY <1>1, <1>2, BegunIs
<1>5. LoopsFit(lps2, Append(scopes, s), base2)
  <2>1. FramesFit(cleanups, scopes, base) /\ LoopsFit(loops, scopes, base)
    BY <1>1 DEF Around
  <2> QED
    BY <1>1, <1>4, <2>1, LoopsInsideIs
<1>6. /\ current' = b /\ pending' = Append(pending, <<>>) /\ scopes' = Append(scopes, s)
      /\ blocks' = code2 /\ cleanups' = Framed(cleanups, scope.part)
  BY <1>2, BeginIs
<1>7. \E want2, live2 : Built(code2, b, want2, live2, base2, Append(scopes, s), lps2,
                              Framed(cleanups, scope.part), Append(pending, <<>>))
  <2>1. s = ScopeAt(scope, EntryOf(code, b))
    OBVIOUS
  <2> HIDE DEF s, lps2
  <2> QED
    BY <1>1, <1>3, <1>5, <2>1, Constructs
<1> HIDE DEF s, code2, base2
<1> QED
  BY <1>6, <1>7 DEF Lowers, Lowered

LEMMA IfLowers ==
    ASSUME NEW want, NEW live, NEW base, Lowered(want, live, base), scopes # <<>>,
           NEW cond \in Conds, NEW other \in {"none", "else", "elif"}, lowerIf(cond, other)
    PROVE  Lowers'
<1> DEFINE N == Len(blocks)
           x == IF other = "none" THEN N + 3 ELSE N + 2
           e == IF other = "none" THEN 0 ELSE N + 2
           l == IF other = "elif" THEN 1 ELSE 0
           extra == IF other = "none" THEN {N + 1, N + 3} ELSE {N + 1, N + 2, N + 3}
           term == Branch(cond, N + 1, x)
           code == Extended(blocks, current, 3, term)
           scope == Scope("then", N + 3, e, l)
<1>1. /\ current \in live => blocks[current].nest = ScopesOf(want[current])
      /\ blocks \in Code /\ current \in DOMAIN blocks /\ N \in Nat /\ DOMAIN blocks = 1..N
  BY LoweredFacts
<1>2. /\ blocks[current].term = None /\ loops' = loops
      /\ BeginBlock(code, N + 1, scope, scopes, cleanups, pending)
  BY DEF lowerIf, Open, Extended
<1>3. /\ x \in {N + 2, N + 3} /\ e \in {0, N + 2} /\ l \in {0, 1} /\ (l = 1 => e # 0)
      /\ extra \subseteq {N + 1, N + 2, N + 3} /\ {N + 1, x, N + 3} \subseteq extra
      /\ (e # 0 => e \in extra) /\ (N + 2 \in extra => e = N + 2)
      /\ x \in Nat /\ e \in Nat /\ l \in Nat /\ N + 3 \in Nat
  BY <1>1
<1> HIDE DEF x, e, l, extra
<1>4. term \in Terms /\ term # None /\ Targets(term) = {N + 1, x}
  <2> HIDE DEF N
  <2> QED
    BY <1>1, <1>3, TermTargets
<1> HIDE DEF term
<1>5. IsExtended(code, blocks, current, 3, term)
  BY <1>1, <1>4, ExtendedIs
<1> HIDE DEF code
<1>6. /\ code \in Code /\ Len(code) = N + 3 /\ DOMAIN code = 1..(N + 3)
      /\ \A b \in DOMAIN blocks \ {current} : code[b] = blocks[b]
      /\ code[current].insts = blocks[current].insts /\ code[current].nest = blocks[current].nest
      /\ code[current].term = term
      /\ \A b \in (N + 1)..(N + 3) : code[b] = newBlock
  <2>1. code \in Code /\ Len(code) = N + 3
    BY <1>5 DEF IsExtended
  <2> QED
    BY <1>5, <2>1, CodeDomain DEF IsExtended
<1>7. /\ scope \in ScopeRecords /\ scope.part = "then" /\ scope.after = N + 3 /\ scope.other = e
      /\ scope.left = l /\ AwaitedBy(scope) = {N + 3, e} \ {0}
  <2>1. "then" \in Parts
    BY DEF Parts
  <2> HIDE DEF N
  <2> QED
    <3>1. e \in Nat /\ l \in Nat /\ N + 3 \in Nat
      BY <1>3
    <3>2. scope = Scope("then", N + 3, e, l)
      OBVIOUS
    <3> HIDE DEF scope
    <3> QED
      BY <2>1, <3>1, <3>2, ScopeIs
<1> HIDE DEF scope, N
<1>8. DOMAIN code \ DOMAIN blocks = {N + 1, N + 2, N + 3}
  <2>1. \A b \in 1..(N + 3) : b \notin 1..N => b \in {N + 1, N + 2, N + 3}
    BY <1>1
  <2>2. \A b \in {N + 1, N + 2, N + 3} : b \in 1..(N + 3) /\ b \notin 1..N
    BY <1>1
  <2> QED
    BY <1>1, <1>6, <2>1, <2>2
<1>9. extra \in SUBSET (DOMAIN code \ DOMAIN blocks)
  BY <1>3, <1>8
<1>10. \A b \in {N + 1, N + 2, N + 3} : code[b].insts = <<>> /\ code[b].term = None
  <2>1. \A b \in {N + 1, N + 2, N + 3} : b \in (N + 1)..(N + 3)
    BY <1>1
  <2> QED
    BY <1>6, <2>1, NewBlock
<1>11. Shape(code, scope)
  <2>1. N + 3 \in DOMAIN code /\ e \in DOMAIN code \cup {0} /\ e # N + 3 /\ "then" \in Parts
    BY <1>1, <1>3, <1>6 DEF Parts
  <2>2. e # 0 => code[e].term = None
    BY <1>3, <1>10
  <2>3. l > 0 => e # 0
    BY <1>3
  <2>4. code[N + 3].term = None
    BY <1>10
  <2> QED
    BY <1>7, <2>1, <2>2, <2>3, <2>4 DEF Shape
<1>12. Constructed(blocks, code, current, want, live, scopes, {current}, scope, N + 1, extra)
  <2>1. Len(blocks) <= Len(code)
    BY <1>1, <1>6 DEF N
  <2>2. N + 1 \notin AwaitedBy(scope) /\ AwaitedBy(scope) \subseteq extra
    BY <1>1, <1>3, <1>7
  <2>3. Targets(None) = {} /\ N + 1 \in extra
    BY <1>3, TermTargets
  <2>4. extra \subseteq {N + 1} \cup AwaitedBy(scope)
    BY <1>1, <1>3, <1>7
  <2> QED
    BY <1>1, <1>3, <1>4, <1>6, <1>7, <1>8, <1>10, <1>11, <2>1, <2>2, <2>3, <2>4 DEF Constructed
<1>13. loops' = LoopsInside(loops, scope, cleanups, scopes)
  BY <1>2, <1>7 DEF LoopsInside
<1> QED
  BY <1>2, <1>6, <1>7, <1>9, <1>12, <1>13, ConstructLowers

\* The blocks of a loop: the header, the body, the step and the exit.
Looped(cond, n) ==
  LET N == Len(blocks)
      nest == InScopes(scopes)
      code == Seal(Seal(Nested(Grow(blocks, n), N + 1, nest), current, Jump(N + 1)),
                   N + 1, Branch(cond, N + 2, N + n))
  IN IF n = 4 THEN Seal(Nested(code, N + 3, nest), N + 3, Jump(N + 1)) ELSE code

IsLooped(code, cond, n) ==
  LET N == Len(blocks) IN
  /\ code \in Code /\ Len(code) = N + n /\ DOMAIN code = 1..(N + n)
  /\ \A b \in DOMAIN blocks \ {current} : code[b] = blocks[b]
  /\ code[current].insts = blocks[current].insts /\ code[current].nest = blocks[current].nest
  /\ code[current].term = Jump(N + 1)
  /\ \A b \in (N + 1)..(N + n) : code[b].insts = <<>>
  /\ code[N + 1].nest = InScopes(scopes) /\ code[N + 1].term = Branch(cond, N + 2, N + n)
  /\ code[N + 2].term = None /\ code[N + n].term = None
  /\ n = 4 => code[N + 3].nest = InScopes(scopes) /\ code[N + 3].term = Jump(N + 1)

LEMMA LoopedIs ==
    ASSUME blocks \in Code, current \in DOMAIN blocks, InScopes(scopes) \in Seq(Places),
           NEW cond \in Conds, NEW n \in {3, 4}
    PROVE  IsLooped(Looped(cond, n), cond, n)
<1> DEFINE N == Len(blocks)
           nest == InScopes(scopes)
           c0 == Grow(blocks, n)
           c1 == Nested(c0, N + 1, nest)
           c2 == Seal(c1, current, Jump(N + 1))
           c3 == Seal(c2, N + 1, Branch(cond, N + 2, N + n))
           c4 == Nested(c3, N + 3, nest)
           c5 == Seal(c4, N + 3, Jump(N + 1))
<1>1. /\ N \in Nat /\ n \in Nat /\ DOMAIN blocks = 1..N /\ current \in 1..N
      /\ N + 1 # current /\ N + 2 # current /\ N + 3 # current /\ N + n # current
  BY CodeDomain
<1>2. /\ Jump(N + 1) \in Terms /\ Branch(cond, N + 2, N + n) \in Terms
  <2>1. N + 1 \in Nat /\ N + 2 \in Nat /\ N + n \in Nat
    BY <1>1
  <2> HIDE DEF N
  <2> QED
    BY <2>1, TermTargets
<1>3. /\ c0 \in Code /\ Len(c0) = N + n /\ DOMAIN c0 = 1..(N + n)
      /\ \A b \in 1..N : c0[b] = blocks[b]
      /\ \A b \in (N + 1)..(N + n) : c0[b].insts = <<>> /\ c0[b].term = None
  <2>1. c0 \in Code /\ Len(c0) = N + n
    BY <1>1, GrowIs
  <2> QED
    <3>1. /\ \A b \in 1..N : c0[b] = blocks[b]
          /\ \A b \in (N + 1)..(N + n) : c0[b] = newBlock
      BY <1>1, GrowIs
    <3> HIDE DEF c0, N
    <3> QED
      BY <2>1, <3>1, NewBlock, CodeDomain
<1> HIDE DEF N, c0, nest
<1>4. /\ N + 1 \in 1..(N + n) /\ N + 3 \in 1..(N + n) /\ current \in 1..(N + n)
      /\ N + 1 \in (N + 1)..(N + n) /\ N + 2 \in (N + 1)..(N + n) /\ N + 3 \in (N + 1)..(N + n)
      /\ N + n \in (N + 1)..(N + n) /\ N + 2 \in 1..(N + n) /\ N + n \in 1..(N + n)
      /\ \A b \in (N + 1)..(N + n) : b \in 1..(N + n) /\ b # current
      /\ \A b \in 1..N : b \in 1..(N + n) /\ b # N + 1 /\ b # N + 3
      /\ N + n # N + 1 /\ N + n # N + 2 /\ N + 2 # N + 1 /\ N + 3 # N + 1 /\ N + 3 # N + 2
      /\ n = 4 => N + n # N + 3
  BY <1>1
<1>5. /\ c1 \in Code /\ Len(c1) = N + n /\ DOMAIN c1 = 1..(N + n)
      /\ \A b \in 1..(N + n) : b # N + 1 => c1[b] = c0[b]
      /\ c1[N + 1].insts = c0[N + 1].insts /\ c1[N + 1].nest = nest
  <2>1. nest \in Seq(Places)
    BY DEF nest
  <2>2. N + 1 \in DOMAIN c0
    BY <1>3, <1>4
  <2>3. c1 \in Code /\ Len(c1) = N + n
    BY <1>3, <2>1, <2>2, NestIs
  <2> QED
    BY <1>3, <2>1, <2>2, <2>3, NestIs, CodeDomain
<1> HIDE DEF c1
<1>6. /\ c2 \in Code /\ Len(c2) = N + n /\ DOMAIN c2 = 1..(N + n)
      /\ \A b \in 1..(N + n) : b # current => c2[b] = c1[b]
      /\ c2[current].insts = c1[current].insts /\ c2[current].nest = c1[current].nest
      /\ c2[current].term = Jump(N + 1)
  <2>1. current \in DOMAIN c1
    BY <1>4, <1>5
  <2>2. c2 \in Code /\ Len(c2) = N + n
    BY <1>2, <1>5, <2>1, SealIs
  <2> QED
    BY <1>2, <1>5, <2>1, <2>2, SealIs, CodeDomain
<1> HIDE DEF c2
<1>7. /\ c3 \in Code /\ Len(c3) = N + n /\ DOMAIN c3 = 1..(N + n)
      /\ \A b \in 1..(N + n) : b # N + 1 => c3[b] = c2[b]
      /\ c3[N + 1].insts = c2[N + 1].insts /\ c3[N + 1].nest = c2[N + 1].nest
      /\ c3[N + 1].term = Branch(cond, N + 2, N + n)
  <2>1. N + 1 \in DOMAIN c2
    BY <1>4, <1>6
  <2>2. c3 \in Code /\ Len(c3) = N + n
    BY <1>2, <1>6, <2>1, SealIs
  <2> QED
    BY <1>2, <1>6, <2>1, <2>2, SealIs, CodeDomain
<1> HIDE DEF c3
<1>8. /\ \A b \in 1..N : b # current => c3[b] = blocks[b]
      /\ c3[current].insts = blocks[current].insts /\ c3[current].nest = blocks[current].nest
      /\ c3[current].term = Jump(N + 1)
      /\ \A b \in (N + 1)..(N + n) : c3[b].insts = <<>> /\ (b # N + 1 => c3[b].term = None)
      /\ c3[N + 1].nest = nest /\ c3[N + 1].term = Branch(cond, N + 2, N + n)
  <2>1. \A b \in 1..N : b # current => c3[b] = blocks[b]
    BY <1>3, <1>4, <1>5, <1>6, <1>7
  <2>2. c3[current] = c2[current] /\ c1[current] = blocks[current]
    BY <1>1, <1>3, <1>4, <1>5, <1>7
  <2>3. ASSUME NEW b \in (N + 1)..(N + n), b # N + 1
        PROVE  c3[b] = c0[b]
    BY <1>4, <1>5, <1>6, <1>7, <2>3
  <2>4. c3[N + 1].insts = <<>> /\ c3[N + 1].nest = nest
    BY <1>1, <1>3, <1>4, <1>5, <1>6, <1>7
  <2> QED
    BY <1>3, <1>6, <1>7, <2>1, <2>2, <2>3, <2>4
<1>9. CASE n = 3
  <2>1. Looped(cond, n) = c3
    BY <1>9 DEF Looped, c3, c2, c1, c0, N, nest
  <2> QED
    BY <1>1, <1>4, <1>7, <1>8, <1>9, <2>1 DEF IsLooped, N, nest
<1>10. CASE n = 4
  <2>1. Looped(cond, n) = c5
    BY <1>10 DEF Looped, c3, c2, c1, c0, N, nest
  <2>2. /\ c4 \in Code /\ Len(c4) = N + n /\ DOMAIN c4 = 1..(N + n)
        /\ \A b \in 1..(N + n) : b # N + 3 => c4[b] = c3[b]
        /\ c4[N + 3].insts = c3[N + 3].insts /\ c4[N + 3].nest = nest
    <3>1. nest \in Seq(Places)
      BY DEF nest
    <3>2. N + 3 \in DOMAIN c3
      BY <1>4, <1>7
    <3>3. c4 \in Code /\ Len(c4) = N + n
      BY <1>7, <3>1, <3>2, NestIs
    <3> QED
      BY <1>7, <3>1, <3>2, <3>3, NestIs, CodeDomain
  <2> HIDE DEF c4
  <2>3. /\ c5 \in Code /\ Len(c5) = N + n /\ DOMAIN c5 = 1..(N + n)
        /\ \A b \in 1..(N + n) : b # N + 3 => c5[b] = c4[b]
        /\ c5[N + 3].insts = c4[N + 3].insts /\ c5[N + 3].nest = c4[N + 3].nest
        /\ c5[N + 3].term = Jump(N + 1)
    <3>1. N + 3 \in DOMAIN c4
      BY <1>4, <2>2
    <3>2. c5 \in Code /\ Len(c5) = N + n
      BY <1>2, <2>2, <3>1, SealIs
    <3> QED
      BY <1>2, <2>2, <3>1, <3>2, SealIs, CodeDomain
  <2> HIDE DEF c5
  <2>4. \A b \in 1..(N + n) : b # N + 3 => c5[b] = c3[b]
    BY <2>2, <2>3
  <2>5. c5[N + 3].insts = <<>> /\ c5[N + 3].nest = nest
    BY <1>4, <1>8, <2>2, <2>3
  <2>6. /\ \A b \in 1..N : b # current => c5[b] = blocks[b]
        /\ c5[current] = c3[current] /\ c5[N + 1] = c3[N + 1]
        /\ c5[N + 2] = c3[N + 2] /\ c5[N + n] = c3[N + n]
    BY <1>1, <1>4, <1>8, <1>10, <2>4
  <2>7. \A b \in (N + 1)..(N + n) : c5[b].insts = <<>>
    BY <1>4, <1>8, <2>4, <2>5
  <2>8. /\ c5[current].insts = blocks[current].insts /\ c5[current].nest = blocks[current].nest
        /\ c5[current].term = Jump(N + 1)
        /\ c5[N + 1].nest = nest /\ c5[N + 1].term = Branch(cond, N + 2, N + n)
        /\ c5[N + 2].term = None /\ c5[N + n].term = None
    <3>1. c3[N + 2].term = None /\ c3[N + n].term = None
      BY <1>1, <1>4, <1>8, <1>10
    <3> QED
      BY <1>8, <2>6, <3>1
  <2>9. IsLooped(c5, cond, n)
    BY <1>1, <2>3, <2>5, <2>6, <2>7, <2>8 DEF IsLooped, N, nest
  <2> QED
    BY <2>1, <2>9
<1> QED
  BY <1>9, <1>10

LEMMA LoopLowers ==
    ASSUME NEW want, NEW live, NEW base, Lowered(want, live, base), scopes # <<>>,
           NEW cond \in Conds, NEW has_step \in BOOLEAN, lowerLoop(cond, has_step)
    PROVE  Lowers'
<1> DEFINE N == Len(blocks)
           n == IF has_step THEN 4 ELSE 3
           back == IF has_step THEN N + 3 ELSE N + 1
           extra == (N + 1)..(N + n)
           code == Looped(cond, n)
           scope == Scope("loop", N + n, back, 0)
<1>1. /\ current \in live => blocks[current].nest = ScopesOf(want[current])
      /\ blocks \in Code /\ current \in DOMAIN blocks /\ N \in Nat /\ DOMAIN blocks = 1..N
      /\ InScopes(scopes) \in Seq(Places)
  BY LoweredFacts
<1>2. n \in {3, 4} /\ n \in Nat /\ back \in {N + 1, N + 3} /\ back \in Nat /\ N + n \in Nat
      /\ (n = 4 <=> has_step) /\ (n = 4 => back = N + 3) /\ (n = 3 => back = N + 1)
  BY <1>1
<1>3. /\ blocks[current].term = None
      /\ BeginBlock(code, N + 2, scope, scopes, cleanups, pending)
      /\ loops' = Append(loops, [continue_block |-> back, break_block |-> N + n,
                                 cleanup_depth |-> Len(cleanups) + 1, outside |-> Len(scopes)])
  <2>1. /\ (N + 1) + 1 = N + 2 /\ (N + 1) + 2 = N + 3 /\ (N + 1) + 3 = N + 4
        /\ (N + 3) - N = 3 /\ (N + 4) - N = 4
    BY <1>1
  <2>2. CASE has_step
    BY <2>1, <2>2 DEF lowerLoop, Open, Looped, Nested
  <2>3. CASE ~has_step
    BY <2>1, <2>3 DEF lowerLoop, Open, Looped, Nested
  <2> QED
    BY <2>2, <2>3
<1> HIDE DEF n, back
<1>4. IsLooped(code, cond, n)
  BY <1>1, <1>2, LoopedIs
<1> HIDE DEF code
<1>5. /\ code \in Code /\ Len(code) = N + n /\ DOMAIN code = 1..(N + n)
      /\ \A b \in DOMAIN blocks \ {current} : code[b] = blocks[b]
      /\ code[current].insts = blocks[current].insts /\ code[current].nest = blocks[current].nest
      /\ code[current].term = Jump(N + 1)
      /\ \A b \in (N + 1)..(N + n) : code[b].insts = <<>>
      /\ code[N + 1].nest = InScopes(scopes) /\ code[N + 1].term = Branch(cond, N + 2, N + n)
      /\ code[N + 2].term = None /\ code[N + n].term = None
      /\ n = 4 => code[N + 3].nest = InScopes(scopes) /\ code[N + 3].term = Jump(N + 1)
  BY <1>4 DEF IsLooped
<1>6. /\ scope \in ScopeRecords /\ scope.part = "loop" /\ scope.after = N + n /\ scope.other = back
      /\ scope.left = 0 /\ AwaitedBy(scope) = {N + n, back} \ {0}
  <2>1. "loop" \in Parts /\ 0 \in Nat
    BY DEF Parts
  <2> HIDE DEF N
  <2> QED
    <3>1. back \in Nat /\ N + n \in Nat
      BY <1>2
    <3>2. scope = Scope("loop", N + n, back, 0)
      OBVIOUS
    <3> HIDE DEF scope
    <3> QED
      BY <2>1, <3>1, <3>2, ScopeIs
<1>7. /\ Targets(Jump(N + 1)) = {N + 1} /\ Jump(N + 1) # None
      /\ Targets(Branch(cond, N + 2, N + n)) = {N + 2, N + n} /\ Branch(cond, N + 2, N + n) # None
      /\ Targets(None) = {}
  <2>1. N + 1 \in Nat /\ N + 2 \in Nat /\ N + n \in Nat
    BY <1>1, <1>2
  <2> HIDE DEF N
  <2> QED
    BY <2>1, TermTargets
<1> HIDE DEF scope
<1>8. /\ DOMAIN code \ DOMAIN blocks = extra /\ Len(blocks) <= Len(code)
      /\ N + 1 \in extra /\ N + 2 \in extra /\ N + n \in extra /\ back \in extra
      /\ N + 1 # N + 2 /\ N + n # N + 1 /\ N + n # N + 2 /\ back # N + 2 /\ back # N + n
      /\ N + n # 0 /\ back # 0 /\ N + n \in DOMAIN code /\ back \in DOMAIN code
      /\ \A c \in extra : c = N + 1 \/ c = N + 2 \/ c = N + n \/ (n = 4 /\ c = N + 3)
  <2>1. \A b \in 1..(N + n) : b \notin 1..N => b \in extra
    BY <1>1, <1>2
  <2>2. \A b \in extra : b \in 1..(N + n) /\ b \notin 1..N
    BY <1>1, <1>2
  <2>3. DOMAIN code \ DOMAIN blocks = extra
    BY <1>1, <1>5, <2>1, <2>2
  <2> QED
    <3>1. DOMAIN code \ DOMAIN blocks = extra /\ Len(blocks) <= Len(code)
      BY <1>1, <1>2, <1>5, <2>3
    <3>2. /\ N + 1 \in extra /\ N + 2 \in extra /\ N + n \in extra /\ back \in extra
          /\ \A c \in extra : c \in 1..(N + n)
      BY <1>1, <1>2
    <3>3. /\ N + 1 # N + 2 /\ N + n # N + 1 /\ N + n # N + 2 /\ back # N + 2 /\ back # N + n
          /\ N + n # 0 /\ back # 0
      BY <1>1, <1>2
    <3>4. \A c \in extra : c = N + 1 \/ c = N + 2 \/ c = N + n \/ (n = 4 /\ c = N + 3)
      BY <1>1, <1>2
    <3>5. N + n \in DOMAIN code /\ back \in DOMAIN code
      BY <1>5, <3>2
    <3> QED
      BY <3>1, <3>2, <3>3, <3>4, <3>5
<1> HIDE DEF extra, N
<1>9. code[back].term # None
  BY <1>2, <1>5, <1>7
<1>10. Shape(code, scope)
  <2>1. "loop" \in Parts
    BY DEF Parts
  <2> QED
    BY <1>5, <1>6, <1>8, <1>9, <2>1 DEF Shape
<1>11. \A c \in extra :
         /\ code[c].insts = <<>> /\ Targets(code[c].term) \subseteq extra
         /\ code[c].term # None => code[c].nest = InScopes(scopes)
         /\ c \notin {N + 2} \cup AwaitedBy(scope) => code[c].term # None
  <2> SUFFICES ASSUME NEW c \in extra
               PROVE  /\ code[c].insts = <<>> /\ Targets(code[c].term) \subseteq extra
                      /\ code[c].term # None => code[c].nest = InScopes(scopes)
                      /\ c \notin {N + 2} \cup AwaitedBy(scope) => code[c].term # None
    OBVIOUS
  <2>1. code[c].insts = <<>>
    BY <1>5 DEF extra
  <2>2. CASE c = N + 1
    BY <1>5, <1>7, <1>8, <2>1, <2>2
  <2>3. CASE c = N + 2 \/ c = N + n
    BY <1>5, <1>6, <1>7, <1>8, <2>1, <2>3
  <2>4. CASE n = 4 /\ c = N + 3
    BY <1>5, <1>7, <1>8, <2>1, <2>4
  <2> QED
    BY <1>8, <2>2, <2>3, <2>4
<1>12. Constructed(blocks, code, current, want, live, scopes, {current}, scope, N + 2, extra)
  <2>1. N + 2 \notin AwaitedBy(scope) /\ AwaitedBy(scope) \subseteq extra
    BY <1>6, <1>8
  <2>2. \A c \in DOMAIN code \ DOMAIN blocks :
          /\ code[c].insts = <<>> /\ Targets(code[c].term) \subseteq extra
          /\ c \in extra /\ code[c].term # None => code[c].nest = InScopes(scopes)
          /\ c \in extra \ ({N + 2} \cup AwaitedBy(scope)) => code[c].term # None
    BY <1>8, <1>11
  <2> QED
    BY <1>1, <1>5, <1>6, <1>7, <1>8, <1>10, <2>1, <2>2 DEF Constructed
<1>13. loops' = LoopsInside(loops, scope, cleanups, scopes)
  BY <1>3, <1>6 DEF LoopsInside
<1>14. extra \in SUBSET (DOMAIN code \ DOMAIN blocks)
  BY <1>8
<1> QED
  BY <1>3, <1>5, <1>6, <1>12, <1>13, <1>14, ConstructLowers

\* What a block does, it does in the code that follows.
LEMMA GoodKept ==
    ASSUME NEW old, NEW want, NEW live, NEW want2, NEW live2, Continues(old, want, live, want2, live2),
           NEW b \in DOMAIN old, Good(old[b], want, live, b), Targets(old[b].term) \subseteq DOMAIN old
    PROVE  Good(old[b], want2, live2, b)
<1>1. PICK u \in States : /\ Leads(old[b].insts, want[b], u)
                          /\ \A x \in Targets(old[b].term) : x \in live /\ want[x] = u
  BY DEF Good
<1>2. /\ want2[b] = want[b]
      /\ \A x \in Targets(old[b].term) : x \in live2 /\ want2[x] = u
  BY <1>1 DEF Continues
<1> QED
  BY <1>1, <1>2 DEF Good

\* A case of a `when`: the body is a new block, and so is the next condition, if
\* there is one.
Cased(old, chain, merge, left, has_default, nest) ==
  LET body == Len(old) + 1
      next == IF left = 1 THEN merge ELSE body + 1
      term == IF left = 1 /\ has_default THEN Jump(body) ELSE Branch("opaque", body, next)
  IN Nested(Extended(old, chain, IF left = 1 THEN 1 ELSE 2, term), chain, nest)
NextCase(old, merge, left) == IF left = 1 THEN merge ELSE Len(old) + 2
CaseScope(old, merge, left, has_default) ==
  Scope(IF has_default THEN "case" ELSE "open", merge, NextCase(old, merge, left), left - 1)

IsCased(code, old, chain, merge, left, nest) ==
  LET N == Len(old) IN
  /\ code \in Code /\ Len(code) = (IF left = 1 THEN N + 1 ELSE N + 2)
  /\ DOMAIN code = 1..Len(code)
  /\ \A b \in DOMAIN old \ {chain} : code[b] = old[b]
  /\ code[chain].insts = old[chain].insts /\ code[chain].nest = nest
  /\ code[chain].term # None
  /\ Targets(code[chain].term) \subseteq {N + 1, NextCase(old, merge, left)}
  /\ \A b \in (N + 1)..Len(code) : code[b] = newBlock

LEMMA CasedIs ==
    ASSUME NEW old \in Code, NEW chain \in DOMAIN old, NEW merge \in DOMAIN old,
           NEW left \in Nat \ {0}, NEW has_default \in BOOLEAN, NEW nest \in Seq(Places)
    PROVE  IsCased(Cased(old, chain, merge, left, has_default, nest), old, chain, merge, left, nest)
<1> DEFINE N == Len(old)
           n == IF left = 1 THEN 1 ELSE 2
           next == NextCase(old, merge, left)
           term == IF left = 1 /\ has_default THEN Jump(N + 1) ELSE Branch("opaque", N + 1, next)
           head == Extended(old, chain, n, term)
           code == Nested(head, chain, nest)
<1>1. N \in Nat /\ DOMAIN old = 1..N /\ n \in Nat /\ chain \in 1..N /\ merge \in Nat
  BY CodeDomain
<1>2. next \in Nat /\ N + 1 \in Nat /\ (N + 1) + 1 = N + 2
  BY <1>1 DEF NextCase
<1>3. Cased(old, chain, merge, left, has_default, nest) = code
  BY <1>2 DEF Cased, NextCase
<1> HIDE DEF next, N
<1>4. term \in Terms /\ term # None /\ Targets(term) \subseteq {N + 1, next}
  BY <1>2, TermTargets DEF Conds
<1> HIDE DEF term
<1>5. IsExtended(head, old, chain, n, term)
  BY <1>1, <1>4, ExtendedIs
<1> HIDE DEF head
<1>6. /\ head \in Code /\ Len(head) = N + n /\ DOMAIN head = 1..(N + n)
      /\ \A b \in DOMAIN old \ {chain} : head[b] = old[b]
      /\ head[chain].insts = old[chain].insts /\ head[chain].term = term
      /\ \A b \in (N + 1)..(N + n) : head[b] = newBlock
  <2>1. head \in Code /\ Len(head) = N + n
    BY <1>5 DEF IsExtended, N
  <2> QED
    BY <1>5, <2>1, CodeDomain DEF IsExtended, N
<1>7. chain \in DOMAIN head /\ \A b \in 1..N : b \in DOMAIN head
  BY <1>1, <1>6
<1>8. /\ code \in Code /\ Len(code) = N + n /\ DOMAIN code = 1..(N + n)
      /\ \A b \in DOMAIN head \ {chain} : code[b] = head[b]
      /\ code[chain].insts = head[chain].insts /\ code[chain].term = head[chain].term
      /\ code[chain].nest = nest
  <2>1. code \in Code /\ Len(code) = N + n
    BY <1>6, <1>7, NestIs
  <2> QED
    BY <1>6, <1>7, <2>1, NestIs, CodeDomain
<1> HIDE DEF code
<1>9. /\ \A b \in DOMAIN old \ {chain} : code[b] = old[b]
      /\ \A b \in (N + 1)..(N + n) : code[b] = newBlock
  <2>1. \A b \in (N + 1)..(N + n) : b \in DOMAIN head /\ b # chain
    BY <1>1, <1>6
  <2> QED
    BY <1>1, <1>6, <1>7, <1>8, <2>1
<1>10. N + n = (IF left = 1 THEN N + 1 ELSE N + 2)
  OBVIOUS
<1> HIDE DEF n
<1> QED
  BY <1>3, <1>4, <1>6, <1>8, <1>9, <1>10 DEF IsCased, N, next

\* In hole lies the block of the condition, and the one behind the `when`.
\* The chain has come to another case, at the block `chain`.
MayCase(old, want, live, base, scs, lps, frames, waits, chain, merge, left, has_default) ==
  /\ Around(old, want, live, base, scs, lps, frames, waits, {chain, merge}) /\ scs # <<>>
  /\ Poised(old, chain, want, live, scs, frames, waits, {chain, merge}) /\ merge # chain
  /\ old[merge].term = None /\ left \in Nat \ {0} /\ has_default \in BOOLEAN /\ current \in DOMAIN old
  /\ chain \in live => (IF chain = current THEN old[chain].nest ELSE InScopes(scs)) = ScopesOf(want[chain])
  /\ BeginCase(old, chain, merge, left, has_default, scs, frames, waits) /\ loops' = lps

LEMMA CaseBegins ==
    ASSUME NEW old, NEW want, NEW live, NEW base, NEW scs, NEW lps, NEW frames, NEW waits,
           NEW chain, NEW merge, NEW left, NEW has_default,
           MayCase(old, want, live, base, scs, lps, frames, waits, chain, merge, left, has_default)
    PROVE  Lowers'
<1>0. /\ Around(old, want, live, base, scs, lps, frames, waits, {chain, merge}) /\ scs # <<>>
      /\ Poised(old, chain, want, live, scs, frames, waits, {chain, merge}) /\ merge # chain
      /\ old[merge].term = None /\ left \in Nat \ {0} /\ has_default \in BOOLEAN /\ current \in DOMAIN old
      /\ chain \in live => (IF chain = current THEN old[chain].nest ELSE InScopes(scs)) = ScopesOf(want[chain])
      /\ BeginCase(old, chain, merge, left, has_default, scs, frames, waits) /\ loops' = lps
  BY DEF MayCase
<1> USE <1>0
<1> DEFINE nest == IF chain = current THEN old[chain].nest ELSE InScopes(scs)
           code == Cased(old, chain, merge, left, has_default, nest)
           N == Len(old)
           scope == CaseScope(old, merge, left, has_default)
           next == NextCase(old, merge, left)
           extra == (N + 1)..Len(code)
           s == ScopeAt(scope, EntryOf(code, N + 1))
           base2 == Based(base, scs, frames)
<1>1. /\ old \in Code /\ want \in [DOMAIN old -> States] /\ live \in SUBSET DOMAIN old
      /\ chain \in DOMAIN old /\ merge \in DOMAIN old /\ scs \in Seq(ScopeRecords)
      /\ waits \in Seq(Seq(Places)) /\ Len(waits) = Len(scs)
      /\ N \in Nat /\ DOMAIN old = 1..N
  <2>1. /\ old \in Code /\ want \in [DOMAIN old -> States] /\ live \in SUBSET DOMAIN old
        /\ chain \in DOMAIN old /\ merge \in DOMAIN old /\ scs \in Seq(ScopeRecords)
        /\ waits \in Seq(Seq(Places)) /\ Len(waits) = Len(scs)
    BY BuiltFacts
  <2> QED
    BY <2>1, CodeDomain
<1>2. InScopes(scs) \in Seq(Places) /\ nest \in Seq(Places)
  <2>1. InScopes(scs) \in Seq(Places)
    BY <1>1, DueIs
  <2>2. old[chain] \in BlockRecords
    BY <1>1, CodeDomain
  <2>3. old[chain].nest \in Seq(Places)
    BY <2>2 DEF BlockRecords
  <2> QED
    BY <2>1, <2>3
<1>3. BeginBlock(code, N + 1, scope, scs, frames, waits)
  <2>1. (N + 1) + 1 = N + 2
    BY <1>1
  <2>2. \A head : [head EXCEPT ![chain].nest = IF chain = current THEN @ ELSE InScopes(scs)]
                   = Nested(head, chain, IF chain = current THEN head[chain].nest ELSE InScopes(scs))
    BY DEF Nested
  <2> DEFINE term == IF left = 1 /\ has_default THEN Jump(N + 1)
                     ELSE Branch("opaque", N + 1, IF left = 1 THEN merge ELSE N + 2)
             head == Extended(old, chain, IF left = 1 THEN 1 ELSE 2, term)
  <2>3. term \in Terms
    <3>1. N + 1 \in Nat /\ N + 2 \in Nat /\ merge \in Nat
      BY <1>1
    <3> HIDE DEF N
    <3> QED
      BY <3>1, TermTargets DEF Conds
  <2>4. head[chain].nest = old[chain].nest
    <3>1. (IF left = 1 THEN 1 ELSE 2) \in Nat
      OBVIOUS
    <3> HIDE DEF term
    <3>2. IsExtended(head, old, chain, IF left = 1 THEN 1 ELSE 2, term)
      BY <1>1, <2>3, <3>1, ExtendedIs
    <3> QED
      BY <3>2 DEF IsExtended
  <2>5. code = Nested(head, chain, nest)
    BY <2>1 DEF Cased
  <2>6. code = [head EXCEPT ![chain].nest = IF chain = current THEN @ ELSE InScopes(scs)]
    BY <2>2, <2>4, <2>5
  <2>7. head = Seal(Grow(old, IF left = 1 THEN 1 ELSE 2), chain, term)
    BY DEF Extended
  <2>8. BeginBlock([Seal(Grow(old, IF left = 1 THEN 1 ELSE 2), chain, term)
                      EXCEPT ![chain].nest = IF chain = current THEN @ ELSE InScopes(scs)],
                   N + 1, scope, scs, frames, waits)
    BY <2>1 DEF BeginCase, CaseScope, NextCase
  <2> HIDE DEF head, term, code, scope, N
  <2> QED
    BY <2>6, <2>7, <2>8
<1> HIDE DEF nest
<1>4. IsCased(code, old, chain, merge, left, nest)
  BY <1>1, <1>2, CasedIs
<1> HIDE DEF code
<1>5. /\ code \in Code /\ Len(code) = (IF left = 1 THEN N + 1 ELSE N + 2)
      /\ DOMAIN code = 1..Len(code)
      /\ \A b \in DOMAIN old \ {chain} : code[b] = old[b]
      /\ code[chain].insts = old[chain].insts /\ code[chain].nest = nest
      /\ code[chain].term # None /\ Targets(code[chain].term) \subseteq {N + 1, next}
      /\ \A b \in (N + 1)..Len(code) : code[b] = newBlock
  BY <1>4 DEF IsCased
<1>6. /\ next \in Nat /\ next # N + 1 /\ next # 0 /\ next \in DOMAIN code
      /\ (left = 1 /\ next = merge) \/ (left # 1 /\ next = N + 2 /\ next \in extra)
      /\ N + 1 \in extra /\ N + 1 \notin DOMAIN old /\ merge # N + 1 /\ merge \in DOMAIN code
      /\ \A c \in extra : c = N + 1 \/ c = next
      /\ Len(old) <= Len(code) /\ DOMAIN code \ DOMAIN old = extra /\ N + 1 \in DOMAIN code
  <2>1. \A b \in 1..Len(code) : b \notin 1..N => b \in extra
    BY <1>1, <1>5
  <2>2. \A b \in extra : b \in 1..Len(code) /\ b \notin 1..N
    BY <1>1, <1>5
  <2>3. DOMAIN code \ DOMAIN old = extra
    BY <1>1, <1>5, <2>1, <2>2
  <2>4. (left = 1 /\ next = merge /\ Len(code) = N + 1) \/ (left # 1 /\ next = N + 2 /\ Len(code) = N + 2)
    <3>1. CASE left = 1
      BY <1>5, <3>1 DEF NextCase
    <3>2. CASE left # 1
      BY <1>5, <3>2 DEF NextCase
    <3> QED
      BY <3>1, <3>2
  <2>5. merge \in 1..N
    BY <1>1
  <2> HIDE DEF next
  <2>6. \A c \in extra : c = N + 1 \/ c = next
    <3>1. \A n \in Nat : /\ \A c \in (n + 1)..(n + 1) : c = n + 1
                         /\ \A c \in (n + 1)..(n + 2) : c = n + 1 \/ c = n + 2
      OBVIOUS
    <3>2. CASE left = 1
      BY <1>1, <2>4, <3>1, <3>2
    <3>3. CASE left # 1
      BY <1>1, <2>4, <3>1, <3>3
    <3> QED
      BY <3>2, <3>3
  <2>7. /\ next \in Nat /\ next # N + 1 /\ next # 0 /\ next \in 1..Len(code)
        /\ N + 1 \in 1..Len(code) /\ merge \in 1..Len(code) /\ N + 1 \notin 1..N /\ merge # N + 1
        /\ N <= Len(code) /\ N + 1 \in extra /\ (next = N + 2 => next \in extra)
    BY <1>1, <2>4, <2>5
  <2> HIDE DEF extra
  <2> QED
    BY <1>1, <1>5, <2>3, <2>4, <2>6, <2>7
<1>7. /\ scope \in ScopeRecords /\ scope.part \in {"case", "open"} /\ scope.after = merge
      /\ scope.other = next /\ scope.left = left - 1 /\ AwaitedBy(scope) = {merge, next}
  <2> DEFINE part == IF has_default THEN "case" ELSE "open"
             rest == left - 1
  <2>1. part \in {"case", "open"} /\ part \in Parts /\ rest \in Nat /\ merge \in Nat /\ merge # 0
    BY <1>1 DEF Parts
  <2> HIDE DEF next
  <2>5. next \in Nat /\ next # 0
    BY <1>6
  <2>2. scope = Scope(part, merge, next, rest)
    BY DEF CaseScope, next
  <2> HIDE DEF scope, part, rest
  <2>3. /\ scope \in ScopeRecords /\ scope.part = part
        /\ scope.after = merge /\ scope.other = next /\ scope.left = rest
        /\ AwaitedBy(scope) = {merge, next} \ {0}
    BY <2>1, <2>2, <2>5, ScopeIs
  <2>4. rest = left - 1
    BY DEF rest
  <2> QED
    BY <2>1, <2>3, <2>4, <2>5
<1> HIDE DEF scope, next, extra, N
<1>8. \A c \in extra : code[c].insts = <<>> /\ code[c].term = None
  BY <1>5, NewBlock DEF extra
<1>9. Shape(code, scope)
  <2>1. "case" \in Parts /\ "open" \in Parts
    BY DEF Parts
  <2>2. scope.left > 0 => left # 1
    BY <1>7
  <2>3. next # merge => code[next].term = None
    BY <1>6, <1>8
  <2>4. left # 1 => next # merge
    BY <1>1, <1>6 DEF extra, N
  <2>5. scope.left = 0 => next = merge
    BY <1>6, <1>7
  <2>6. code[merge].term = None
    BY <1>1, <1>5
  <2> QED
    BY <1>6, <1>7, <2>1, <2>2, <2>3, <2>4, <2>5, <2>6 DEF Shape
<1>10. Constructed(old, code, chain, want, live, scs, {chain, merge}, scope, N + 1, extra)
  <2>1. Targets(None) = {}
    BY TermTargets
  <2>2. Targets(code[chain].term) \subseteq extra \cup ({chain, merge} \ {chain})
    BY <1>5, <1>6
  <2>3. \A c \in DOMAIN code \ DOMAIN old :
          /\ code[c].insts = <<>> /\ Targets(code[c].term) \subseteq extra
          /\ c \in extra /\ code[c].term # None => code[c].nest = InScopes(scs)
          /\ c \in extra \ ({N + 1} \cup AwaitedBy(scope)) => code[c].term # None
    BY <1>6, <1>7, <1>8, <2>1
  <2>4. /\ N + 1 \notin AwaitedBy(scope) /\ {chain, merge} \ {chain} \subseteq AwaitedBy(scope)
        /\ AwaitedBy(scope) \subseteq extra \cup ({chain, merge} \ {chain})
    BY <1>6, <1>7
  <2>5. chain \in live => code[chain].nest = ScopesOf(want[chain])
    BY <1>5 DEF nest
  <2>6. scope.part # "body"
    BY <1>7
  <2> QED
    BY <1>5, <1>6, <1>8, <1>9, <2>2, <2>3, <2>4, <2>5, <2>6 DEF Constructed
<1>11. EntryOf(code, N + 1) \in Places
  BY <1>2, <1>5, <1>6, BegunIs
<1>12. LoopsFit(lps, Append(scs, s), base2)
  <2>1. FramesFit(frames, scs, base) /\ LoopsFit(lps, scs, base)
    BY DEF Around
  <2>2. LoopsInside(lps, scope, frames, scs) = lps
    BY <1>7 DEF LoopsInside
  <2> QED
    BY <1>1, <1>7, <1>11, <2>1, <2>2, LoopsInsideIs
<1>13. /\ current' = N + 1 /\ pending' = Append(waits, <<>>) /\ scopes' = Append(scs, s)
       /\ blocks' = Begun(code, N + 1, InScopes(scs)) /\ cleanups' = Framed(frames, scope.part)
  <2>1. N + 1 # current
    BY <1>6
  <2>2. /\ code \in Code /\ N + 1 \in DOMAIN code
        /\ BeginBlock(code, N + 1, scope, scs, frames, waits)
    BY <1>3, <1>5, <1>6
  <2>3. /\ current' = N + 1 /\ pending' = Append(waits, <<>>)
        /\ scopes' = Append(scs, ScopeAt(scope, EntryOf(code, N + 1)))
        /\ blocks' = Begun(code, N + 1, IF N + 1 = current THEN code[N + 1].nest ELSE InScopes(scs))
        /\ cleanups' = Framed(frames, scope.part)
    BY <2>2, BeginIs
  <2> QED
    BY <2>1, <2>3
<1>14. \E want2, live2 : Built(Begun(code, N + 1, InScopes(scs)), N + 1, want2, live2, base2,
                               Append(scs, s), lps, Framed(frames, scope.part), Append(waits, <<>>))
  <2>1. s = ScopeAt(scope, EntryOf(code, N + 1)) /\ extra \in SUBSET (DOMAIN code \ DOMAIN old)
    BY <1>6
  <2> HIDE DEF s
  <2> QED
    BY <1>5, <1>7, <1>10, <1>12, <2>1, Constructs
<1> HIDE DEF s, base2
<1> QED
  BY <1>13, <1>14 DEF Lowers, Lowered

LEMMA WhenLowers ==
    ASSUME NEW want, NEW live, NEW base, Lowered(want, live, base), scopes # <<>>,
           NEW cases \in Nat \ {0}, NEW has_default \in BOOLEAN, lowerWhen(cases, has_default)
    PROVE  Lowers'
<1> DEFINE N == Len(blocks)
           old == Grow(blocks, 1)
           t == Due(scopes, pending)
           want2 == Prolonged(blocks, old, want, t)
           extra == {N + 1}
           live2 == Enlivened(live, current, extra)
           hole == {current, N + 1}
<1>1. /\ Around(blocks, want, live, base, scopes, loops, cleanups, pending, {current})
      /\ current \in live => blocks[current].nest = ScopesOf(want[current])
      /\ Reaches(blocks, current, want, live, scopes, cleanups, pending)
      /\ blocks \in Code /\ current \in DOMAIN blocks /\ N \in Nat /\ DOMAIN blocks = 1..N
      /\ want \in [DOMAIN blocks -> States] /\ live \in SUBSET DOMAIN blocks
      /\ t \in States /\ Awaited(scopes) \subseteq DOMAIN blocks
  BY LoweredFacts
<1>2. /\ blocks[current].term = None /\ loops' = loops
      /\ BeginCase(old, current, N + 1, cases, has_default, scopes, cleanups, pending)
  BY DEF lowerWhen, Open
<1>3. /\ old \in Code /\ Len(old) = N + 1 /\ DOMAIN old = 1..(N + 1)
      /\ \A b \in DOMAIN blocks : old[b] = blocks[b]
      /\ old[N + 1] = newBlock
  <2>1. old \in Code /\ Len(old) = N + 1
    BY <1>1, GrowIs
  <2>2. \A b \in 1..N : old[b] = blocks[b]
    BY <1>1, GrowIs
  <2>3. N + 1 \in (N + 1)..(N + 1)
    BY <1>1
  <2>4. old[N + 1] = newBlock
    BY <1>1, <2>3, GrowIs
  <2> QED
    BY <1>1, <2>1, <2>2, <2>4, CodeDomain
<1> HIDE DEF old, t, N
<1>4. /\ N + 1 \in DOMAIN old /\ N + 1 \notin DOMAIN blocks /\ N + 1 # current
      /\ DOMAIN old \ DOMAIN blocks = {N + 1} /\ DOMAIN blocks \subseteq DOMAIN old
      /\ Len(blocks) <= Len(old)
  BY <1>1, <1>3 DEF N
<1>5. /\ want2 \in [DOMAIN old -> States] /\ live2 \in SUBSET DOMAIN old
      /\ Continues(blocks, want, live, want2, live2)
      /\ want2[N + 1] = t /\ (N + 1 \in live2 <=> current \in live)
      /\ want2[current] = want[current] /\ (current \in live2 <=> current \in live)
      /\ \A b \in DOMAIN blocks : b \in live2 <=> b \in live
  <2>1. Prolongs(blocks, old, want, live, t, current, extra)
    BY <1>1, <1>3, <1>4 DEF Prolongs
  <2>2. /\ want2 \in [DOMAIN old -> States] /\ live2 \in SUBSET DOMAIN old
        /\ Continues(blocks, want, live, want2, live2)
        /\ \A b \in DOMAIN old \ DOMAIN blocks :
             want2[b] = t /\ (b \in live2 <=> current \in live /\ b \in extra)
    <3> HIDE DEF extra
    <3> QED
      BY <2>1, ProlongedIs
  <2> QED
    BY <1>1, <1>4, <2>2 DEF Continues
<1> HIDE DEF want2, live2
<1>6. old[N + 1].insts = <<>> /\ old[N + 1].term = None /\ Targets(None) = {}
  BY <1>3, NewBlock, TermTargets
<1>7. \A b \in hole \cup (DOMAIN old \ DOMAIN blocks) :
        /\ Targets(old[b].term) \subseteq DOMAIN old
        /\ b \in live2 => Good(old[b], want2, live2, b)
        /\ b \in live2 /\ old[b].term # None => old[b].nest = ScopesOf(want2[b])
        /\ b \in live2 \ hole => old[b].term # None
  <2>1. ASSUME current \in live
        PROVE  Good(old[current], want2, live2, current)
    <3>1. Good(blocks[current], want, live, current) /\ Targets(blocks[current].term) \subseteq DOMAIN blocks
      BY <1>1, <2>1, BuiltFacts
    <3> QED
      BY <1>1, <1>3, <1>5, <3>1, GoodKept
  <2>2. N + 1 \in live2 => Good(old[N + 1], want2, live2, N + 1)
    <3>1. Leads(<<>>, t, t)
      BY <1>1, LeadsNowhere
    <3> QED
      BY <1>1, <1>5, <1>6, <3>1 DEF Good
  <2>3. old[current].term = None
    BY <1>1, <1>2, <1>3
  <2> QED
    BY <1>4, <1>5, <1>6, <2>1, <2>2, <2>3
<1>8. Around(old, want2, live2, base, scopes, loops, cleanups, pending, hole)
  <2>1. Rewrites(blocks, old, {current})
    <3>1. Rewrites(blocks, blocks, {current})
      BY <1>1, SameCode
    <3> QED
      BY <1>1, <1>3, <1>4, <3>1 DEF Rewrites
  <2>2. hole \in SUBSET DOMAIN old /\ hole \cap (DOMAIN blocks \ {current}) = {}
    BY <1>1, <1>4
  <2>3. \A b \in {current} \cup (DOMAIN old \ DOMAIN blocks) :
        /\ Targets(old[b].term) \subseteq DOMAIN old
        /\ b \in live2 => Good(old[b], want2, live2, b)
        /\ b \in live2 /\ old[b].term # None => old[b].nest = ScopesOf(want2[b])
        /\ b \in live2 \ hole => old[b].term # None
    BY <1>7
  <2> HIDE DEF hole
  <2> QED
    BY <1>1, <1>3, <1>5, <2>1, <2>2, <2>3, Rewrite
<1>9. Poised(old, current, want2, live2, scopes, cleanups, pending, hole)
  <2>1. ASSUME current \in live2
        PROVE  /\ Clear(scopes, live2, cleanups)
               /\ Leads(old[current].insts, want2[current], Due(scopes, pending))
    <3>1. /\ \A k \in DOMAIN cleanups : cleanups[k] = <<>>
          /\ Awaited(scopes) \subseteq live
          /\ Leads(blocks[current].insts, want[current], Due(scopes, pending))
      BY <1>1, <1>2, <1>5, <2>1 DEF Reaches
    <3> QED
      BY <1>1, <1>3, <1>5, <3>1 DEF Clear
  <2>2. old[current].term = None
    BY <1>1, <1>2, <1>3
  <2>3. \A c \in hole \ {current} : c = N + 1
    OBVIOUS
  <2> QED
    BY <1>5, <1>6, <2>1, <2>2, <2>3 DEF Poised, t
<1>10. /\ current \in DOMAIN old
       /\ current \in live2 => old[current].nest = ScopesOf(want2[current])
  BY <1>1, <1>3, <1>4, <1>5
<1>11. old[N + 1].term = None
  BY <1>6
<1> HIDE DEF N
<1>12. MayCase(old, want2, live2, base, scopes, loops, cleanups, pending, current, N + 1, cases, has_default)
  BY <1>2, <1>4, <1>8, <1>9, <1>10, <1>11 DEF MayCase
<1> QED
  BY <1>12, CaseBegins

(***************************************************************************)
(* Closing a block.                                                        *)
(***************************************************************************)
\* The block being lowered, with the cleanup behind it.
IsEnded(code) ==
  /\ code \in Code /\ Len(code) = Len(blocks) /\ DOMAIN code = DOMAIN blocks
  /\ \A b \in DOMAIN blocks \ {current} : code[b] = blocks[b]
  /\ code[current].term = blocks[current].term /\ code[current].nest = blocks[current].nest
  /\ Len(code[current].insts) >= Len(blocks[current].insts)
  /\ blocks[current].term # None => code = blocks

LEMMA EndIs ==
    ASSUME NEW want, NEW live, NEW base, Lowered(want, live, base), scopes # <<>>
    PROVE  /\ IsEnded(EndBlock)
           /\ Upto(Len(scopes) - 1, scopes, pending) \in States
           /\ Open /\ current \in live =>
                Leads(EndBlock[current].insts, want[current], Upto(Len(scopes) - 1, scopes, pending))
<1> DEFINE s == Due(scopes, pending)
           d == Last(Flushed(cleanups, pending))
           runs == Runs("run", d)
           out == <<Mark("leave", 1)>>
           mid == Emit(blocks, current, runs)
           code == Emit(mid, current, out)
           t == Upto(Len(scopes) - 1, scopes, pending)
<1>1. /\ Around(blocks, want, live, base, scopes, loops, cleanups, pending, {current})
      /\ Reaches(blocks, current, want, live, scopes, cleanups, pending)
      /\ blocks \in Code /\ current \in DOMAIN blocks /\ blocks[current].insts \in Seq(Insts)
      /\ scopes \in Seq(ScopeRecords) /\ Len(scopes) \in Nat /\ Len(scopes) >= 1
      /\ cleanups \in Seq(Seq(Places)) /\ cleanups # <<>>
      /\ pending \in Seq(Seq(Places)) /\ pending # <<>> /\ Len(pending) = Len(scopes)
  BY LoweredFacts
<1>2. s \in States /\ s # <<>> /\ Last(s).bodies = Last(pending)
  BY <1>1, DueIs
<1>3. d \in Seq(Places) /\ (Last(cleanups) = <<>> => d = Last(pending))
  BY <1>1, FlushIs
<1>4. out \in Seq(Insts) /\ t \in States /\ Cleared(s) \in States /\ Leads(out, Cleared(s), t)
  <2>1. 1 \in 1..Len(scopes)
    BY <1>1
  <2> QED
    BY <1>1, <2>1, LeadsAway
<1>5. runs \in Seq(Insts)
  BY <1>3, RunsIs DEF Ops
<1>6. blocks[current].term # None => EndBlock = blocks
  BY DEF EndBlock, Open
<1>7. blocks[current].term = None => EndBlock = code
  BY DEF EndBlock, Open, flushPendingDefers, Flushed
<1>8. Distinct(Last(pending))
  <2>1. \A i \in DOMAIN pending : Distinct(pending[i])
    BY <1>1 DEF Around, WaitsFit
  <2>2. Len(pending) \in DOMAIN pending
    BY <1>1
  <2> QED
    BY <2>1, <2>2 DEF Last
<1> HIDE DEF d, runs, out, t, s
<1>9. /\ mid \in Code /\ Len(mid) = Len(blocks) /\ DOMAIN mid = DOMAIN blocks
      /\ \A b \in DOMAIN blocks \ {current} : mid[b] = blocks[b]
      /\ mid[current].insts = blocks[current].insts \o runs
      /\ mid[current].term = blocks[current].term /\ mid[current].nest = blocks[current].nest
  <2>1. mid \in Code /\ Len(mid) = Len(blocks)
    BY <1>1, <1>5, EmitIs
  <2> QED
    BY <1>1, <1>5, <2>1, EmitIs, CodeDomain
<1> HIDE DEF mid
<1>10. /\ code \in Code /\ Len(code) = Len(blocks) /\ DOMAIN code = DOMAIN blocks
       /\ \A b \in DOMAIN blocks \ {current} : code[b] = blocks[b]
       /\ code[current].insts = (blocks[current].insts \o runs) \o out
       /\ code[current].term = blocks[current].term /\ code[current].nest = blocks[current].nest
  <2>1. current \in DOMAIN mid
    BY <1>1, <1>9
  <2>2. /\ code \in Code /\ Len(code) = Len(mid)
        /\ \A b \in DOMAIN mid \ {current} : code[b] = mid[b]
        /\ code[current].insts = mid[current].insts \o out
        /\ code[current].term = mid[current].term /\ code[current].nest = mid[current].nest
    BY <1>4, <1>9, <2>1, EmitIs
  <2> HIDE DEF code
  <2>3. DOMAIN code = DOMAIN blocks
    BY <1>1, <1>9, <2>2, CodeDomain
  <2> QED
    BY <1>9, <2>2, <2>3
<1> HIDE DEF code
<1>11. IsEnded(EndBlock)
  <2>1. CASE blocks[current].term = None
    <3>1. Len(code[current].insts) >= Len(blocks[current].insts)
      BY <1>1, <1>4, <1>5, <1>10
    <3> QED
      BY <1>7, <1>10, <2>1, <3>1 DEF IsEnded
  <2>2. CASE blocks[current].term # None
    <3>1. Len(blocks[current].insts) >= Len(blocks[current].insts)
      BY <1>1
    <3> QED
      BY <1>1, <1>6, <2>2, <3>1 DEF IsEnded
  <2> QED
    BY <2>1, <2>2
<1>12. ASSUME Open, current \in live
       PROVE  Leads(EndBlock[current].insts, want[current], t)
  <2>1. /\ \A k \in DOMAIN cleanups : cleanups[k] = <<>>
        /\ Leads(blocks[current].insts, want[current], s)
    BY <1>1, <1>12 DEF Reaches, Open, s
  <2>2. Last(cleanups) = <<>>
    <3>1. Len(cleanups) \in DOMAIN cleanups
      BY <1>1
    <3> QED
      BY <2>1, <3>1 DEF Last
  <2>3. Leads(runs, s, Cleared(s))
    BY <1>2, <1>3, <1>8, <2>2, LeadsRun DEF runs
  <2>4. Leads(blocks[current].insts \o runs, want[current], Cleared(s))
    BY <1>1, <1>5, <2>1, <2>3, LeadsOn
  <2>5. blocks[current].insts \o runs \in Seq(Insts)
    BY <1>1, <1>5
  <2>6. Leads((blocks[current].insts \o runs) \o out, want[current], t)
    BY <1>4, <2>4, <2>5, LeadsOn
  <2> QED
    BY <1>7, <1>10, <1>12, <2>6 DEF Open
<1> QED
  BY <1>4, <1>11, <1>12 DEF t

LEMMA UptoFront ==
    ASSUME NEW scs \in Seq(ScopeRecords), NEW waits \in Seq(Seq(Places)), Len(waits) = Len(scs),
           scs # <<>>
    PROVE  Upto(Len(scs) - 1, scs, waits) = Due(Front(scs), Front(waits))
<1>1. /\ Len(Front(scs)) = Len(scs) - 1
      /\ \A i \in 1..(Len(scs) - 1) : Front(scs)[i] = scs[i] /\ Front(waits)[i] = waits[i]
  BY DEF Front
<1> QED
  BY <1>1 DEF Due, Upto

\* What is known of the closed block s, and of the code behind it.
Behind(code, want, live, base, s) ==
  LET outer == Front(scopes)  frames == Below(cleanups, s.part)  waits == Front(pending) IN
  /\ Around(code, want, live, Outside(base, scopes), outer, LoopsAround(loops, s.part), frames, waits,
            AwaitedBy(s))
  /\ outer # <<>> /\ s \in ScopeRecords /\ Shape(code, s) /\ Untouched(code, AwaitedBy(s))
  /\ \A b \in AwaitedBy(s) : want[b] = Due(outer, waits)
  /\ AwaitedBy(s) \cap live # {} => AwaitedBy(s) \subseteq live /\ Clear(outer, live, frames)
  /\ current \in DOMAIN code /\ current \notin AwaitedBy(s)

\* A block that the closed one does not await.
LEMMA PopCurrent ==
    ASSUME NEW want, NEW live, NEW base, Lowered(want, live, base), scopes # <<>>,
           NEW s, s = Last(scopes), s.part # "body"
    PROVE  /\ Around(blocks, want, live, Outside(base, scopes), Front(scopes), LoopsAround(loops, s.part),
                     Below(cleanups, s.part), Front(pending), {current} \cup AwaitedBy(s))
           /\ Len(scopes) > 1 /\ Front(scopes) # <<>> /\ Shape(blocks, s) /\ s \in ScopeRecords
           /\ Untouched(blocks, AwaitedBy(s)) /\ current \notin AwaitedBy(s)
           /\ AwaitedBy(s) \subseteq DOMAIN blocks /\ AwaitedBy(s) \subseteq Awaited(scopes)
           /\ \A b \in AwaitedBy(s) : want[b] = Due(Front(scopes), Front(pending))
           /\ AwaitedBy(s) \cap live # {} =>
                AwaitedBy(s) \subseteq live /\ Clear(Front(scopes), live, Below(cleanups, s.part))
<1>1. /\ Around(blocks, want, live, base, scopes, loops, cleanups, pending, {current})
      /\ scopes \in Seq(ScopeRecords) /\ Len(scopes) \in Nat /\ Len(scopes) >= 1
      /\ Awaited(scopes) \subseteq DOMAIN blocks
  BY LoweredFacts
<1>2. Len(scopes) > 1
  <2>1. \A i \in DOMAIN scopes : scopes[i].part = "body" <=> i = 1
    BY <1>1 DEF Around, StackFits
  <2>2. Len(scopes) \in DOMAIN scopes
    BY <1>1
  <2> QED
    BY <1>1, <2>1, <2>2 DEF Last
<1>3. /\ Around(blocks, want, live, Outside(base, scopes), Front(scopes), LoopsAround(loops, s.part),
                Below(cleanups, s.part), Front(pending), {current} \cup AwaitedBy(s))
      /\ Front(scopes) # <<>> /\ Shape(blocks, s) /\ s \in ScopeRecords
      /\ Untouched(blocks, AwaitedBy(s)) /\ AwaitedBy(s) \cap {current} = {}
      /\ \A b \in AwaitedBy(s) : want[b] = Due(Front(scopes), Front(pending))
      /\ AwaitedBy(s) \cap live # {} =>
           /\ AwaitedBy(s) \subseteq live /\ Awaited(Front(scopes)) \subseteq live
           /\ \A k \in DOMAIN Below(cleanups, s.part) : Below(cleanups, s.part)[k] = <<>>
  <2>1. Popped(blocks, want, live, base, scopes, loops, cleanups, pending, {current}, s)
    BY <1>1, <1>2, Pop
  <2> QED
    BY <2>1 DEF Popped
<1>4. AwaitedBy(s) \subseteq Awaited(scopes)
  BY <1>1, AwaitedSplit
<1> QED
  BY <1>1, <1>2, <1>3, <1>4 DEF Clear

LEMMA FallsInto ==
    ASSUME NEW code \in Code, NEW b \in DOMAIN code, NEW target \in Nat
    PROVE  /\ FallInto(code, b, target) \in Code /\ Len(FallInto(code, b, target)) = Len(code)
           /\ DOMAIN FallInto(code, b, target) = DOMAIN code
           /\ \A c \in DOMAIN code \ {b} : FallInto(code, b, target)[c] = code[c]
           /\ FallInto(code, b, target)[b].insts = code[b].insts
           /\ FallInto(code, b, target)[b].nest = code[b].nest
           /\ FallInto(code, b, target)[b].term = IF code[b].term = None THEN Jump(target) ELSE code[b].term
<1>1. CASE code[b].term = None
  <2>1. FallInto(code, b, target) = Seal(code, b, Jump(target))
    BY <1>1 DEF FallInto
  <2>2. Jump(target) \in Terms
    BY TermTargets
  <2>3. Seal(code, b, Jump(target)) \in Code /\ Len(Seal(code, b, Jump(target))) = Len(code)
    BY <2>2, SealIs
  <2>4. DOMAIN Seal(code, b, Jump(target)) = DOMAIN code
    BY <2>3, CodeDomain
  <2> QED
    BY <1>1, <2>1, <2>2, <2>3, <2>4, SealIs
<1>2. CASE code[b].term # None
  BY <1>2 DEF FallInto
<1> QED
  BY <1>1, <1>2

LEMMA Joins ==
    ASSUME NEW want, NEW live, NEW base, Lowered(want, live, base), scopes # <<>>,
           NEW s, s = Last(scopes), s.part \notin {"body", "block"}
    PROVE  /\ Behind(FallInto(EndBlock, current, IF s.part = "loop" THEN s.other ELSE s.after),
                     want, live, base, s)
           /\ FallInto(EndBlock, current, IF s.part = "loop" THEN s.other ELSE s.after) \in Code
<1> DEFINE target == IF s.part = "loop" THEN s.other ELSE s.after
           end == EndBlock
           code == FallInto(end, current, target)
           hole == {current} \cup AwaitedBy(s)
           t == Due(Front(scopes), Front(pending))
<1>1. /\ Reaches(blocks, current, want, live, scopes, cleanups, pending)
      /\ current \in live => blocks[current].nest = ScopesOf(want[current])
      /\ blocks \in Code /\ current \in DOMAIN blocks /\ DOMAIN blocks = 1..Len(blocks)
      /\ Len(blocks) \in Nat
      /\ want \in [DOMAIN blocks -> States] /\ live \in SUBSET DOMAIN blocks
      /\ scopes \in Seq(ScopeRecords) /\ pending \in Seq(Seq(Places)) /\ Len(pending) = Len(scopes)
  BY LoweredFacts
<1>2. /\ Around(blocks, want, live, Outside(base, scopes), Front(scopes), LoopsAround(loops, s.part),
                Below(cleanups, s.part), Front(pending), hole)
      /\ Front(scopes) # <<>> /\ Shape(blocks, s) /\ s \in ScopeRecords
      /\ Untouched(blocks, AwaitedBy(s)) /\ current \notin AwaitedBy(s)
      /\ AwaitedBy(s) \subseteq DOMAIN blocks /\ AwaitedBy(s) \subseteq Awaited(scopes)
      /\ \A b \in AwaitedBy(s) : want[b] = t
      /\ AwaitedBy(s) \cap live # {} =>
           AwaitedBy(s) \subseteq live /\ Clear(Front(scopes), live, Below(cleanups, s.part))
  BY PopCurrent
<1>3. /\ IsEnded(end) /\ t \in States
      /\ Open /\ current \in live => Leads(end[current].insts, want[current], t)
  <2>1. Upto(Len(scopes) - 1, scopes, pending) = t
    BY <1>1, UptoFront
  <2> QED
    BY <2>1, EndIs
<1> HIDE DEF end, t
<1>4. target \in AwaitedBy(s) /\ target \in Nat
  <2>1. /\ s.after \in DOMAIN blocks /\ (s.part = "loop" => s.other # 0)
        /\ s.other \in DOMAIN blocks \cup {0}
    BY <1>2 DEF Shape
  <2>2. s.after # 0 /\ s.after \in Nat /\ s.other \in Nat
    BY <1>1, <2>1
  <2> QED
    BY <2>1, <2>2 DEF AwaitedBy
<1> HIDE DEF target
<1>5. /\ end \in Code /\ Len(end) = Len(blocks) /\ DOMAIN end = DOMAIN blocks
      /\ \A b \in DOMAIN blocks \ {current} : end[b] = blocks[b]
      /\ end[current].term = blocks[current].term /\ end[current].nest = blocks[current].nest
      /\ Len(end[current].insts) >= Len(blocks[current].insts)
      /\ blocks[current].term # None => end = blocks
  BY <1>3 DEF IsEnded
<1>6. /\ code \in Code /\ Len(code) = Len(blocks) /\ DOMAIN code = DOMAIN blocks
      /\ \A b \in DOMAIN blocks \ {current} : code[b] = blocks[b]
      /\ code[current].insts = end[current].insts /\ code[current].nest = blocks[current].nest
      /\ code[current].term = IF blocks[current].term = None THEN Jump(target) ELSE blocks[current].term
  <2>1. current \in DOMAIN end
    BY <1>1, <1>5
  <2>2. /\ code \in Code /\ Len(code) = Len(end) /\ DOMAIN code = DOMAIN end
        /\ \A c \in DOMAIN end \ {current} : code[c] = end[c]
        /\ code[current].insts = end[current].insts /\ code[current].nest = end[current].nest
        /\ code[current].term = IF end[current].term = None THEN Jump(target) ELSE end[current].term
    BY <1>4, <1>5, <2>1, FallsInto
  <2> HIDE DEF code
  <2> QED
    BY <1>5, <2>2
<1> HIDE DEF code
<1>7. Jump(target) # None /\ Targets(Jump(target)) = {target}
  BY <1>4, TermTargets
<1>8. /\ \A b \in DOMAIN blocks : Targets(blocks[b].term) \subseteq DOMAIN blocks
      /\ \A b \in live : Good(blocks[b], want, live, b)
      /\ Placed(blocks, want, live)
  <2>1. Placed(blocks, want, live)
    BY <1>2 DEF Around
  <2> QED
    BY <1>2, <2>1, BuiltFacts
<1>9. /\ Targets(code[current].term) \subseteq DOMAIN code
      /\ current \in live => Good(code[current], want, live, current)
      /\ code[current].term # None
  <2>1. CASE blocks[current].term = None
    <3>1. ASSUME current \in live
          PROVE  Good(code[current], want, live, current)
      <4>1. Leads(code[current].insts, want[current], t)
        BY <1>3, <1>6, <2>1, <3>1 DEF Open
      <4>2. Awaited(scopes) \subseteq live
        BY <1>1, <2>1, <3>1 DEF Reaches
      <4>3. \A x \in Targets(code[current].term) : x \in live /\ want[x] = t
        BY <1>2, <1>4, <1>6, <1>7, <2>1, <4>2
      <4> QED
        BY <1>3, <4>1, <4>3 DEF Good
    <3> QED
      BY <1>2, <1>4, <1>6, <1>7, <2>1, <3>1
  <2>2. CASE blocks[current].term # None
    <3>1. code[current].insts = blocks[current].insts /\ code[current].term = blocks[current].term
      BY <1>5, <1>6, <2>2
    <3>2. current \in live => Good(code[current], want, live, current)
      BY <1>8, <3>1 DEF Good
    <3> QED
      BY <1>1, <1>6, <1>8, <2>2, <3>1, <3>2
  <2> QED
    BY <2>1, <2>2
<1>10. \A b \in AwaitedBy(s) : b \in DOMAIN blocks /\ code[b] = blocks[b]
  BY <1>2, <1>6
<1>11. Around(code, want, live, Outside(base, scopes), Front(scopes), LoopsAround(loops, s.part),
              Below(cleanups, s.part), Front(pending), AwaitedBy(s))
  <2>1. Rewrites(blocks, code, hole)
    <3>1. Len(blocks) <= Len(code)
      BY <1>1, <1>6
    <3>2. \A b \in DOMAIN blocks : /\ blocks[b].term # None => code[b].term # None
                                   /\ Len(blocks[b].insts) <= Len(code[b].insts)
      <4> SUFFICES ASSUME NEW b \in DOMAIN blocks
                   PROVE  /\ blocks[b].term # None => code[b].term # None
                          /\ Len(blocks[b].insts) <= Len(code[b].insts)
        OBVIOUS
      <4>1. blocks[b].insts \in Seq(Insts) /\ code[b].insts \in Seq(Insts)
        BY <1>1, <1>6, CodeDomain
      <4>2. CASE b = current
        BY <1>5, <1>6, <1>9, <4>1, <4>2
      <4>3. CASE b # current
        BY <1>6, <4>1, <4>3
      <4> QED
        BY <4>2, <4>3
    <3> QED
      BY <1>6, <3>1, <3>2 DEF Rewrites
  <2>2. Continues(blocks, want, live, want, live)
    BY DEF Continues
  <2>3. want \in [DOMAIN code -> States] /\ live \in SUBSET DOMAIN code
        /\ AwaitedBy(s) \in SUBSET DOMAIN code /\ AwaitedBy(s) \cap (DOMAIN blocks \ hole) = {}
    BY <1>1, <1>2, <1>6
  <2>4. \A b \in hole \cup (DOMAIN code \ DOMAIN blocks) :
          /\ Targets(code[b].term) \subseteq DOMAIN code
          /\ b \in live => Good(code[b], want, live, b)
          /\ b \in live /\ code[b].term # None => code[b].nest = ScopesOf(want[b])
          /\ b \in live \ AwaitedBy(s) => code[b].term # None
    <3> SUFFICES ASSUME NEW b \in hole
                 PROVE  /\ Targets(code[b].term) \subseteq DOMAIN code
                        /\ b \in live => Good(code[b], want, live, b)
                        /\ b \in live /\ code[b].term # None => code[b].nest = ScopesOf(want[b])
                        /\ b \in live \ AwaitedBy(s) => code[b].term # None
      BY <1>6
    <3>1. CASE b = current
      BY <1>1, <1>6, <1>9, <3>1
    <3>2. CASE b \in AwaitedBy(s)
      BY <1>6, <1>8, <1>10, <3>2 DEF Placed
    <3> QED
      BY <3>1, <3>2
  <2> HIDE DEF hole
  <2> QED
    BY <1>2, <1>6, <2>1, <2>2, <2>3, <2>4, Rewrite
<1>12. Shape(code, s)
  <2>1. s.other # 0 => s.other \in AwaitedBy(s)
    BY DEF AwaitedBy
  <2>2. s.other # 0 => code[s.other] = blocks[s.other]
    BY <1>10, <2>1
  <2>3. s.part = "loop" => s.other # 0
    BY <1>2 DEF Shape
  <2>4. s.after # 0 => code[s.after] = blocks[s.after]
    BY <1>10 DEF AwaitedBy
  <2>5. \A c \in DOMAIN blocks : c # 0
    BY <1>1, CodeDomain
  <2> QED
    BY <1>2, <1>6, <2>2, <2>3, <2>4, <2>5 DEF Shape
<1>13. Untouched(code, AwaitedBy(s))
  BY <1>2, <1>10 DEF Untouched
<1>14. Behind(code, want, live, base, s)
  BY <1>1, <1>2, <1>6, <1>11, <1>12, <1>13 DEF Behind, t
<1> QED
  BY <1>6, <1>14 DEF code, end, target

\* The end of a plain block.
LEMMA CloseBlockLowers ==
    ASSUME NEW want, NEW live, NEW base, Lowered(want, live, base), scopes # <<>>,
           NEW s, s = Last(scopes), s.part = "block",
           blocks' = EndBlock, current' = current, scopes' = Front(scopes),
           cleanups' = Below(cleanups, s.part), pending' = Front(pending),
           loops' = LoopsAround(loops, s.part)
    PROVE  Lowers'
<1> DEFINE code == EndBlock
           base2 == Outside(base, scopes)
           outer == Front(scopes)
           frames == Below(cleanups, s.part)
           waits == Front(pending)
           lps == LoopsAround(loops, s.part)
           t == Due(outer, waits)
<1>1. /\ Reaches(blocks, current, want, live, scopes, cleanups, pending)
      /\ current \in live => blocks[current].nest = ScopesOf(want[current])
      /\ blocks \in Code /\ current \in DOMAIN blocks /\ DOMAIN blocks = 1..Len(blocks)
      /\ Len(blocks) \in Nat
      /\ want \in [DOMAIN blocks -> States] /\ live \in SUBSET DOMAIN blocks
      /\ cleanups \in Seq(Seq(Places)) /\ cleanups # <<>>
      /\ scopes \in Seq(ScopeRecords) /\ pending \in Seq(Seq(Places)) /\ Len(pending) = Len(scopes)
  BY LoweredFacts
<1>2. /\ Around(blocks, want, live, base2, outer, lps, frames, waits, {current} \cup AwaitedBy(s))
      /\ outer # <<>> /\ Shape(blocks, s)
  BY PopCurrent
<1>3. AwaitedBy(s) = {}
  <2>1. s.after = 0 /\ s.other = 0
    BY <1>2 DEF Shape
  <2> QED
    BY <2>1 DEF AwaitedBy
<1>4. /\ IsEnded(code) /\ t \in States
      /\ Open /\ current \in live => Leads(code[current].insts, want[current], t)
  <2>1. Upto(Len(scopes) - 1, scopes, pending) = t
    BY <1>1, UptoFront
  <2> QED
    BY <2>1, EndIs
<1> HIDE DEF code, t
<1>5. /\ code \in Code /\ Len(code) = Len(blocks) /\ DOMAIN code = DOMAIN blocks
      /\ \A b \in DOMAIN blocks \ {current} : code[b] = blocks[b]
      /\ code[current].term = blocks[current].term /\ code[current].nest = blocks[current].nest
      /\ Len(code[current].insts) >= Len(blocks[current].insts)
      /\ blocks[current].term # None => code = blocks
  BY <1>4 DEF IsEnded
<1>6. Around(blocks, want, live, base2, outer, lps, frames, waits, {current})
  <2>1. {current} \cup AwaitedBy(s) = {current}
    BY <1>3
  <2> HIDE DEF base2, outer, lps, frames, waits
  <2> QED
    BY <1>2, <2>1
<1> HIDE DEF base2, lps
<1>7. /\ Targets(code[current].term) \subseteq DOMAIN code
      /\ current \in live => Good(code[current], want, live, current)
  <2>0. /\ \A b \in DOMAIN blocks : Targets(blocks[b].term) \subseteq DOMAIN blocks
        /\ \A b \in live : Good(blocks[b], want, live, b)
    BY <1>6, BuiltFacts
  <2>1. CASE blocks[current].term = None
    <3>1. Targets(code[current].term) = {}
      BY <1>5, <2>1, TermTargets
    <3> QED
      BY <1>4, <2>1, <3>1 DEF Good, Open
  <2>2. CASE blocks[current].term # None
    BY <1>1, <1>5, <2>0, <2>2
  <2> QED
    BY <2>1, <2>2
<1>8. Around(code, want, live, base2, outer, lps, frames, waits, {current})
  <2>1. Rewrites(blocks, code, {current})
    <3>1. Rewrites(blocks, blocks, {current})
      BY <1>1, SameCode
    <3>2. Len(blocks) <= Len(code)
      BY <1>1, <1>5
    <3>3. \A b \in DOMAIN blocks : Len(blocks[b].insts) <= Len(code[b].insts)
      <4> SUFFICES ASSUME NEW b \in DOMAIN blocks
                   PROVE  Len(blocks[b].insts) <= Len(code[b].insts)
        OBVIOUS
      <4>1. blocks[b].insts \in Seq(Insts) /\ code[b].insts \in Seq(Insts)
        BY <1>1, <1>5, CodeDomain
      <4>2. CASE b = current
        BY <1>5, <4>1, <4>2
      <4>3. CASE b # current
        BY <1>5, <4>1, <4>3
      <4> QED
        BY <4>2, <4>3
    <3> QED
      BY <1>5, <3>2, <3>3 DEF Rewrites
  <2>2. Continues(blocks, want, live, want, live)
    BY DEF Continues
  <2>3. /\ want \in [DOMAIN code -> States] /\ live \in SUBSET DOMAIN code
        /\ {current} \in SUBSET DOMAIN code /\ {current} \cap (DOMAIN blocks \ {current}) = {}
    BY <1>1, <1>5
  <2>4. \A b \in {current} \cup (DOMAIN code \ DOMAIN blocks) :
          /\ Targets(code[b].term) \subseteq DOMAIN code
          /\ b \in live => Good(code[b], want, live, b)
          /\ b \in live /\ code[b].term # None => code[b].nest = ScopesOf(want[b])
          /\ b \in live \ {current} => code[b].term # None
    BY <1>1, <1>5, <1>7
  <2> QED
    BY <1>5, <1>6, <2>1, <2>2, <2>3, <2>4, Rewrite
<1>9. Reaches(code, current, want, live, outer, frames, waits)
  <2> SUFFICES ASSUME current \in live, blocks[current].term = None
               PROVE  /\ \A k \in DOMAIN frames : frames[k] = <<>>
                      /\ Awaited(outer) \subseteq live
                      /\ Leads(code[current].insts, want[current], Due(outer, waits))
    BY <1>5 DEF Reaches
  <2>1. (\A k \in DOMAIN cleanups : cleanups[k] = <<>>) /\ Awaited(scopes) \subseteq live
    BY <1>1 DEF Reaches
  <2>2. \A k \in DOMAIN frames : frames[k] = <<>>
    <3>1. OwnFrame(s.part) = 0
      BY DEF OwnFrame
    <3>2. frames = SubSeq(cleanups, 1, Len(cleanups) - 1)
      BY <3>1 DEF Below
    <3>3. \A k \in DOMAIN frames : k \in DOMAIN cleanups /\ frames[k] = cleanups[k]
      <4>1. Len(cleanups) - 1 \in 0..Len(cleanups)
        BY <1>1
      <4> HIDE DEF frames
      <4> QED
        BY <1>1, <3>2, <4>1
    <3> QED
      BY <2>1, <3>3
  <2>3. Awaited(outer) \subseteq live
    BY <1>1, <2>1, AwaitedSplit
  <2>4. Leads(code[current].insts, want[current], Due(outer, waits))
    BY <1>4 DEF Open, t
  <2> QED
    BY <2>2, <2>3, <2>4
<1>10. current \in live => code[current].nest = ScopesOf(want[current])
  BY <1>1, <1>5
<1>11. Built(code, current, want, live, base2, outer, lps, frames, waits)
  BY <1>8, <1>9, <1>10 DEF Built
<1>12. blocks' = code /\ loops' = lps
  BY DEF code, lps
<1> QED
  BY <1>11, <1>12 DEF Lowers, Lowered

\* The end of a construct.
LEMMA EndLowers ==
    ASSUME NEW want, NEW live, NEW base, NEW code \in Code, NEW s, Behind(code, want, live, base, s),
           scopes \in Seq(ScopeRecords), pending \in Seq(Seq(Places)), Len(pending) = Len(scopes),
           s.part \notin {"body", "block"}, s.left = 0, s.part = "then" => s.other = 0,
           SetCurrent(code, s.after, Front(scopes)),
           scopes' = Front(scopes), cleanups' = Below(cleanups, s.part), pending' = Front(pending),
           loops' = LoopsAround(loops, s.part)
    PROVE  Lowers'
<1> DEFINE base2 == Outside(base, scopes)
           outer == Front(scopes)
           frames == Below(cleanups, s.part)
           waits == Front(pending)
           lps == LoopsAround(loops, s.part)
           t == Due(outer, waits)
           x == s.after
           code2 == Nested(code, x, InScopes(outer))
<1>1. /\ Around(code, want, live, base2, outer, lps, frames, waits, AwaitedBy(s))
      /\ outer # <<>> /\ s \in ScopeRecords /\ Shape(code, s) /\ Untouched(code, AwaitedBy(s))
      /\ \A b \in AwaitedBy(s) : want[b] = t
      /\ AwaitedBy(s) \cap live # {} => AwaitedBy(s) \subseteq live /\ Clear(outer, live, frames)
  BY DEF Behind
<1>2. blocks' = code2 /\ current' = x
  BY DEF SetCurrent, Nested
<1> HIDE DEF base2, lps
<1>3. /\ want \in [DOMAIN code -> States] /\ live \in SUBSET DOMAIN code
      /\ outer \in Seq(ScopeRecords) /\ waits \in Seq(Seq(Places)) /\ Len(waits) = Len(outer)
      /\ \A b \in DOMAIN code : Targets(code[b].term) \subseteq DOMAIN code
      /\ \A b \in live : Good(code[b], want, live, b)
  BY <1>1, BuiltFacts
<1>4. t \in States /\ ScopesOf(t) = InScopes(outer) /\ InScopes(outer) \in Seq(Places)
  BY <1>3, DueIs
<1>5. x \in DOMAIN code /\ x \in AwaitedBy(s)
  <2>1. x \in DOMAIN code
    BY <1>1 DEF Shape
  <2>2. x # 0
    BY <2>1, CodeDomain
  <2> QED
    BY <2>1, <2>2 DEF AwaitedBy
<1>6. \A b \in AwaitedBy(s) : b # x => code[b].term # None
  <2> SUFFICES ASSUME s.other # 0, s.other # x
               PROVE  code[s.other].term # None
    BY DEF AwaitedBy
  <2>1. s.part \in {"then", "loop", "case", "open"}
    BY <1>1 DEF Shape
  <2>2. s.part = "loop"
    BY <1>1, <2>1 DEF Shape
  <2> QED
    BY <1>1, <2>2 DEF Shape
<1> HIDE DEF t, outer, frames, waits, x
<1>7. /\ code2 \in Code /\ Len(code2) = Len(code) /\ DOMAIN code2 = DOMAIN code
      /\ \A b \in DOMAIN code \ {x} : code2[b] = code[b]
      /\ code2[x].insts = code[x].insts /\ code2[x].term = code[x].term
      /\ code2[x].nest = InScopes(outer)
  <2>1. code2 \in Code /\ Len(code2) = Len(code)
    BY <1>4, <1>5, NestIs
  <2>2. DOMAIN code2 = DOMAIN code
    BY <2>1, CodeDomain
  <2> QED
    BY <1>4, <1>5, <2>1, <2>2, NestIs
<1> HIDE DEF code2
<1>8. want[x] = t /\ code2[x].nest = ScopesOf(want[x])
  BY <1>1, <1>4, <1>5, <1>7
<1>9. Around(code2, want, live, base2, outer, lps, frames, waits, {x})
  <2>1. Rewrites(code, code2, AwaitedBy(s))
    <3>1. Rewrites(code, code, AwaitedBy(s))
      BY SameCode
    <3>2. \A b \in DOMAIN code : code2[b].insts = code[b].insts /\ code2[b].term = code[b].term
      BY <1>7
    <3> QED
      BY <1>5, <1>7, <3>1, <3>2 DEF Rewrites
  <2>2. Continues(code, want, live, want, live)
    BY DEF Continues
  <2>3. /\ want \in [DOMAIN code2 -> States] /\ live \in SUBSET DOMAIN code2
        /\ {x} \in SUBSET DOMAIN code2 /\ {x} \cap (DOMAIN code \ AwaitedBy(s)) = {}
    BY <1>3, <1>5, <1>7
  <2>4. \A b \in AwaitedBy(s) \cup (DOMAIN code2 \ DOMAIN code) :
          /\ Targets(code2[b].term) \subseteq DOMAIN code2
          /\ b \in live => Good(code2[b], want, live, b)
          /\ b \in live /\ code2[b].term # None => code2[b].nest = ScopesOf(want[b])
          /\ b \in live \ {x} => code2[b].term # None
    <3> SUFFICES ASSUME NEW b \in AwaitedBy(s)
                 PROVE  /\ Targets(code2[b].term) \subseteq DOMAIN code2
                        /\ b \in live => Good(code2[b], want, live, b)
                        /\ b \in live /\ code2[b].term # None => code2[b].nest = ScopesOf(want[b])
                        /\ b \in live \ {x} => code2[b].term # None
      BY <1>7
    <3>1. b \in DOMAIN code
      BY <1>1, BuiltFacts
    <3>2. code2[b].insts = code[b].insts /\ code2[b].term = code[b].term
      BY <1>7, <3>1
    <3>3. b \in live => Good(code2[b], want, live, b)
      BY <1>3, <3>2 DEF Good
    <3>4. b \in live /\ code2[b].term # None => code2[b].nest = ScopesOf(want[b])
      <4>1. CASE b = x
        BY <1>8, <4>1
      <4>2. CASE b # x
        BY <1>1, <1>7, <3>1, <4>2 DEF Around, Placed
      <4> QED
        BY <4>1, <4>2
    <3> QED
      BY <1>3, <1>6, <1>7, <3>1, <3>2, <3>3, <3>4
  <2> QED
    BY <1>1, <1>7, <2>1, <2>2, <2>3, <2>4, Rewrite
<1>10. Reaches(code2, x, want, live, outer, frames, waits)
  <2> SUFFICES ASSUME x \in live, code[x].term = None
               PROVE  /\ \A k \in DOMAIN frames : frames[k] = <<>>
                      /\ Awaited(outer) \subseteq live
                      /\ Leads(code2[x].insts, want[x], Due(outer, waits))
    BY <1>7 DEF Reaches
  <2>1. Clear(outer, live, frames)
    BY <1>1, <1>5
  <2>2. code2[x].insts = <<>>
    BY <1>1, <1>5, <1>7 DEF Untouched
  <2>3. Leads(<<>>, t, t)
    BY <1>4, LeadsNowhere
  <2> QED
    BY <1>8, <2>1, <2>2, <2>3 DEF Clear, t
<1>11. Built(code2, x, want, live, base2, outer, lps, frames, waits)
  BY <1>8, <1>9, <1>10 DEF Built
<1>12. scopes' = outer /\ cleanups' = frames /\ pending' = waits /\ loops' = lps
  BY DEF outer, frames, waits, lps
<1> QED
  BY <1>2, <1>11, <1>12 DEF Lowers, Lowered

\* The blocks that a closed block awaits, and what holds of them.
LEMMA BehindFacts ==
    ASSUME NEW want, NEW live, NEW base, NEW code \in Code, NEW s, Behind(code, want, live, base, s),
           s.part \notin {"body", "block"}
    PROVE  /\ want \in [DOMAIN code -> States] /\ live \in SUBSET DOMAIN code
           /\ Front(scopes) \in Seq(ScopeRecords) /\ Front(pending) \in Seq(Seq(Places))
           /\ Len(Front(pending)) = Len(Front(scopes))
           /\ Due(Front(scopes), Front(pending)) \in States
           /\ ScopesOf(Due(Front(scopes), Front(pending))) = InScopes(Front(scopes))
           /\ InScopes(Front(scopes)) \in Seq(Places)
           /\ s.after \in DOMAIN code /\ s.after \in AwaitedBy(s) /\ s.after \in Nat /\ s.after # 0
           /\ s.other # 0 => s.other \in DOMAIN code /\ s.other \in AwaitedBy(s)
           /\ s.other # 0 => AwaitedBy(s) = {s.other, s.after}
           /\ \A place \in Places, scope \in ScopeRecords : scope.part # "loop" =>
                LoopsFit(LoopsAround(loops, s.part), Append(Front(scopes), ScopeAt(scope, place)),
                         Based(Outside(base, scopes), Front(scopes), Below(cleanups, s.part)))
<1> DEFINE base2 == Outside(base, scopes)
           outer == Front(scopes)
           frames == Below(cleanups, s.part)
           waits == Front(pending)
           lps == LoopsAround(loops, s.part)
<1>1. /\ Around(code, want, live, base2, outer, lps, frames, waits, AwaitedBy(s))
      /\ outer # <<>> /\ s \in ScopeRecords /\ Shape(code, s)
  BY DEF Behind
<1> HIDE DEF base2, lps, outer, frames, waits
<1>2. /\ want \in [DOMAIN code -> States] /\ live \in SUBSET DOMAIN code
      /\ outer \in Seq(ScopeRecords) /\ waits \in Seq(Seq(Places)) /\ Len(waits) = Len(outer)
  BY <1>1, BuiltFacts
<1>3. Due(outer, waits) \in States /\ ScopesOf(Due(outer, waits)) = InScopes(outer)
      /\ InScopes(outer) \in Seq(Places)
  BY <1>2, DueIs
<1>4. /\ s.after \in DOMAIN code /\ s.other \in DOMAIN code \cup {0}
      /\ \A b \in DOMAIN code : b \in Nat /\ b # 0
  BY <1>1, CodeDomain DEF Shape
<1>5. /\ s.after \in AwaitedBy(s) /\ s.after \in Nat /\ s.after # 0
      /\ s.other # 0 => s.other \in DOMAIN code /\ s.other \in AwaitedBy(s)
      /\ s.other # 0 => AwaitedBy(s) = {s.other, s.after}
  BY <1>4 DEF AwaitedBy
<1>6. ASSUME NEW place \in Places, NEW scope \in ScopeRecords, scope.part # "loop"
      PROVE  LoopsFit(lps, Append(outer, ScopeAt(scope, place)), Based(base2, outer, frames))
  <2>1. FramesFit(frames, outer, base2) /\ LoopsFit(lps, outer, base2)
    BY <1>1 DEF Around
  <2>2. LoopsInside(lps, scope, frames, outer) = lps
    BY <1>6 DEF LoopsInside
  <2>3. LoopsFit(LoopsInside(lps, scope, frames, outer), Append(outer, ScopeAt(scope, place)),
                 Based(base2, outer, frames))
    BY <1>1, <1>2, <2>1, LoopsInsideIs
  <2> QED
    BY <2>2, <2>3
<1> QED
  BY <1>2, <1>3, <1>4, <1>5, <1>6 DEF base2, lps, outer, frames, waits

\* The code as it stands, with the blocks of hole put to use.
LEMMA AsItStands ==
    ASSUME NEW code, NEW want, NEW live, NEW base, NEW scs, NEW lps, NEW frames, NEW waits, NEW hole,
           Around(code, want, live, base, scs, lps, frames, waits, hole)
    PROVE  Renewed(code, code, want, live, hole, hole)
<1>1. /\ code \in Code /\ live \subseteq DOMAIN code
      /\ \A b \in DOMAIN code : Targets(code[b].term) \subseteq DOMAIN code
      /\ \A b \in live : Good(code[b], want, live, b)
      /\ hole \subseteq DOMAIN code
  BY BuiltFacts
<1>2. Placed(code, want, live)
  BY DEF Around
<1> QED
  BY <1>1, <1>2 DEF Renewed, Placed

\* An else branch.
LEMMA ElseLowers ==
    ASSUME NEW want, NEW live, NEW base, NEW code \in Code, NEW s, Behind(code, want, live, base, s),
           s.part = "then", s.other # 0,
           BeginBlock(code, s.other, Scope("else", s.after, 0, 0), Front(scopes),
                      Below(cleanups, s.part), Front(pending)),
           loops' = LoopsAround(loops, s.part)
    PROVE  Lowers'
<1> DEFINE base2 == Outside(base, scopes)
           outer == Front(scopes)
           frames == Below(cleanups, s.part)
           waits == Front(pending)
           lps == LoopsAround(loops, s.part)
           t == Due(outer, waits)
           b == s.other
           nest == InScopes(outer)
           scope == Scope("else", s.after, 0, 0)
           s2 == ScopeAt(scope, EntryOf(code, b))
           code2 == Begun(code, b, nest)
           hole == AwaitedBy(s)
<1>1. /\ Around(code, want, live, base2, outer, lps, frames, waits, hole)
      /\ outer # <<>> /\ s \in ScopeRecords /\ Shape(code, s) /\ Untouched(code, hole)
      /\ \A c \in hole : want[c] = t
      /\ hole \cap live # {} => hole \subseteq live /\ Clear(outer, live, frames)
      /\ current \in DOMAIN code /\ current \notin hole
  BY DEF Behind
<1>2. /\ want \in [DOMAIN code -> States] /\ live \in SUBSET DOMAIN code
      /\ outer \in Seq(ScopeRecords) /\ t \in States /\ ScopesOf(t) = nest /\ nest \in Seq(Places)
      /\ s.after \in DOMAIN code /\ s.after \in hole /\ s.after \in Nat /\ s.after # 0
      /\ b \in DOMAIN code /\ b \in hole /\ hole = {b, s.after}
      /\ \A place \in Places, sc \in ScopeRecords : sc.part # "loop" =>
           LoopsFit(lps, Append(outer, ScopeAt(sc, place)), Based(base2, outer, frames))
  BY BehindFacts
<1>3. /\ scope \in ScopeRecords /\ scope.part = "else" /\ scope.after = s.after /\ scope.other = 0
      /\ scope.left = 0 /\ AwaitedBy(scope) = {s.after, 0} \ {0}
  <2>1. "else" \in Parts /\ 0 \in Nat /\ s.after \in Nat
    BY <1>2 DEF Parts
  <2> HIDE DEF scope
  <2>2. scope = Scope("else", s.after, 0, 0)
    BY DEF scope
  <2> QED
    BY <2>1, <2>2, ScopeIs
<1>4. AwaitedBy(scope) = {s.after}
  BY <1>2, <1>3
<1>5. b # s.after /\ code[b].term = None
  <2>1. b # s.after
    BY <1>1 DEF Shape
  <2> QED
    BY <1>1, <2>1 DEF Shape
<1> HIDE DEF scope, t, outer, frames, waits, nest, hole, base2, lps
<1>6. s2 = ScopeAt(scope, EntryOf(code, b)) /\ EntryOf(code, b) \in Places
  BY <1>2, BegunIs
<1>7. LoopsFit(lps, Append(outer, s2), Based(base2, outer, frames))
  BY <1>2, <1>3, <1>6
<1>8. /\ current' = b /\ pending' = Append(waits, <<>>) /\ scopes' = Append(outer, s2)
      /\ blocks' = code2 /\ cleanups' = Framed(frames, scope.part)
  <2>1. b # current
    BY <1>1, <1>2
  <2>2. BeginBlock(code, b, scope, outer, frames, waits)
    BY DEF scope, outer, frames, waits
  <2> HIDE DEF b
  <2> QED
    BY <1>2, <2>1, <2>2, BeginIs DEF nest
<1> HIDE DEF s2, code2, b
<1>9. MayBegin(code, b, want, live, scope, outer, waits, live, frames, nest)
  <2>1. Shape(code, scope)
    BY <1>1, <1>2, <1>3 DEF Shape, Parts
  <2>2. Untouched(code, AwaitedBy(scope))
    BY <1>1, <1>2, <1>4 DEF Untouched
  <2>3. code[b].insts = <<>> /\ Leads(<<>>, t, t)
    BY <1>1, <1>2, <1>5, LeadsNowhere DEF Untouched
  <2> QED
    BY <1>1, <1>2, <1>3, <1>4, <1>5, <2>1, <2>2, <2>3 DEF MayBegin, t
<1>10. {b} \cup AwaitedBy(scope) = hole
  BY <1>2, <1>4
<1>11. Renewed(code, code, want, live, hole, {b} \cup AwaitedBy(scope))
  BY <1>1, <1>10, AsItStands
<1>12. /\ Rewrites(code, code, hole) /\ Continues(code, want, live, want, live)
       /\ ({b} \cup AwaitedBy(scope)) \cap (DOMAIN code \ hole) = {}
  BY <1>10, SameCode
<1>13. Built(code2, b, want, live, Based(base2, outer, frames), Append(outer, s2), lps,
             Framed(frames, scope.part), Append(waits, <<>>))
  <2>1. Built(Begun(code, b, nest), b, want, live, Based(base2, outer, frames), Append(outer, s2), lps,
              Framed(frames, scope.part), Append(waits, <<>>))
    BY <1>1, <1>2, <1>3, <1>6, <1>7, <1>9, <1>11, <1>12, Begins
  <2> QED
    BY <2>1 DEF code2
<1> QED
  BY <1>8, <1>13 DEF Lowers, Lowered, lps

\* The body of an `else (condition)`, behind its branch.
LEMMA ElseIfLowers ==
    ASSUME NEW want, NEW live, NEW base, NEW code \in Code, NEW s, Behind(code, want, live, base, s),
           s.part = "then", s.left > 0,
           BeginElseIf(code, s, Front(scopes), Below(cleanups, s.part), Front(pending)),
           loops' = LoopsAround(loops, s.part)
    PROVE  Lowers'
<1> DEFINE base2 == Outside(base, scopes)
           outer == Front(scopes)
           frames == Below(cleanups, s.part)
           waits == Front(pending)
           lps == LoopsAround(loops, s.part)
           t == Due(outer, waits)
           b == s.other
           nest == InScopes(outer)
           term == Branch("opaque", s.after, s.after)
           mid == Seal(code, b, term)
           code2 == Nested(mid, b, nest)
           s2 == Scope("elif", s.after, 0, 0)
           hole == AwaitedBy(s)
<1>1. /\ Around(code, want, live, base2, outer, lps, frames, waits, hole)
      /\ outer # <<>> /\ s \in ScopeRecords /\ Shape(code, s) /\ Untouched(code, hole)
      /\ \A c \in hole : want[c] = t
      /\ hole \cap live # {} => hole \subseteq live /\ Clear(outer, live, frames)
  BY DEF Behind
<1>2. b # 0 /\ b # s.after /\ code[b].term = None
  <2>1. b # 0 /\ b # s.after
    BY <1>1 DEF Shape
  <2> QED
    BY <1>1, <2>1 DEF Shape
<1>3. /\ want \in [DOMAIN code -> States] /\ live \in SUBSET DOMAIN code
      /\ outer \in Seq(ScopeRecords) /\ t \in States /\ ScopesOf(t) = nest /\ nest \in Seq(Places)
      /\ s.after \in DOMAIN code /\ s.after \in hole /\ s.after \in Nat /\ s.after # 0
      /\ b \in DOMAIN code /\ b \in hole /\ hole = {b, s.after}
      /\ \A place \in Places, sc \in ScopeRecords : sc.part # "loop" =>
           LoopsFit(lps, Append(outer, ScopeAt(sc, place)), Based(base2, outer, frames))
  BY <1>2, BehindFacts
<1>4. /\ s2 \in ScopeRecords /\ s2.part = "elif" /\ s2.after = s.after /\ s2.other = 0
      /\ s2.left = 0 /\ AwaitedBy(s2) = {s.after}
  <2>1. "elif" \in Parts /\ 0 \in Nat /\ s.after \in Nat
    BY <1>3 DEF Parts
  <2> HIDE DEF s2
  <2>2. s2 = Scope("elif", s.after, 0, 0)
    BY DEF s2
  <2>3. /\ s2 \in ScopeRecords /\ s2.part = "elif" /\ s2.after = s.after /\ s2.other = 0
        /\ s2.left = 0 /\ AwaitedBy(s2) = {s.after, 0} \ {0}
    BY <2>1, <2>2, ScopeIs
  <2> QED
    BY <1>3, <2>3
<1>5. ScopeAt(s2, <<0, 0>>) = s2 /\ <<0, 0>> \in Places
  BY DEF ScopeAt, Scope, Places
<1>6. /\ current' = b /\ blocks' = code2 /\ scopes' = Append(outer, s2)
      /\ cleanups' = frames \o << <<>>, <<>> >> /\ pending' = Append(waits, <<>>)
  BY DEF BeginElseIf, Nested
<1>7. Framed(frames, "elif") = frames \o << <<>>, <<>> >>
  <2>1. [i \in 1..(1 + OwnFrame("elif")) |-> <<>>] = << <<>>, <<>> >>
    BY DEF OwnFrame
  <2> QED
    BY <2>1 DEF Framed
<1>8. term \in Terms /\ term # None /\ Targets(term) = {s.after}
  <2>1. "opaque" \in Conds
    BY DEF Conds
  <2> QED
    BY <1>3, <2>1, TermTargets
<1> HIDE DEF s2, t, outer, frames, waits, nest, hole, base2, lps, b, term
<1>9. /\ code2 \in Code /\ Len(code2) = Len(code) /\ DOMAIN code2 = DOMAIN code
      /\ \A c \in DOMAIN code \ {b} : code2[c] = code[c]
      /\ code2[b].insts = code[b].insts /\ code2[b].term = term /\ code2[b].nest = nest
  <2>1. /\ mid \in Code /\ Len(mid) = Len(code)
        /\ \A c \in DOMAIN code \ {b} : mid[c] = code[c]
        /\ mid[b].insts = code[b].insts /\ mid[b].term = term
    BY <1>3, <1>8, SealIs
  <2> HIDE DEF mid
  <2>2. DOMAIN mid = DOMAIN code
    BY <2>1, CodeDomain
  <2>3. /\ code2 \in Code /\ Len(code2) = Len(mid)
        /\ \A c \in DOMAIN mid \ {b} : code2[c] = mid[c]
        /\ code2[b].insts = mid[b].insts /\ code2[b].term = mid[b].term /\ code2[b].nest = nest
    <3>1. mid \in Code /\ b \in DOMAIN mid /\ nest \in Seq(Places)
      BY <1>3, <2>1, <2>2
    <3>2. code2 = Nested(mid, b, nest)
      OBVIOUS
    <3> HIDE DEF code2
    <3> QED
      BY <3>1, <3>2, NestIs
  <2> HIDE DEF code2
  <2>4. DOMAIN code2 = DOMAIN code
    BY <2>1, <2>3, CodeDomain
  <2> QED
    BY <2>1, <2>2, <2>3, <2>4
<1> HIDE DEF code2
<1>10. LoopsFit(lps, Append(outer, s2), Based(base2, outer, frames))
  <2>1. LoopsFit(lps, Append(outer, ScopeAt(s2, <<0, 0>>)), Based(base2, outer, frames))
    BY <1>3, <1>4, <1>5
  <2> QED
    BY <1>5, <2>1
<1>11. code[b].insts = <<>> /\ Leads(<<>>, t, t)
  BY <1>1, <1>2, <1>3, LeadsNowhere DEF Untouched
<1>12. {b} \cup AwaitedBy(s2) = hole /\ b \notin AwaitedBy(s2)
  BY <1>2, <1>3, <1>4
<1>13. want[b] = t /\ want[s.after] = t /\ (b \in live => s.after \in live)
  BY <1>1, <1>3
<1>14. Renewed(code, code2, want, live, hole, hole)
  <2>1. Renewed(code, code, want, live, hole, hole)
    BY <1>1, AsItStands
  <2>2. b \in live => Good(code2[b], want, live, b)
    BY <1>3, <1>8, <1>9, <1>11, <1>13 DEF Good
  <2>3. b \in live => code2[b].nest = ScopesOf(want[b])
    BY <1>3, <1>9, <1>13
  <2> SUFFICES ASSUME NEW c \in hole
               PROVE  /\ Targets(code2[c].term) \subseteq DOMAIN code2
                      /\ c \in live => Good(code2[c], want, live, c)
                      /\ c \in live /\ code2[c].term # None => code2[c].nest = ScopesOf(want[c])
    BY <1>9 DEF Renewed
  <2>4. CASE c = b
    BY <1>3, <1>8, <1>9, <2>2, <2>3, <2>4
  <2>5. CASE c # b
    <3>1. code2[c] = code[c]
      BY <1>3, <1>9, <2>5
    <3> QED
      BY <1>9, <2>1, <3>1 DEF Renewed
  <2> QED
    BY <2>4, <2>5
<1>15. MayOpen(code2, b, want, live, s2, outer, waits, live, frames)
  <2>1. Shape(code2, s2)
    BY <1>1, <1>2, <1>3, <1>4, <1>9 DEF Shape, Parts
  <2>2. Untouched(code2, AwaitedBy(s2))
    BY <1>1, <1>2, <1>3, <1>4, <1>9 DEF Untouched
  <2>3. b \in live => code2[b].nest = ScopesOf(want[b])
    BY <1>3, <1>9, <1>13
  <2> QED
    BY <1>1, <1>3, <1>4, <1>8, <1>9, <1>12, <1>13, <2>1, <2>2, <2>3 DEF MayOpen, t
<1>16. Rewrites(code, code2, hole)
  <2>1. Rewrites(code, code, hole)
    BY SameCode
  <2>2. \A c \in DOMAIN code : code2[c].insts = code[c].insts
    BY <1>9
  <2>3. \A c \in DOMAIN code : code[c].term # None => code2[c].term # None
    BY <1>2, <1>9
  <2> QED
    BY <1>3, <1>9, <2>1, <2>2, <2>3 DEF Rewrites
<1>17. Continues(code, want, live, want, live)
  BY SameCode
<1>18. Built(code2, b, want, live, Based(base2, outer, frames), Append(outer, s2), lps,
             Framed(frames, s2.part), Append(waits, <<>>))
  <2>1. /\ want \in [DOMAIN code2 -> States] /\ live \in SUBSET DOMAIN code2 /\ b \in DOMAIN code2
        /\ ({b} \cup AwaitedBy(s2)) \cap (DOMAIN code \ hole) = {}
    BY <1>3, <1>9, <1>12
  <2>2. Renewed(code, code2, want, live, hole, {b} \cup AwaitedBy(s2))
    BY <1>12, <1>14
  <2> QED
    BY <1>1, <1>4, <1>9, <1>10, <1>15, <1>16, <1>17, <2>1, <2>2, Enters
<1>19. cleanups' = Framed(frames, s2.part) /\ loops' = lps
  BY <1>4, <1>6, <1>7 DEF lps
<1> QED
  BY <1>6, <1>18, <1>19 DEF Lowers, Lowered

\* The next case.
LEMMA CaseLowers ==
    ASSUME NEW want, NEW live, NEW base, NEW code \in Code, NEW s, Behind(code, want, live, base, s),
           s.part \in {"case", "open"}, s.left > 0,
           BeginCase(code, s.other, s.after, s.left, s.part = "case", Front(scopes),
                     Below(cleanups, s.part), Front(pending)),
           loops' = LoopsAround(loops, s.part)
    PROVE  Lowers'
<1> DEFINE base2 == Outside(base, scopes)
           outer == Front(scopes)
           frames == Below(cleanups, s.part)
           waits == Front(pending)
           lps == LoopsAround(loops, s.part)
           t == Due(outer, waits)
           b == s.other
           hole == AwaitedBy(s)
           left == s.left
           flag == s.part = "case"
           merge == s.after
<1>1. /\ Around(code, want, live, base2, outer, lps, frames, waits, hole)
      /\ outer # <<>> /\ s \in ScopeRecords /\ Shape(code, s) /\ Untouched(code, hole)
      /\ \A c \in hole : want[c] = t
      /\ hole \cap live # {} => hole \subseteq live /\ Clear(outer, live, frames)
      /\ current \in DOMAIN code /\ current \notin hole
  BY DEF Behind
<1>2. b # 0 /\ b # s.after /\ code[b].term = None
  <2>1. b # 0 /\ b # s.after
    BY <1>1 DEF Shape
  <2> QED
    BY <1>1, <2>1 DEF Shape
<1>3. /\ t \in States /\ ScopesOf(t) = InScopes(outer)
      /\ s.after \in DOMAIN code /\ s.after \in hole
      /\ b \in DOMAIN code /\ b \in hole /\ hole = {b, s.after}
  <2>1. s.part \notin {"body", "block"}
    OBVIOUS
  <2>2. t \in States /\ ScopesOf(t) = InScopes(outer)
    BY <2>1, BehindFacts
  <2>3. s.after \in DOMAIN code /\ s.after \in AwaitedBy(s)
    BY <2>1, BehindFacts
  <2>4. s.other \in DOMAIN code /\ s.other \in AwaitedBy(s) /\ AwaitedBy(s) = {s.other, s.after}
    <3>1. s.other \in DOMAIN code /\ s.after # 0
      BY <1>1, <1>2, <2>3, CodeDomain DEF Shape
    <3> QED
      BY <1>2, <3>1 DEF AwaitedBy
  <2> QED
    BY <2>2, <2>3, <2>4
<1>4. left \in Nat \ {0} /\ flag \in BOOLEAN
  BY <1>1 DEF ScopeRecords
<1> HIDE DEF outer, frames, waits, hole, base2, lps
<1>5. Poised(code, b, want, live, outer, frames, waits, hole)
  <2>1. \A c \in hole : code[c].term = None => code[c].insts = <<>>
    BY <1>1 DEF Untouched
  <2>2. Leads(<<>>, t, t)
    BY <1>3, LeadsNowhere
  <2>3. want[b] = t /\ code[b].insts = <<>>
    BY <1>1, <1>2, <1>3, <2>1
  <2>4. \A c \in hole : c \in live <=> b \in live
    BY <1>1, <1>3
  <2> HIDE DEF t
  <2>5. b \in live => Clear(outer, live, frames) /\ Leads(code[b].insts, want[b], t)
    BY <1>1, <1>3, <2>2, <2>3
  <2> QED
    BY <1>1, <1>2, <1>3, <2>1, <2>4, <2>5 DEF Poised, t
<1>6. b \in live => (IF b = current THEN code[b].nest ELSE InScopes(outer)) = ScopesOf(want[b])
  BY <1>1, <1>3
<1>7. BeginCase(code, b, merge, left, flag, outer, frames, waits) /\ loops' = lps
  BY DEF outer, frames, waits, lps
<1>8. /\ Around(code, want, live, base2, outer, lps, frames, waits, {b, merge})
      /\ Poised(code, b, want, live, outer, frames, waits, {b, merge})
  BY <1>1, <1>3, <1>5
<1>9. merge # b /\ code[merge].term = None
  BY <1>1, <1>2 DEF Shape
<1> HIDE DEF b, merge, left, flag, t
<1>10. outer # <<>> /\ current \in DOMAIN code
  BY <1>1
<1>11. MayCase(code, want, live, base2, outer, lps, frames, waits, b, merge, left, flag)
  BY <1>4, <1>6, <1>7, <1>8, <1>9, <1>10 DEF MayCase
<1> QED
  BY <1>11, CaseBegins

LEMMA StaysOpen ==
    ASSUME NEW outer \in Seq(ScopeRecords), NEW code, NEW b, NEW scope, NEW frames, NEW waits
    PROVE  /\ BeginBlock(code, b, scope, outer, frames, waits) => scopes' # <<>>
           /\ \A then : BeginElseIf(code, then, outer, frames, waits) => scopes' # <<>>
<1>1. ASSUME NEW x
      PROVE  Append(outer, x) # <<>>
  <2> DEFINE S == ScopeRecords \cup {x}
  <2>1. outer \in Seq(S) /\ x \in S
    OBVIOUS
  <2> HIDE DEF S
  <2> QED
    BY <2>1
<1> QED
  BY <1>1 DEF BeginBlock, BeginElseIf

LEMMA CloseLowers ==
    ASSUME NEW want, NEW live, NEW base, Lowered(want, live, base), scopes # <<>>, CloseBlock
    PROVE  Lowers' /\ scopes' # <<>>
<1> DEFINE s == Last(scopes)
           outer == Front(scopes)
           frames == Below(cleanups, s.part)
           waits == Front(pending)
           code == FallInto(EndBlock, current, IF s.part = "loop" THEN s.other ELSE s.after)
<1>1. /\ s.part # "body" /\ loops' = LoopsAround(loops, s.part)
      /\ \/ /\ s.part = "block"
            /\ blocks' = EndBlock /\ current' = current
            /\ scopes' = outer /\ cleanups' = frames /\ pending' = waits
         \/ /\ s.part = "then" /\ s.other # 0 /\ s.left = 0
            /\ BeginBlock(code, s.other, Scope("else", s.after, 0, 0), outer, frames, waits)
         \/ /\ s.part = "then" /\ s.left > 0
            /\ BeginElseIf(code, s, outer, frames, waits)
         \/ /\ s.part \in {"case", "open"} /\ s.left > 0
            /\ BeginCase(code, s.other, s.after, s.left, s.part = "case", outer, frames, waits)
         \/ /\ s.part # "block" /\ s.left = 0 /\ (s.part = "then" => s.other = 0)
            /\ SetCurrent(code, s.after, outer)
            /\ scopes' = outer /\ cleanups' = frames /\ pending' = waits
  BY DEF CloseBlock, Below, LoopsAround
<1> HIDE DEF s
<1>2. s = Last(scopes)
  BY DEF s
<1>3. /\ scopes \in Seq(ScopeRecords) /\ pending \in Seq(Seq(Places)) /\ Len(pending) = Len(scopes)
      /\ outer # <<>> /\ outer \in Seq(ScopeRecords)
  <2>1. /\ scopes \in Seq(ScopeRecords) /\ pending \in Seq(Seq(Places)) /\ Len(pending) = Len(scopes)
    BY LoweredFacts
  <2>2. outer # <<>>
    BY <1>1, <1>2, PopCurrent
  <2>3. outer \in Seq(ScopeRecords)
    BY <2>1 DEF Front
  <2> QED
    BY <2>1, <2>2, <2>3
<1>4. CASE s.part = "block"
  <2>1. /\ blocks' = EndBlock /\ current' = current
        /\ scopes' = outer /\ cleanups' = frames /\ pending' = waits
    BY <1>1, <1>4
  <2> QED
    BY <1>1, <1>2, <1>3, <1>4, <2>1, CloseBlockLowers
<1>5. CASE s.part # "block"
  <2>1. Behind(code, want, live, base, s) /\ code \in Code
    BY <1>1, <1>2, <1>5, Joins
  <2> HIDE DEF code
  <2>2. CASE /\ s.part = "then" /\ s.other # 0 /\ s.left = 0
             /\ BeginBlock(code, s.other, Scope("else", s.after, 0, 0), outer, frames, waits)
    <3>1. Lowers'
      BY <1>1, <2>1, <2>2, ElseLowers
    <3>2. scopes' # <<>>
      BY <1>3, <2>2, StaysOpen
    <3> QED
      BY <3>1, <3>2
  <2>3. CASE s.part = "then" /\ s.left > 0 /\ BeginElseIf(code, s, outer, frames, waits)
    <3>1. Lowers'
      BY <1>1, <2>1, <2>3, ElseIfLowers
    <3>2. scopes' # <<>>
      BY <1>3, <2>3, StaysOpen
    <3> QED
      BY <3>1, <3>2
  <2>4. CASE /\ s.part \in {"case", "open"} /\ s.left > 0
             /\ BeginCase(code, s.other, s.after, s.left, s.part = "case", outer, frames, waits)
    <3>1. Lowers'
      BY <1>1, <2>1, <2>4, CaseLowers
    <3>2. scopes' # <<>>
      BY <1>3, <2>4, StaysOpen DEF BeginCase
    <3> QED
      BY <3>1, <3>2
  <2>5. CASE /\ s.part # "block" /\ s.left = 0 /\ (s.part = "then" => s.other = 0)
             /\ SetCurrent(code, s.after, outer)
             /\ scopes' = outer /\ cleanups' = frames /\ pending' = waits
    <3>1. Lowers'
      BY <1>1, <1>3, <2>1, <2>5, EndLowers
    <3> QED
      BY <1>3, <2>5, <3>1
  <2> QED
    BY <1>1, <1>5, <2>2, <2>3, <2>4, <2>5
<1> QED
  BY <1>4, <1>5

(***************************************************************************)
(* The function.                                                           *)
(***************************************************************************)
\* The code is whole: every block that can be reached does what its annotation says.
Whole(code, want, live) ==
  Annotated(code, want, live) /\ Sealed(code, live, {}) /\ Placed(code, want, live)

LEMMA FunctionEnds ==
    ASSUME NEW want, NEW live, NEW base, Lowered(want, live, base), scopes # <<>>, CloseFunction
    PROVE  Whole(blocks', want, live)
<1> DEFINE end == EndBlock
           fall == <<Mark("fall", 0)>>
           mid == Emit(end, current, fall)
           code == Seal(mid, current, Ret)
<1>1. /\ Around(blocks, want, live, base, scopes, loops, cleanups, pending, {current})
      /\ current \in live => blocks[current].nest = ScopesOf(want[current])
      /\ blocks \in Code /\ current \in DOMAIN blocks /\ DOMAIN blocks = 1..Len(blocks)
      /\ want \in [DOMAIN blocks -> States] /\ live \in SUBSET DOMAIN blocks
      /\ scopes \in Seq(ScopeRecords) /\ Len(scopes) \in Nat /\ Len(scopes) >= 1
  BY LoweredFacts
<1>2. Len(scopes) = 1 /\ Awaited(scopes) = {}
  <2>1. \A i \in DOMAIN scopes : (scopes[i].part = "body" <=> i = 1) /\ Shape(blocks, scopes[i])
    BY <1>1 DEF Around, StackFits
  <2>2. Len(scopes) \in DOMAIN scopes
    BY <1>1
  <2>3. Len(scopes) = 1
    BY <2>1, <2>2 DEF CloseFunction, Last
  <2>4. DOMAIN scopes = {1}
    BY <1>1, <2>3
  <2>5. AwaitedBy(scopes[1]) = {}
    <3>1. scopes[1].part = "body" /\ Shape(blocks, scopes[1])
      BY <2>1, <2>4
    <3>2. scopes[1].after = 0 /\ scopes[1].other = 0
      BY <3>1 DEF Shape
    <3> QED
      BY <3>2 DEF AwaitedBy
  <2> QED
    BY <2>3, <2>4, <2>5 DEF Awaited
<1>3. /\ Sealed(blocks, live, {current}) /\ Placed(blocks, want, live) /\ Annotated(blocks, want, live)
  <2>1. Awaited(scopes) \cup {current} = {current}
    BY <1>2
  <2> QED
    BY <1>1, <2>1 DEF Around
<1>4. CASE ~Open
  <2>1. blocks' = blocks
    BY <1>4 DEF CloseFunction
  <2>2. Sealed(blocks, live, {})
    BY <1>3, <1>4 DEF Sealed, Open
  <2> QED
    BY <1>3, <2>1, <2>2 DEF Whole
<1>5. CASE Open
  <2>1. /\ IsEnded(end) /\ Upto(0, scopes, pending) \in States
        /\ current \in live => Leads(end[current].insts, want[current], Upto(0, scopes, pending))
    <3>1. Len(scopes) - 1 = 0
      BY <1>2
    <3> QED
      BY <1>5, <3>1, EndIs
  <2>2. blocks' = code
    BY <1>5 DEF CloseFunction
  <2> DEFINE t == Upto(0, scopes, pending)
  <2> HIDE DEF end, t
  <2>3. fall \in Seq(Insts) /\ Leads(fall, t, t)
    <3>1. "fall" \in Neutral /\ 0 \in Nat
      BY DEF Neutral, Ops
    <3>2. t \in States
      BY <2>1 DEF t
    <3> QED
      BY <3>1, <3>2, LeadsNeutral
  <2> HIDE DEF fall
  <2>4. /\ end \in Code /\ Len(end) = Len(blocks) /\ DOMAIN end = DOMAIN blocks
        /\ \A b \in DOMAIN blocks \ {current} : end[b] = blocks[b]
        /\ end[current].nest = blocks[current].nest
    BY <2>1 DEF IsEnded
  <2>5. current \in DOMAIN end
    BY <1>1, <2>4
  <2>6. /\ mid \in Code /\ Len(mid) = Len(end)
        /\ \A b \in DOMAIN end \ {current} : mid[b] = end[b]
        /\ mid[current].insts = end[current].insts \o fall /\ mid[current].nest = end[current].nest
    BY <2>3, <2>4, <2>5, EmitIs
  <2> HIDE DEF mid
  <2>7. DOMAIN mid = DOMAIN blocks
    BY <2>4, <2>6, CodeDomain
  <2>8. Ret \in Terms /\ Ret # None /\ Targets(Ret) = {}
    BY TermTargets
  <2>14. current \in DOMAIN mid
    BY <1>1, <2>7
  <2>9. /\ code \in Code /\ Len(code) = Len(mid)
        /\ \A b \in DOMAIN mid \ {current} : code[b] = mid[b]
        /\ code[current].insts = mid[current].insts /\ code[current].nest = mid[current].nest
        /\ code[current].term = Ret
    BY <2>6, <2>8, <2>14, SealIs
  <2> HIDE DEF code
  <2>10. /\ DOMAIN code = DOMAIN blocks
         /\ \A b \in DOMAIN blocks \ {current} : code[b] = blocks[b]
         /\ code[current].insts = end[current].insts \o fall
         /\ code[current].nest = blocks[current].nest /\ code[current].term = Ret
    <3>1. DOMAIN code = DOMAIN blocks
      BY <2>4, <2>6, <2>9, CodeDomain
    <3> QED
      BY <2>4, <2>6, <2>7, <2>9, <3>1
  <2>11. current \in live => Good(code[current], want, live, current)
    <3> SUFFICES ASSUME current \in live
                 PROVE  Good(code[current], want, live, current)
      OBVIOUS
    <3>1. Leads(end[current].insts, want[current], t) /\ t \in States
      BY <2>1 DEF t
    <3>2. end[current].insts \in Seq(Insts)
      BY <2>4, <2>5, CodeDomain
    <3>3. Leads(end[current].insts \o fall, want[current], t)
      BY <2>3, <3>1, <3>2, LeadsOn
    <3> QED
      BY <2>8, <2>10, <3>1, <3>3 DEF Good
  <2>12. Annotated(code, want, live)
    <3>1. \A b \in DOMAIN code : Targets(code[b].term) \subseteq DOMAIN code
      BY <1>3, <2>8, <2>10 DEF Annotated
    <3>2. \A b \in live : Good(code[b], want, live, b)
      BY <1>1, <1>3, <2>10, <2>11 DEF Annotated
    <3> QED
      BY <1>3, <2>9, <2>10, <3>1, <3>2 DEF Annotated
  <2>13. Sealed(code, live, {}) /\ Placed(code, want, live)
    <3>1. \A b \in live : /\ code[b].term # None
                          /\ code[b].nest = ScopesOf(want[b])
      <4> SUFFICES ASSUME NEW b \in live
                   PROVE  code[b].term # None /\ code[b].nest = ScopesOf(want[b])
        OBVIOUS
      <4>1. CASE b = current
        BY <1>1, <2>8, <2>10, <4>1
      <4>2. CASE b # current
        BY <1>1, <1>3, <2>10, <4>2 DEF Sealed, Placed
      <4> QED
        BY <4>1, <4>2
    <3> QED
      BY <3>1 DEF Sealed, Placed
  <2> QED
    BY <2>2, <2>12, <2>13 DEF Whole
<1> QED
  BY <1>4, <1>5

LEMMA InitLowers == ASSUME InitLowering
                    PROVE  Lowers /\ scopes # <<>>
<1> DEFINE e == <<1, 1>>
           enter == <<Mark("enter", e)>>
           blk == [newBlock EXCEPT !.insts = enter]
           s == ScopeAt(Scope("body", 0, 0, 0), e)
           want == [b \in {1} |-> <<>>]
           base == [i \in {1} |-> 0]
           live == {1}
           t == Due(scopes, pending)
<1>1. /\ current = 1 /\ blocks = <<blk>> /\ loops = <<>> /\ cleanups = << <<>> >>
      /\ pending = << <<>> >> /\ scopes = <<s>>
  BY DEF InitLowering, ScopeAt
<1>2. e \in Places /\ Mark("enter", e) \in Insts /\ enter \in Seq(Insts) /\ Mark("enter", e).op = "enter"
      /\ Mark("enter", e).arg = e
  <2>1. e \in Places
    BY DEF Places
  <2>2. "enter" \in Ops
    BY DEF Ops
  <2> HIDE DEF e
  <2> QED
    BY <2>1, <2>2, MarkIs
<1>3. /\ s \in ScopeRecords /\ s.part = "body" /\ s.after = 0 /\ s.other = 0 /\ s.left = 0 /\ s.at = e
      /\ AwaitedBy(s) = {}
  <2> DEFINE sc == Scope("body", 0, 0, 0)
  <2>1. "body" \in Parts /\ 0 \in Nat
    BY DEF Parts
  <2>2. sc = Scope("body", 0, 0, 0)
    OBVIOUS
  <2> HIDE DEF sc
  <2>3. sc \in ScopeRecords /\ sc.part = "body" /\ sc.after = 0 /\ sc.other = 0 /\ sc.left = 0
    BY <2>1, <2>2, ScopeIs
  <2> HIDE DEF e
  <2>4. ScopeAt(sc, e) \in ScopeRecords /\ ScopeAt(sc, e).part = "body" /\ ScopeAt(sc, e).at = e
        /\ ScopeAt(sc, e).after = 0 /\ ScopeAt(sc, e).other = 0 /\ ScopeAt(sc, e).left = 0
    BY <1>2, <2>3, ScopeAtIs DEF ScopeAt, ScopeRecords
  <2> QED
    BY <2>2, <2>4 DEF AwaitedBy
<1>4. /\ blk \in BlockRecords /\ blk.insts = enter /\ blk.term = None /\ blk.nest = <<>>
  <2> HIDE DEF enter
  <2> QED
    BY <1>2, NewBlock DEF BlockRecords
<1> HIDE DEF s, blk, enter, e
<1>5. /\ blocks \in Code /\ Len(blocks) = 1 /\ DOMAIN blocks = {1} /\ blocks[1] = blk
      /\ scopes \in Seq(ScopeRecords) /\ Len(scopes) = 1 /\ DOMAIN scopes = {1} /\ scopes[1] = s
      /\ pending \in Seq(Seq(Places)) /\ Len(pending) = 1 /\ DOMAIN pending = {1} /\ pending[1] = <<>>
      /\ cleanups \in Seq(Seq(Places)) /\ Len(cleanups) = 1 /\ DOMAIN cleanups = {1} /\ cleanups[1] = <<>>
      /\ loops = <<>> /\ DOMAIN loops = {} /\ loops \in Seq(LoopRecords)
  <2>1. <<>> \in Seq(Places) /\ 1..1 = {1} /\ 1..0 = {}
    OBVIOUS
  <2>2. \A S : \A x \in S : <<x>> \in Seq(S) /\ Len(<<x>>) = 1 /\ DOMAIN <<x>> = 1..1 /\ <<x>>[1] = x
    OBVIOUS
  <2>3. blocks \in Code /\ Len(blocks) = 1 /\ DOMAIN blocks = {1} /\ blocks[1] = blk
    BY <1>1, <1>4, <2>1, <2>2 DEF Code
  <2>4. scopes \in Seq(ScopeRecords) /\ Len(scopes) = 1 /\ DOMAIN scopes = {1} /\ scopes[1] = s
    BY <1>1, <1>3, <2>1, <2>2
  <2>5. pending \in Seq(Seq(Places)) /\ Len(pending) = 1 /\ DOMAIN pending = {1} /\ pending[1] = <<>>
    BY <1>1, <2>1, <2>2
  <2> QED
    BY <1>1, <2>1, <2>3, <2>4, <2>5
<1>6. Awaited(scopes) = {}
  BY <1>3, <1>5 DEF Awaited
<1>7. /\ t \in States /\ <<>> \in States /\ Leads(enter, <<>>, t)
  <2>1. Sound(Mark("enter", e), <<>>)
    BY <1>2 DEF Sound
  <2>2. <<>> \in States
    BY DEF States
  <2>3. Leads(<<Mark("enter", e)>>, <<>>, Effect(Mark("enter", e), <<>>))
    BY <1>2, <2>1, <2>2, LeadsOne
  <2>4. Effect(Mark("enter", e), <<>>) = <<[scope |-> e, bodies |-> <<>>]>>
    BY <1>2 DEF Effect
  <2>5. t = <<[scope |-> e, bodies |-> <<>>]>>
    <3>1. t = [i \in 1..1 |-> [scope |-> scopes[i].at, bodies |-> pending[i]]]
      BY <1>5 DEF Due, Upto
    <3>2. \A i \in 1..1 : [scope |-> scopes[i].at, bodies |-> pending[i]] = [scope |-> e, bodies |-> <<>>]
      BY <1>3, <1>5
    <3>3. t = [i \in 1..1 |-> [scope |-> e, bodies |-> <<>>]]
      BY <3>1, <3>2
    <3> DEFINE x == [scope |-> e, bodies |-> <<>>]
    <3> HIDE DEF x, t
    <3>4. [i \in 1..1 |-> x] = <<x>>
      OBVIOUS
    <3> QED
      BY <3>3, <3>4 DEF x
  <2>6. t \in States
    BY <1>5, DueIs
  <2> HIDE DEF t
  <2> QED
    BY <2>2, <2>3, <2>4, <2>5, <2>6 DEF enter
<1> HIDE DEF t
<1>8. want \in [DOMAIN blocks -> States] /\ want[1] = <<>> /\ base \in [DOMAIN scopes -> Nat] /\ base[1] = 0
  BY <1>5, <1>7
<1> HIDE DEF want, base
<1>9. Annotated(blocks, want, live)
  <2>1. Targets(None) = {}
    BY TermTargets
  <2>2. Good(blocks[1], want, live, 1)
    BY <1>4, <1>5, <1>7, <1>8, <2>1 DEF Good
  <2> QED
    BY <1>4, <1>5, <1>8, <2>1, <2>2 DEF Annotated
<1>10. StackFits(blocks, scopes)
  <2>1. Shape(blocks, s)
    BY <1>3 DEF Shape, Parts
  <2> QED
    BY <1>3, <1>5, <1>6, <2>1 DEF StackFits, Untouched
<1>11. FramesFit(cleanups, scopes, base)
  <2>1. OwnFrame(s.part) = 0
    BY <1>3 DEF OwnFrame
  <2> QED
    BY <1>5, <1>8, <2>1 DEF FramesFit
<1>12. LoopsFit(loops, scopes, base)
  BY <1>3, <1>5 DEF LoopsFit
<1>13. WaitsFit(blocks, pending, scopes)
  BY <1>5 DEF WaitsFit, Distinct
<1>14. Expected(want, scopes, pending) /\ LiveStack(live, scopes, cleanups, base)
  BY <1>3, <1>5 DEF Expected, LiveStack
<1>15. Sealed(blocks, live, Awaited(scopes) \cup {current}) /\ Placed(blocks, want, live)
  BY <1>1, <1>4, <1>5 DEF Sealed, Placed
<1>16. Around(blocks, want, live, base, scopes, loops, cleanups, pending, {current})
  BY <1>1, <1>5, <1>6, <1>9, <1>10, <1>11, <1>12, <1>13, <1>14, <1>15 DEF Around
<1>17. ScopesOf(want[1]) = <<>>
  BY <1>8 DEF ScopesOf
<1>18. Reaches(blocks, current, want, live, scopes, cleanups, pending)
  BY <1>1, <1>4, <1>5, <1>6, <1>7, <1>8 DEF Reaches, t
<1>19. Lowered(want, live, base)
  BY <1>1, <1>4, <1>5, <1>16, <1>17, <1>18 DEF Lowered, Built
<1> QED
  BY <1>1, <1>5, <1>19 DEF Lowers

\* Every action that reads keeps it.
ReadStatement ==
  \/ ReadReturnProp \/ ReadProp \/ ReadAssert \/ ReadMust \/ ReadIndex
  \/ ReadDefer \/ ReadReturn \/ ReadBreak \/ ReadContinue
  \/ ReadSetNull \/ ReadSet \/ ReadDeref \/ ReadRead \/ ReadMove \/ ReadAssign \/ ReadUpdate
ReadOpening == ReadBlock \/ ReadIf \/ ReadWhile \/ ReadFor \/ ReadForIn \/ ReadWhen

LEMMA SkipLowers == ASSUME Lowers, scopes # <<>>, UNCHANGED lowering
                    PROVE  Lowers' /\ scopes' # <<>>
<1>1. blocks' = blocks /\ current' = current /\ loops' = loops /\ cleanups' = cleanups
      /\ pending' = pending /\ scopes' = scopes
  BY DEF lowering
<1> QED
  BY <1>1 DEF Lowers, Lowered

LEMMA StatementLowers == ASSUME Lowers, scopes # <<>>, ReadStatement
                         PROVE  Lowers' /\ scopes' # <<>>
<1>1. PICK want, live, base : Lowered(want, live, base)
  BY DEF Lowers
<1>2. ASSUME NEW op \in Neutral, Plain(op) \/ Skip
      PROVE  Lowers' /\ scopes' # <<>>
  <2>1. CASE Plain(op)
    BY <1>1, <2>1, PlainLowers DEF Plain
  <2>2. CASE Skip
    BY <2>2, SkipLowers DEF Skip
  <2> QED
    BY <1>2, <2>1, <2>2
<1>3. {"null", "set", "deref", "read", "move", "assign", "update"} \subseteq Neutral
  BY DEF Neutral, Ops
<1>4. CASE ReadReturnProp
  BY <1>1, <1>4, ReturnPropLowers DEF ReadReturnProp, ReturnProp
<1>5. CASE ReadProp
  BY <1>1, <1>5, PropLowers DEF ReadProp, lowerOptionalProp, BranchTo
<1>6. CASE ReadAssert
  BY <1>1, <1>6, AssertLowers DEF ReadAssert, lowerTestAssert, BranchTo
<1>7. CASE ReadMust
  BY <1>1, <1>7, MustLowers DEF ReadMust, lowerOptionalPayload, BranchTo
<1>8. CASE ReadIndex
  BY <1>1, <1>8, IndexLowers DEF ReadIndex, lowerIndex
<1>9. CASE ReadDefer
  <2>1. CASE Defer
    BY <1>1, <2>1, DeferLowers DEF Defer
  <2>2. CASE Skip
    BY <2>2, SkipLowers DEF Skip
  <2> QED
    BY <1>9, <2>1, <2>2 DEF ReadDefer
<1>10. CASE ReadReturn
  <2>1. CASE Return
    BY <1>1, <2>1, ReturnLowers DEF Return
  <2>2. CASE Skip
    BY <2>2, SkipLowers DEF Skip
  <2> QED
    BY <1>10, <2>1, <2>2 DEF ReadReturn
<1>11. CASE ReadBreak \/ ReadContinue
  <2>1. PICK k \in 0..1, target \in {"break_block", "continue_block"} : LeaveLoop(k, target) \/ Skip
    BY <1>11 DEF ReadBreak, ReadContinue, Break, Continue
  <2>2. CASE LeaveLoop(k, target)
    <3>1. k \in Nat
      OBVIOUS
    <3>2. Lowers'
      BY <1>1, <2>2, <3>1, LeaveLowers
    <3> QED
      BY <2>2, <3>2 DEF LeaveLoop
  <2>3. CASE Skip
    BY <2>3, SkipLowers DEF Skip
  <2> QED
    BY <2>1, <2>2, <2>3
<1>12. CASE \E op \in {"null", "set", "deref", "read", "move", "assign", "update"} : Plain(op) \/ Skip
  BY <1>2, <1>3, <1>12
<1>13. ReadSetNull \/ ReadSet \/ ReadDeref \/ ReadRead \/ ReadMove \/ ReadAssign \/ ReadUpdate
       => \E op \in {"null", "set", "deref", "read", "move", "assign", "update"} : Plain(op) \/ Skip
  BY DEF ReadSetNull, ReadSet, ReadDeref, ReadRead, ReadMove, ReadAssign, ReadUpdate
<1> QED
  BY <1>4, <1>5, <1>6, <1>7, <1>8, <1>9, <1>10, <1>11, <1>12, <1>13 DEF ReadStatement

LEMMA OpeningLowers == ASSUME Lowers, scopes # <<>>, ReadOpening
                       PROVE  Lowers' /\ scopes' # <<>>
<1>1. PICK want, live, base : Lowered(want, live, base)
  BY DEF Lowers
<1>2. scopes \in Seq(ScopeRecords)
  BY <1>1, LoweredFacts
<1>3. LoopConditions \subseteq Conds /\ Conditions \subseteq Conds /\ "opaque" \in Conds
  BY DEF LoopConditions, Conditions, Conds
<1>4. ASSUME NEW cond \in Conds, NEW has_step \in BOOLEAN, lowerLoop(cond, has_step)
      PROVE  Lowers' /\ scopes' # <<>>
  <2>1. Lowers'
    BY <1>1, <1>4, LoopLowers
  <2>2. scopes' # <<>>
    BY <1>2, <1>4, StaysOpen DEF lowerLoop
  <2> QED
    BY <2>1, <2>2
<1>5. CASE ReadBlock
  <2>1. OpenBlock
    BY <1>5 DEF ReadBlock
  <2>2. Lowers'
    BY <1>1, <2>1, OpenBlockLowers
  <2>3. scopes' # <<>>
    BY <1>2, <2>1, StaysOpen DEF OpenBlock
  <2> QED
    BY <2>2, <2>3
<1>6. CASE ReadIf
  <2>1. PICK cond \in Conditions, other \in {"none", "else"} \cup ({"elif"} \cap Kinds) : lowerIf(cond, other)
    BY <1>6 DEF ReadIf
  <2>2. cond \in Conds /\ other \in {"none", "else", "elif"}
    BY <1>3
  <2>3. Lowers'
    BY <1>1, <2>1, <2>2, IfLowers
  <2>4. scopes' # <<>>
    BY <1>2, <2>1, StaysOpen DEF lowerIf
  <2> QED
    BY <2>3, <2>4
<1>7. CASE ReadWhile
  BY <1>3, <1>4, <1>7 DEF ReadWhile, lowerWhile
<1>8. CASE ReadFor
  BY <1>3, <1>4, <1>8 DEF ReadFor, lowerFor
<1>9. CASE ReadForIn
  BY <1>3, <1>4, <1>9 DEF ReadForIn, lowerForIn
<1>10. CASE ReadWhen
  <2>1. PICK cases \in 1..2, has_default \in BOOLEAN : lowerWhen(cases, has_default)
    BY <1>10 DEF ReadWhen
  <2>2. cases \in Nat \ {0}
    OBVIOUS
  <2>3. Lowers'
    BY <1>1, <2>1, <2>2, WhenLowers
  <2>4. scopes' # <<>>
    BY <1>2, <2>1, StaysOpen DEF lowerWhen, BeginCase
  <2> QED
    BY <2>3, <2>4
<1> QED
  BY <1>5, <1>6, <1>7, <1>8, <1>9, <1>10 DEF ReadOpening

(***************************************************************************)
(* The execution.                                                          *)
(***************************************************************************)
\* Execution is at a place of a live block, in the state its trace has there.
Underway(want, live) ==
  LET N == Len(Block.insts) IN
  /\ at[1] \in live /\ at[2] \in 1..(N + 1)
  /\ \E p \in [1..(N + 1) -> States] :
       /\ Trace(p, Block.insts, want[at[1]]) /\ p[at[2]] = due
       /\ \A x \in Targets(Block.term) : x \in live /\ want[x] = p[N + 1]

\* What is lowered so far can be annotated; and so can what is executed, and
\* execution follows the annotation.
FlowInv ==
  /\ phase \in {"read", "run", "done"}
  /\ phase = "read" => Lowers /\ scopes # <<>> /\ at = <<1, 1>> /\ due = <<>>
  /\ phase = "run" => \E want, live : Whole(blocks, want, live) /\ Underway(want, live)

\* Execution enters a live block.
LEMMA Entered ==
    ASSUME NEW want, NEW live, Whole(blocks', want, live), NEW b \in live,
           at' = <<b, 1>>, due' = want[b]
    PROVE  Underway(want, live)'
<1> DEFINE insts == blocks'[b].insts
           N == Len(insts)
<1>1. /\ blocks' \in Code /\ b \in DOMAIN blocks' /\ Good(blocks'[b], want, live, b)
  BY DEF Whole, Annotated
<1>2. insts \in Seq(Insts)
  BY <1>1, CodeDomain
<1>3. at'[1] = b /\ at'[2] = 1
  OBVIOUS
<1>4. Block' = blocks'[b]
  BY <1>3 DEF Block
<1>5. PICK t \in States : /\ Leads(insts, want[b], t)
                          /\ \A x \in Targets(blocks'[b].term) : x \in live /\ want[x] = t
  BY <1>1 DEF Good
<1>6. PICK p \in [1..(N + 1) -> States] : Trace(p, insts, want[b]) /\ p[N + 1] = t
  BY <1>5 DEF Leads
<1>7. 1 \in 1..(N + 1) /\ p[1] = due'
  <2>1. N \in Nat
    BY <1>2
  <2> QED
    BY <1>6, <2>1 DEF Trace
<1> QED
  BY <1>3, <1>4, <1>5, <1>6, <1>7 DEF Underway

LEMMA FlowInit == Init => FlowInv
  BY InitLowers DEF Init, FlowInv

LEMMA FlowStep == FlowInv /\ [Next]_vars => FlowInv'
<1> SUFFICES ASSUME FlowInv, [Next]_vars
             PROVE  FlowInv'
  OBVIOUS
<1>1. CASE ReadStatement \/ ReadOpening
  <2>1. phase = "read" /\ UNCHANGED <<family, phase, value, machine>>
    BY <1>1 DEF ReadStatement, ReadOpening, ReadReturnProp, ReadProp, ReadAssert, ReadMust, ReadIndex,
                ReadDefer, ReadReturn, ReadBreak, ReadContinue, ReadSetNull, ReadSet, ReadDeref,
                ReadRead, ReadMove, ReadAssign, ReadUpdate, ReadBlock, ReadIf, ReadWhile, ReadFor,
                ReadForIn, ReadWhen, Opens, Reads
  <2>2. Lowers /\ scopes # <<>> /\ at = <<1, 1>> /\ due = <<>>
    BY <2>1 DEF FlowInv
  <2>3. Lowers' /\ scopes' # <<>>
    BY <1>1, <2>2, StatementLowers, OpeningLowers
  <2> QED
    BY <2>1, <2>2, <2>3 DEF FlowInv, machine
<1>2. CASE ReadClose
  <2>1. phase = "read" /\ CloseBlock /\ UNCHANGED <<family, size, phase, value, machine>>
    BY <1>2 DEF ReadClose
  <2>2. Lowers /\ scopes # <<>> /\ at = <<1, 1>> /\ due = <<>>
    BY <2>1 DEF FlowInv
  <2>3. Lowers' /\ scopes' # <<>>
    BY <2>1, <2>2, CloseLowers DEF Lowers
  <2> QED
    BY <2>1, <2>2, <2>3 DEF FlowInv, machine
<1>3. CASE ReadEnd
  <2>1. phase = "read" /\ CloseFunction /\ phase' = "run" /\ UNCHANGED machine
    BY <1>3 DEF ReadEnd
  <2>2. Lowers /\ scopes # <<>> /\ at = <<1, 1>> /\ due = <<>>
    BY <2>1 DEF FlowInv
  <2>3. PICK want, live, base : Lowered(want, live, base)
    BY <2>2 DEF Lowers
  <2>4. Whole(blocks', want, live)
    BY <2>1, <2>2, <2>3, FunctionEnds
  <2>5. 1 \in live /\ want[1] = <<>>
    BY <2>4 DEF Whole, Annotated
  <2>6. at' = <<1, 1>> /\ due' = want[1]
    BY <2>1, <2>2, <2>5 DEF machine
  <2>7. Underway(want, live)'
    BY <2>4, <2>5, <2>6, Entered
  <2> QED
    BY <2>1, <2>4, <2>7 DEF FlowInv
<1>4. CASE Execute
  <2>1. /\ phase = "run" /\ phase' = phase /\ blocks' = blocks /\ at[2] <= Len(Block.insts)
        /\ at' = <<at[1], at[2] + 1>> /\ due' = Effect(Block.insts[at[2]], due)
    BY <1>4 DEF Execute, AtInst, Inst, lowering
  <2>2. PICK want, live : Whole(blocks, want, live) /\ Underway(want, live)
    BY <2>1 DEF FlowInv
  <2> DEFINE insts == Block.insts
             N == Len(insts)
  <2>3. at[1] \in live /\ at[2] \in 1..(N + 1)
    BY <2>2 DEF Underway
  <2>4. PICK p \in [1..(N + 1) -> States] :
          /\ Trace(p, insts, want[at[1]]) /\ p[at[2]] = due
          /\ \A x \in Targets(Block.term) : x \in live /\ want[x] = p[N + 1]
    BY <2>2 DEF Underway
  <2>5. N \in Nat
    <3>1. blocks \in Code /\ at[1] \in DOMAIN blocks
      BY <2>2, <2>3 DEF Whole, Annotated
    <3>2. insts \in Seq(Insts)
      BY <3>1, CodeDomain DEF Block
    <3> QED
      BY <3>2
  <2>6. at[2] \in 1..N /\ at[2] + 1 \in 1..(N + 1)
    BY <2>1, <2>3, <2>5
  <2>7. due' = p[at[2] + 1]
    BY <2>1, <2>4, <2>6 DEF Trace
  <2>8. at'[1] = at[1] /\ at'[2] = at[2] + 1 /\ Block' = Block
    BY <2>1 DEF Block
  <2>9. Underway(want, live)'
    BY <2>3, <2>4, <2>6, <2>7, <2>8 DEF Underway
  <2>10. Whole(blocks', want, live)
    BY <2>1, <2>2
  <2> QED
    BY <2>1, <2>9, <2>10 DEF FlowInv
<1>5. CASE Transfer
  <2>1. phase = "run" /\ at[2] > Len(Block.insts) /\ blocks' = blocks /\ due' = due
    BY <1>5 DEF Transfer, AtEnd, lowering
  <2>2. PICK want, live : Whole(blocks, want, live) /\ Underway(want, live)
    BY <2>1 DEF FlowInv
  <2> DEFINE insts == Block.insts
             N == Len(insts)
  <2>3. at[1] \in live /\ at[2] \in 1..(N + 1)
    BY <2>2 DEF Underway
  <2>4. PICK p \in [1..(N + 1) -> States] :
          /\ Trace(p, insts, want[at[1]]) /\ p[at[2]] = due
          /\ \A x \in Targets(Block.term) : x \in live /\ want[x] = p[N + 1]
    BY <2>2 DEF Underway
  <2>5. N \in Nat
    <3>1. blocks \in Code /\ at[1] \in DOMAIN blocks
      BY <2>2, <2>3 DEF Whole, Annotated
    <3>2. insts \in Seq(Insts)
      BY <3>1, CodeDomain DEF Block
    <3> QED
      BY <3>2
  <2>6. due = p[N + 1]
    BY <2>1, <2>3, <2>4, <2>5
  <2>7. CASE phase' = "done"
    BY <2>7 DEF FlowInv
  <2>8. CASE \E x \in Targets(Block.term) : at' = <<x, 1>> /\ phase' = phase
    <3>1. PICK x \in Targets(Block.term) : at' = <<x, 1>> /\ phase' = phase
      BY <2>8
    <3>2. x \in live /\ due' = want[x]
      BY <2>1, <2>4, <2>6, <3>1
    <3>3. Whole(blocks', want, live)
      BY <2>1, <2>2
    <3>4. Underway(want, live)'
      BY <3>1, <3>2, <3>3, Entered
    <3> QED
      BY <2>1, <3>1, <3>3, <3>4 DEF FlowInv
  <2>9. phase' = "done" \/ \E x \in Targets(Block.term) : at' = <<x, 1>> /\ phase' = phase
    <3>1. CASE Block.term.kind = "jump" /\ at' = <<Block.term.to, 1>> /\ UNCHANGED phase
      BY <3>1 DEF Targets
    <3>2. CASE /\ Block.term.kind = "branch" /\ UNCHANGED phase
               /\ \E yes \in Taken(Block.term.cond) :
                    at' = <<IF yes THEN Block.term.yes ELSE Block.term.no, 1>>
      <4>1. Targets(Block.term) = {Block.term.yes, Block.term.no}
        BY <3>2 DEF Targets
      <4> QED
        BY <3>2, <4>1
    <3>3. CASE phase' = "done"
      BY <3>3
    <3> QED
      BY <1>5, <3>1, <3>2, <3>3 DEF Transfer
  <2> QED
    BY <2>7, <2>8, <2>9
<1>6. CASE UNCHANGED vars
  <2>1. /\ UNCHANGED lowering /\ phase' = phase /\ at' = at /\ due' = due
    BY <1>6 DEF vars, machine
  <2>2. blocks' = blocks
    BY <2>1 DEF lowering
  <2>3. phase = "read" => Lowers' /\ scopes' # <<>>
    BY <2>1, SkipLowers DEF FlowInv
  <2>4. \A want, live : Underway(want, live)' = Underway(want, live)
    BY <2>1, <2>2 DEF Underway, Block
  <2> QED
    BY <2>1, <2>2, <2>3, <2>4 DEF FlowInv
<1>7. [Next]_vars <=> \/ ReadStatement \/ ReadOpening \/ ReadClose \/ ReadEnd \/ Execute \/ Transfer
                      \/ UNCHANGED vars
  BY DEF Next, ReadStatement, ReadOpening
<1> QED
  BY <1>1, <1>2, <1>3, <1>4, <1>5, <1>6, <1>7

\* At every moment of the execution, the state is that of the block's trace.
LEMMA FlowShows == FlowInv => LandsInScope /\ DefersRunOnce /\ ExitsInReverse
<1> SUFFICES ASSUME FlowInv, phase = "run"
             PROVE  LandsInScope /\ DefersRunOnce /\ ExitsInReverse
  BY DEF LandsInScope, DefersRunOnce, RunsOnlyDue, InnermostRuns, ExitsInReverse, AtInst, AtEnd
<1>1. PICK want, live : Whole(blocks, want, live) /\ Underway(want, live)
  BY DEF FlowInv
<1> DEFINE insts == Block.insts
           N == Len(insts)
<1>2. at[1] \in live /\ at[2] \in 1..(N + 1)
  BY <1>1 DEF Underway
<1>3. PICK p \in [1..(N + 1) -> States] : Trace(p, insts, want[at[1]]) /\ p[at[2]] = due
  BY <1>1 DEF Underway
<1>4. N \in Nat
  <2>1. blocks \in Code /\ at[1] \in DOMAIN blocks
    BY <1>1, <1>2 DEF Whole, Annotated
  <2>2. insts \in Seq(Insts)
    BY <2>1, CodeDomain DEF Block
  <2> QED
    BY <2>2
<1>5. Block.term # None /\ Block.nest = ScopesOf(want[at[1]])
  BY <1>1, <1>2 DEF Whole, Sealed, Placed, Block
<1>6. LandsInScope
  <2>1. at[2] = 1 => due = want[at[1]]
    BY <1>3 DEF Trace
  <2> QED
    BY <1>5, <2>1 DEF LandsInScope, ScopesOf
<1>7. AtInst => Sound(Inst, due)
  <2>1. AtInst => at[2] \in 1..N
    BY <1>2, <1>4 DEF AtInst
  <2> QED
    BY <1>3, <2>1 DEF Trace, Inst
<1>8. DefersRunOnce /\ ExitsInReverse
  BY <1>7 DEF Sound, DefersRunOnce, RunsOnlyDue, InnermostRuns, ExitsInReverse
<1> QED
  BY <1>6, <1>8

LEMMA FlowHolds == Spec => []FlowInv
  BY FlowInit, FlowStep, PTL DEF Spec

\* LandsInScope for every program: wherever lowerBlock(), lowerIf(), lowerWhen(), the
\* loops, the exits and the expressions that branch have made a jump or a branch go to,
\* control arrives there out of exactly the source blocks that the target was lowered
\* inside, and no basic block that is reached was left without a terminator.
THEOREM Lands == Spec => []LandsInScope
<1>1. FlowInv => LandsInScope
  BY FlowShows
<1> QED
  BY <1>1, FlowHolds, PTL

\* DefersRunOnce for every program: the bodies that emitCleanupFrom() and the ends of
\* blocks emit run, on every path, once for each defer reached in the block that is left.
\* flushPendingDefers() copies the pending defers to the cleanup frame and leaves them
\* pending; the copies that a second flush makes lie on no path control can take.
THEOREM DefersRun == Spec => []DefersRunOnce
<1>1. FlowInv => DefersRunOnce
  BY FlowShows
<1> QED
  BY <1>1, FlowHolds, PTL

\* ExitsInReverse for every program: a return, break or continue, for which
\* emitCleanupFrom() walks the cleanup frames from the innermost one, runs the defers of
\* each block in the reverse of the order in which they were reached.
THEOREM Reversed == Spec => []ExitsInReverse
<1>1. FlowInv => ExitsInReverse
  BY FlowShows
<1> QED
  BY <1>1, FlowHolds, PTL
=============================================================================
