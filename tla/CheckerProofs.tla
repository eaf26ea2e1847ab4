---------------------------- MODULE CheckerProofs ----------------------------
(***************************************************************************)
(* Proofs about what the checker concludes from the source of a function.  *)
(* ControlFlowProofs relates the code to the stacks of the lowering        *)
(* (Lowers) and follows its execution (Underway).  Here a hazard is        *)
(* followed through the same code as the set of points where it may hold   *)
(* (Flowing), and what the checker knows of the constructs still open says *)
(* where it may not come (Kept).                                           *)
(***************************************************************************)
EXTENDS ControlFlowProofs

(***************************************************************************)
(* What the checker concludes.  A hazard (control may come here; the       *)
(* pointer may be null; the local may be dead) is followed through the     *)
(* code as a set T of points, a block and a place in it, at which it may   *)
(* hold: whether it holds first of all, what ends it, what starts it,      *)
(* which edges bar it, and what must not be met while it holds.            *)
(***************************************************************************)
Hazards == [first : BOOLEAN, ends : SUBSET Ops, starts : SUBSET Ops, bad : SUBSET Ops,
            bars : SUBSET (Conds \X BOOLEAN)]
\* Instructions that no hazard is about.
Quiet == {"enter", "defer", "run", "unwind", "leave", "abandon", "value"}
Hazard(h) == h \in Hazards /\ (h.ends \cup h.starts \cup h.bad) \cap Quiet = {}

Points(code) == {p \in Nat \X Nat : p[1] \in DOMAIN code /\ p[2] \in 1..(Len(code[p[1]].insts) + 1)}
Tip(code, b) == <<b, Len(code[b].insts) + 1>>

\* Where it passes on to.
Ways(h, term) ==
  CASE term.kind = "jump" -> {term.to}
    [] term.kind = "branch" ->
         {x \in {term.yes, term.no} : \/ x = term.yes /\ <<term.cond, TRUE>> \notin h.bars
                                      \/ x = term.no /\ <<term.cond, FALSE>> \notin h.bars}
    [] OTHER -> {}

Carried(h, T, b, insts) ==
  \A i \in 1..Len(insts) :
    /\ <<b, i>> \in T => insts[i].op \notin h.bad
    /\ <<b, i>> \in T /\ insts[i].op \notin h.ends => <<b, i + 1>> \in T
    /\ insts[i].op \in h.starts => <<b, i + 1>> \in T
Passed(h, T, b, block) ==
  /\ Carried(h, T, b, block.insts)
  /\ <<b, Len(block.insts) + 1>> \in T => \A x \in Ways(h, block.term) : <<x, 1>> \in T
Flowing(h, T, code) == T \subseteq Points(code) /\ \A b \in DOMAIN code : Passed(h, T, b, code[b])

Quietly(insts) == \A i \in 1..Len(insts) : insts[i].op \in Quiet
Alike(block, other) == block.insts = other.insts /\ block.term = other.term
Blank(block) == block.insts = <<>> /\ block.term = None

\* code became code2: more in the block cur, and the blocks of fresh put to use.
Moves(code, cur, code2, added, fresh) ==
  /\ Len(code) <= Len(code2) /\ DOMAIN code2 \ DOMAIN code \subseteq fresh
  /\ fresh \subseteq DOMAIN code2 \ {cur}
  /\ code2[cur].insts = code[cur].insts \o added
  /\ code[cur].term # None => added = <<>> /\ code2[cur].term = code[cur].term
  /\ \A b \in DOMAIN code \ (fresh \cup {cur}) : Alike(code2[b], code[b])
  /\ \A b \in fresh \cap DOMAIN code : Blank(code[b])
  /\ Quietly(added) /\ \A b \in fresh : Quietly(code2[b].insts)

\* The hazard reaches the blocks of taken.
Takes(h, T, code, cur, code2, fresh, taken) ==
  /\ taken \subseteq fresh
  /\ \A b \in fresh \cap DOMAIN code : <<b, 1>> \in T => b \in taken
  /\ code[cur].term = None /\ Tip(code, cur) \in T =>
       \A x \in Ways(h, code2[cur].term) : x \in taken \/ <<x, 1>> \in T
  /\ \A b \in taken : \A x \in Ways(h, code2[b].term) : x \in taken \/ <<x, 1>> \in T

Spread(h, T, code, cur, code2, T2, fresh, taken) ==
  /\ Flowing(h, T2, code2) /\ T \subseteq T2
  /\ \A x \in DOMAIN code2 \ {cur} : <<x, 1>> \in T2 <=> <<x, 1>> \in T \/ x \in taken
  /\ code[cur].term = None => (Tip(code2, cur) \in T2 <=> Tip(code, cur) \in T)
  /\ \A x \in fresh : Tip(code2, x) \in T2 <=> x \in taken

\* A block that had no instruction, with quiet ones, in which the hazard always or never holds.
LEMMA CarriedWhole ==
    ASSUME NEW h, Hazard(h), NEW T, NEW b, NEW insts \in Seq(Insts), Quietly(insts),
           \/ \A i \in 1..(Len(insts) + 1) : <<b, i>> \in T
           \/ \A i \in 1..(Len(insts) + 1) : <<b, i>> \notin T
    PROVE  Carried(h, T, b, insts)
<1> SUFFICES ASSUME NEW i \in 1..Len(insts)
             PROVE  /\ <<b, i>> \in T => insts[i].op \notin h.bad
                    /\ <<b, i>> \in T /\ insts[i].op \notin h.ends => <<b, i + 1>> \in T
                    /\ insts[i].op \in h.starts => <<b, i + 1>> \in T
  BY DEF Carried
<1>1. insts[i].op \notin h.bad /\ insts[i].op \notin h.starts
  BY DEF Quietly, Hazard
<1>2. i \in 1..(Len(insts) + 1) /\ i + 1 \in 1..(Len(insts) + 1)
  OBVIOUS
<1> QED
  BY <1>1, <1>2

\* More of them behind others.
LEMMA CarriedOn ==
    ASSUME NEW h, Hazard(h), NEW T, NEW T2, NEW b, NEW insts \in Seq(Insts), NEW added \in Seq(Insts),
           Quietly(added), Carried(h, T, b, insts),
           \A i \in 1..(Len(insts) + 1) : <<b, i>> \in T2 <=> <<b, i>> \in T,
           \A i \in (Len(insts) + 1)..(Len(insts) + Len(added) + 1) :
             <<b, i>> \in T2 <=> <<b, Len(insts) + 1>> \in T
    PROVE  Carried(h, T2, b, insts \o added)
<1> DEFINE N == Len(insts)
           M == Len(added)
           all == insts \o added
<1>1. /\ N \in Nat /\ M \in Nat /\ Len(all) = N + M
      /\ \A i \in 1..N : all[i] = insts[i]
      /\ \A i \in (N + 1)..(N + M) : all[i] = added[i - N] /\ i - N \in 1..M
  OBVIOUS
<1> HIDE DEF all, N, M
<1> SUFFICES ASSUME NEW i \in 1..(N + M)
             PROVE  /\ <<b, i>> \in T2 => all[i].op \notin h.bad
                    /\ <<b, i>> \in T2 /\ all[i].op \notin h.ends => <<b, i + 1>> \in T2
                    /\ all[i].op \in h.starts => <<b, i + 1>> \in T2
  BY <1>1 DEF Carried, all
<1>2. CASE i \in 1..N
  <2>1. i \in 1..(N + 1) /\ i + 1 \in 1..(N + 1)
    BY <1>1, <1>2
  <2>2. /\ <<b, i>> \in T => insts[i].op \notin h.bad
        /\ <<b, i>> \in T /\ insts[i].op \notin h.ends => <<b, i + 1>> \in T
        /\ insts[i].op \in h.starts => <<b, i + 1>> \in T
    BY <1>2 DEF Carried, N
  <2>3. (<<b, i>> \in T2 <=> <<b, i>> \in T) /\ (<<b, i + 1>> \in T2 <=> <<b, i + 1>> \in T)
    BY <2>1 DEF N
  <2> QED
    BY <1>1, <1>2, <2>2, <2>3
<1>3. CASE i \in (N + 1)..(N + M)
  <2>1. i \in (N + 1)..(N + M + 1) /\ i + 1 \in (N + 1)..(N + M + 1)
    BY <1>1, <1>3
  <2>2. <<b, i>> \in T2 <=> <<b, i + 1>> \in T2
    BY <2>1 DEF N, M
  <2>3. all[i].op \notin h.bad /\ all[i].op \notin h.starts
    BY <1>1, <1>3 DEF Quietly, Hazard, M
  <2> QED
    BY <2>2, <2>3
<1>4. i \in 1..N \/ i \in (N + 1)..(N + M)
  BY <1>1
<1> QED
  BY <1>2, <1>3, <1>4

LEMMA PointIs ==
    ASSUME NEW code \in Code
    PROVE  /\ \A b, i : <<b, i>> \in Points(code) <=>
                          b \in DOMAIN code /\ i \in 1..(Len(code[b].insts) + 1)
           /\ \A p \in Points(code) : p = <<p[1], p[2]>>
           /\ \A b \in DOMAIN code : Len(code[b].insts) \in Nat /\ b \in Nat
<1>1. ASSUME NEW b \in DOMAIN code
      PROVE  b \in Nat /\ Len(code[b].insts) \in Nat
  <2>1. b \in Nat /\ code[b].insts \in Seq(Insts)
    BY CodeDomain
  <2> QED
    BY <2>1
<1>2. ASSUME NEW b, NEW i
      PROVE  <<b, i>> \in Points(code) <=> b \in DOMAIN code /\ i \in 1..(Len(code[b].insts) + 1)
  BY <1>1 DEF Points
<1>3. \A p \in Points(code) : p = <<p[1], p[2]>>
  BY DEF Points
<1> QED
  BY <1>1, <1>2, <1>3

\* The points at which the hazard may hold in what the code has become.
Taken2(T, code, cur, code2, taken) ==
  {p \in Points(code2) : \/ p \in T \/ p[1] \in taken
                         \/ p[1] = cur /\ code[cur].term = None /\ Tip(code, cur) \in T
                            /\ p[2] > Len(code[cur].insts)}

LEMMA Spreads ==
    ASSUME NEW h, Hazard(h), NEW T, NEW code \in Code, Flowing(h, T, code), NEW cur \in DOMAIN code,
           NEW code2 \in Code, NEW added \in Seq(Insts), NEW fresh, NEW taken,
           Moves(code, cur, code2, added, fresh), Takes(h, T, code, cur, code2, fresh, taken)
    PROVE  \E T2 : Spread(h, T, code, cur, code2, T2, fresh, taken)
<1> DEFINE T2 == Taken2(T, code, cur, code2, taken)
           K == Len(code[cur].insts)
           M == Len(added)
           more == code[cur].term = None /\ Tip(code, cur) \in T
<1>1. /\ code[cur].insts \in Seq(Insts) /\ K \in Nat /\ M \in Nat
      /\ code2[cur].insts = code[cur].insts \o added /\ Len(code2[cur].insts) = K + M
      /\ DOMAIN code \subseteq DOMAIN code2 /\ cur \in DOMAIN code2 /\ cur \notin fresh
      /\ taken \subseteq fresh /\ fresh \subseteq DOMAIN code2
  <2>1. code[cur].insts \in Seq(Insts) /\ DOMAIN code = 1..Len(code) /\ DOMAIN code2 = 1..Len(code2)
        /\ Len(code) \in Nat /\ Len(code2) \in Nat
    BY CodeDomain
  <2>2. Len(code) <= Len(code2) /\ code2[cur].insts = code[cur].insts \o added
        /\ fresh \subseteq DOMAIN code2 \ {cur} /\ taken \subseteq fresh
    BY DEF Moves, Takes
  <2> QED
    BY <2>1, <2>2
<1>2. \A b \in DOMAIN code : Len(code[b].insts) \in Nat /\ Carried(h, T, b, code[b].insts)
                             /\ (Tip(code, b) \in T => \A x \in Ways(h, code[b].term) : <<x, 1>> \in T)
  BY PointIs DEF Flowing, Passed, Tip
<1>3. \A b \in DOMAIN code2 : Len(code2[b].insts) \in Nat /\ code2[b].insts \in Seq(Insts)
  BY PointIs, CodeDomain
<1>4. \A b, i : <<b, i>> \in T => b \in DOMAIN code /\ i \in 1..(Len(code[b].insts) + 1)
  BY PointIs DEF Flowing
<1>5. \A b, i : <<b, i>> \in T2 <=>
        /\ b \in DOMAIN code2 /\ i \in 1..(Len(code2[b].insts) + 1)
        /\ <<b, i>> \in T \/ b \in taken \/ (b = cur /\ more /\ i > K)
  <2>1. \A b, i : <<b, i>> \in Points(code2) <=> b \in DOMAIN code2 /\ i \in 1..(Len(code2[b].insts) + 1)
    BY PointIs
  <2> HIDE DEF more, K
  <2> QED
    BY <2>1 DEF Taken2, more, K
<1> HIDE DEF T2, more
<1>6. ASSUME NEW b, NEW i, <<b, i>> \in T
      PROVE  i \in 1..(Len(code2[b].insts) + 1)
  <2>1. b \in DOMAIN code /\ i \in 1..(Len(code[b].insts) + 1)
    BY <1>4, <1>6
  <2>2. CASE b = cur
    BY <1>1, <2>1, <2>2
  <2>3. CASE b \in fresh
    <3>1. code[b].insts = <<>>
      BY <2>1, <2>3 DEF Moves, Blank
    <3>2. i = 1
      BY <2>1, <3>1
    <3> QED
      BY <1>1, <1>3, <2>1, <3>2
  <2>4. CASE b \notin fresh /\ b # cur
    <3>1. code2[b].insts = code[b].insts
      BY <2>1, <2>4 DEF Moves, Alike
    <3> QED
      BY <2>1, <3>1
  <2> QED
    BY <2>2, <2>3, <2>4
<1>7. T \subseteq T2
  <2>1. ASSUME NEW p \in T
        PROVE  p \in T2
    <3>1. p = <<p[1], p[2]>>
      BY PointIs DEF Flowing
    <3>2. p[1] \in DOMAIN code2 /\ p[2] \in 1..(Len(code2[p[1]].insts) + 1)
      BY <1>1, <1>4, <1>6, <3>1
    <3> QED
      BY <1>5, <3>1, <3>2
  <2> QED
    BY <2>1
<1>8. T2 \subseteq Points(code2)
  BY DEF T2, Taken2
<1>9. \A x \in DOMAIN code2 \ {cur} : <<x, 1>> \in T2 <=> <<x, 1>> \in T \/ x \in taken
  <2>1. \A x \in DOMAIN code2 : 1 \in 1..(Len(code2[x].insts) + 1)
    BY <1>3
  <2> QED
    BY <1>5, <2>1
<1>10. code[cur].term = None => (Tip(code2, cur) \in T2 <=> Tip(code, cur) \in T)
  <2>1. K + M + 1 \in 1..(K + M + 1) /\ K + M + 1 > K
    BY <1>1
  <2>2. Tip(code2, cur) \in T2 <=> (Tip(code2, cur) \in T \/ more)
    BY <1>1, <1>5, <2>1 DEF Tip
  <2>3. Tip(code2, cur) \in T => Tip(code, cur) \in T
    <3>1. Tip(code2, cur) \in T => K + M + 1 \in 1..(K + 1)
      BY <1>1, <1>4 DEF Tip
    <3>2. K + M + 1 \in 1..(K + 1) => K + M + 1 = K + 1
      BY <1>1
    <3> QED
      BY <1>1, <3>1, <3>2 DEF Tip
  <2> QED
    BY <2>2, <2>3 DEF more
<1>11. ASSUME NEW x \in fresh, NEW i \in 1..(Len(code2[x].insts) + 1)
       PROVE  <<x, i>> \in T2 <=> x \in taken
  <2>1. <<x, i>> \in T => x \in taken
    <3>1. SUFFICES ASSUME <<x, i>> \in T
                   PROVE  x \in taken
      OBVIOUS
    <3>2. x \in DOMAIN code /\ i \in 1..(Len(code[x].insts) + 1)
      BY <1>4, <3>1
    <3>3. code[x].insts = <<>>
      BY <3>2 DEF Moves, Blank
    <3>4. i = 1
      BY <3>2, <3>3
    <3> QED
      BY <3>1, <3>2, <3>4 DEF Takes
  <2> QED
    BY <1>1, <1>5, <2>1
<1>12. \A x \in fresh : Tip(code2, x) \in T2 <=> x \in taken
  <2>1. \A x \in fresh : Len(code2[x].insts) + 1 \in 1..(Len(code2[x].insts) + 1)
    BY <1>1, <1>3
  <2> QED
    BY <1>11, <2>1 DEF Tip
<1>13. ASSUME NEW b \in DOMAIN code2
       PROVE  Passed(h, T2, b, code2[b])
  <2>1. CASE b \in fresh
    <3>1. Carried(h, T2, b, code2[b].insts)
      <4>1. Quietly(code2[b].insts) /\ code2[b].insts \in Seq(Insts)
        BY <1>3, <2>1 DEF Moves
      <4>2. \/ \A i \in 1..(Len(code2[b].insts) + 1) : <<b, i>> \in T2
            \/ \A i \in 1..(Len(code2[b].insts) + 1) : <<b, i>> \notin T2
        BY <1>11, <2>1
      <4> QED
        BY <4>1, <4>2, CarriedWhole
    <3>2. ASSUME Tip(code2, b) \in T2, NEW x \in Ways(h, code2[b].term)
          PROVE  <<x, 1>> \in T2
      <4>1. b \in taken
        BY <1>12, <2>1, <3>2
      <4>2. x \in taken \/ <<x, 1>> \in T
        BY <4>1 DEF Takes
      <4>3. x \in taken => x \in DOMAIN code2 \ {cur}
        BY <1>1
      <4> QED
        BY <1>7, <1>9, <4>2, <4>3
    <3> QED
      BY <3>1, <3>2 DEF Passed, Tip
  <2>2. CASE b = cur
    <3>1. Carried(h, T2, cur, code2[cur].insts)
      <4>1. Quietly(added)
        BY DEF Moves
      <4>2. \A i \in 1..(K + 1) : <<cur, i>> \in T2 <=> <<cur, i>> \in T
        <5>1. ASSUME NEW i \in 1..(K + 1)
              PROVE  <<cur, i>> \in T2 <=> <<cur, i>> \in T
          <6>1. i \in 1..(K + M + 1) /\ (i > K => i = K + 1)
            BY <1>1
          <6>2. more => <<cur, K + 1>> \in T
            BY DEF more, Tip
          <6> QED
            BY <1>1, <1>5, <6>1, <6>2
        <5> QED
          BY <5>1
      <4>3. CASE code[cur].term = None
        <5>1. ASSUME NEW i \in (K + 1)..(K + M + 1)
              PROVE  <<cur, i>> \in T2 <=> <<cur, K + 1>> \in T
          <6>1. i \in 1..(K + M + 1) /\ i > K
            BY <1>1
          <6>2. more <=> <<cur, K + 1>> \in T
            BY <4>3 DEF more, Tip
          <6>3. <<cur, i>> \in T => i = K + 1
            <7>1. <<cur, i>> \in T => i \in 1..(K + 1)
              BY <1>4
            <7> QED
              BY <1>1, <6>1, <7>1
          <6> QED
            BY <1>1, <1>5, <6>1, <6>2, <6>3
        <5> HIDE DEF K, M
        <5> QED
          BY <1>1, <1>2, <4>1, <4>2, <5>1, CarriedOn DEF K, M
      <4>4. CASE code[cur].term # None
        <5>1. added = <<>> /\ M = 0
          BY <4>4 DEF Moves
        <5>2. \A i \in (K + 1)..(K + M + 1) : i = K + 1 /\ i \in 1..(K + 1)
          BY <1>1, <5>1
        <5> HIDE DEF K, M
        <5> QED
          BY <1>1, <1>2, <4>1, <4>2, <5>2, CarriedOn DEF K, M
      <4> QED
        BY <4>3, <4>4
    <3>2. ASSUME Tip(code2, cur) \in T2, NEW x \in Ways(h, code2[cur].term)
          PROVE  <<x, 1>> \in T2
      <4>1. CASE code[cur].term = None
        <5>1. x \in taken \/ <<x, 1>> \in T
          BY <1>10, <3>2, <4>1 DEF Takes
        <5>2. x \in taken => x \in DOMAIN code2 \ {cur}
          BY <1>1
        <5> QED
          BY <1>7, <1>9, <5>1, <5>2
      <4>2. CASE code[cur].term # None
        <5>1. code2[cur].term = code[cur].term /\ added = <<>> /\ M = 0
          BY <4>2 DEF Moves
        <5>2. Tip(code2, cur) = Tip(code, cur)
          BY <1>1, <5>1 DEF Tip
        <5>3. Tip(code, cur) \in T
          BY <1>1, <1>5, <3>2, <4>2, <5>2 DEF Tip, more
        <5> QED
          BY <1>2, <1>7, <3>2, <5>1, <5>3
      <4> QED
        BY <4>1, <4>2
    <3> QED
      BY <2>2, <3>1, <3>2 DEF Passed, Tip
  <2>3. CASE b \notin fresh /\ b # cur
    <3>1. b \in DOMAIN code /\ code2[b].insts = code[b].insts /\ code2[b].term = code[b].term
      BY <2>3 DEF Moves, Alike
    <3>2. \A i : <<b, i>> \in T2 <=> <<b, i>> \in T
      BY <1>1, <1>4, <1>5, <2>3, <3>1
    <3>3. Carried(h, T2, b, code2[b].insts)
      BY <1>2, <3>1, <3>2 DEF Carried
    <3> QED
      BY <1>2, <1>7, <3>1, <3>2, <3>3 DEF Passed, Tip
  <2> QED
    BY <2>1, <2>2, <2>3
<1> QED
  BY <1>7, <1>8, <1>9, <1>10, <1>12, <1>13 DEF Spread, Flowing

(***************************************************************************)
(* The open constructs.  Level i of a view stands for the i-th open block: *)
(* whether the hazard may hold before the construct (the level behind the  *)
(* last: where the lowering is), and whether nothing that was read so far  *)
(* can bring it behind the construct, or to its next branch.               *)
(***************************************************************************)
Doors(T) == {x \in Nat : <<x, 1>> \in T}

Held(W, s, i, view) ==
  /\ s.part = "loop" /\ i \in view.before => s.other \in W
  /\ s.after # 0 /\ s.after \in W => i \in view.before /\ i \notin view.shut
  /\ s.part # "loop" /\ s.other \notin {0, s.after} /\ s.other \in W =>
       i \in view.before /\ i \notin view.cut

Kept(h, T, view) ==
  /\ Flowing(h, T, blocks) /\ (h.first => <<1, 1>> \in T)
  /\ Open /\ Tip(blocks, current) \in T => Len(scopes) + 1 \in view.before
  /\ \A i \in 2..Len(scopes) : Held(Doors(T), scopes[i], i, view)

\* What the checker has learned since says no more of level i than it did.
Relaxed(s, i, view, view2) ==
  /\ i \in view.before => i \in view2.before
  /\ s.part = "loop" /\ i \in view2.before => i \in view.before
  /\ i \in view2.shut => i \in view.shut
  /\ i \in view2.cut => i \in view.cut

LEMMA StillHeld ==
    ASSUME NEW W, NEW s, NEW i, NEW view, NEW view2, Held(W, s, i, view), Relaxed(s, i, view, view2),
           NEW W2, \A x \in AwaitedBy(s) : x \in W2 <=> x \in W,
           s.part = "loop" => s.other # 0
    PROVE  Held(W2, s, i, view2)
<1>1. s.after # 0 => (s.after \in W2 <=> s.after \in W)
  BY DEF AwaitedBy
<1>2. s.other # 0 => (s.other \in W2 <=> s.other \in W)
  BY DEF AwaitedBy
<1> QED
  BY <1>1, <1>2 DEF Held, Relaxed

LEMMA ScopeFacts ==
    ASSUME NEW want, NEW live, NEW base, Lowered(want, live, base), scopes # <<>>, NEW i \in 1..Len(scopes)
    PROVE  /\ scopes[i] \in ScopeRecords /\ Shape(blocks, scopes[i])
           /\ (scopes[i].part = "body" <=> i = 1)
           /\ AwaitedBy(scopes[i]) \subseteq DOMAIN blocks \ {current}
           /\ \A j \in 1..Len(scopes) : j # i => AwaitedBy(scopes[i]) \cap AwaitedBy(scopes[j]) = {}
           /\ \A x \in AwaitedBy(scopes[i]) : blocks[x].term = None => Blank(blocks[x])
<1>1. /\ Around(blocks, want, live, base, scopes, loops, cleanups, pending, {current})
      /\ scopes \in Seq(ScopeRecords) /\ Awaited(scopes) \subseteq DOMAIN blocks
  BY LoweredFacts
<1>2. DOMAIN scopes = 1..Len(scopes)
  BY <1>1
<1>3. StackFits(blocks, scopes) /\ {current} \cap Awaited(scopes) = {}
  BY <1>1 DEF Around
<1>4. AwaitedBy(scopes[i]) \subseteq Awaited(scopes)
  BY <1>2 DEF Awaited
<1> QED
  BY <1>1, <1>2, <1>3, <1>4 DEF StackFits, Untouched, Blank

\* The types of the next state.
LEMMA NextFacts ==
    ASSUME Lowers', scopes' # <<>>
    PROVE  /\ blocks' \in Code /\ current' \in DOMAIN blocks' /\ scopes' \in Seq(ScopeRecords)
           /\ \A i \in 1..Len(scopes') : AwaitedBy(scopes'[i]) \subseteq DOMAIN blocks'
<1>1. PICK want, live, base :
        Built(blocks', current', want, live, base, scopes', loops', cleanups', pending')
  BY DEF Lowers, Lowered
<1>2. Around(blocks', want, live, base, scopes', loops', cleanups', pending', {current'})
  BY <1>1 DEF Built
<1>3. /\ blocks' \in Code /\ {current'} \subseteq DOMAIN blocks' /\ scopes' \in Seq(ScopeRecords)
      /\ Awaited(scopes') \subseteq DOMAIN blocks'
  BY <1>2, BuiltFacts
<1>4. \A i \in 1..Len(scopes') : AwaitedBy(scopes'[i]) \subseteq Awaited(scopes')
  BY <1>3 DEF Awaited
<1> QED
  BY <1>3, <1>4

LEMMA Advance ==
    ASSUME NEW want, NEW live, NEW base, Lowered(want, live, base), scopes # <<>>,
           Lowers', scopes' # <<>>,
           NEW h, Hazard(h), NEW T, NEW view, Kept(h, T, view), NEW view2,
           NEW added \in Seq(Insts), NEW fresh, NEW taken,
           Moves(blocks, current, blocks', added, fresh),
           Takes(h, T, blocks, current, blocks', fresh, taken),
           \A i \in 2..Len(scopes') : /\ Held(Doors(T) \cup taken, scopes'[i], i, view2)
                                      /\ current \notin AwaitedBy(scopes'[i])
                                      /\ scopes'[i].part = "loop" => scopes'[i].other # 0,
           blocks'[current'].term = None =>
             \/ /\ current' = current /\ Open
                /\ Len(scopes) + 1 \in view.before => Len(scopes') + 1 \in view2.before
             \/ current' \in fresh /\ (current' \in taken => Len(scopes') + 1 \in view2.before)
    PROVE  \E T2 : Kept(h, T2, view2)'
<1>1. blocks \in Code /\ current \in DOMAIN blocks
  BY LoweredFacts
<1>2. /\ blocks' \in Code /\ current' \in DOMAIN blocks' /\ scopes' \in Seq(ScopeRecords)
      /\ \A i \in 1..Len(scopes') : AwaitedBy(scopes'[i]) \subseteq DOMAIN blocks'
  BY NextFacts
<1>3. PICK T2 : Spread(h, T, blocks, current, blocks', T2, fresh, taken)
  <2>1. Flowing(h, T, blocks)
    BY DEF Kept
  <2> QED
    BY <1>1, <1>2, <2>1, Spreads
<1>4. ASSUME NEW i \in 2..Len(scopes')
      PROVE  Held(Doors(T2), scopes'[i], i, view2)
  <2>1. i \in 1..Len(scopes')
    OBVIOUS
  <2>2. \A x \in AwaitedBy(scopes'[i]) : x \in DOMAIN blocks' \ {current} /\ x \in Nat
    <3>1. \A x \in AwaitedBy(scopes'[i]) : x \in DOMAIN blocks' \ {current}
      BY <1>2, <2>1
    <3>2. \A x \in DOMAIN blocks' : x \in Nat
      BY <1>2, CodeDomain
    <3> QED
      BY <3>1, <3>2
  <2>3. \A x \in AwaitedBy(scopes'[i]) : x \in Doors(T2) <=> x \in Doors(T) \cup taken
    BY <1>3, <2>2 DEF Spread, Doors
  <2>4. Relaxed(scopes'[i], i, view2, view2)
    BY DEF Relaxed
  <2> QED
    BY <2>3, <2>4, StillHeld
<1>5. ASSUME blocks'[current'].term = None, Tip(blocks', current') \in T2
      PROVE  Len(scopes') + 1 \in view2.before
  <2>1. CASE /\ current' = current /\ Open
             /\ Len(scopes) + 1 \in view.before => Len(scopes') + 1 \in view2.before
    <3>1. Tip(blocks, current) \in T
      BY <1>3, <1>5, <2>1 DEF Spread, Open
    <3> QED
      BY <2>1, <3>1 DEF Kept
  <2>2. CASE current' \in fresh /\ (current' \in taken => Len(scopes') + 1 \in view2.before)
    BY <1>3, <1>5, <2>2 DEF Spread
  <2> QED
    BY <1>5, <2>1, <2>2
<1>6. Flowing(h, T2, blocks') /\ (h.first => <<1, 1>> \in T2)
  BY <1>3 DEF Spread, Kept
<1> QED
  BY <1>4, <1>5, <1>6 DEF Kept, Open

\* A level that stays, when none of the blocks it awaits is put to use.
LEMMA LevelStays ==
    ASSUME NEW want, NEW live, NEW base, Lowered(want, live, base), scopes # <<>>,
           NEW h, NEW T, NEW view, Kept(h, T, view), NEW view2, NEW taken,
           NEW i \in 2..Len(scopes), Relaxed(scopes[i], i, view, view2),
           taken \cap AwaitedBy(scopes[i]) = {}
    PROVE  /\ Held(Doors(T) \cup taken, scopes[i], i, view2)
           /\ current \notin AwaitedBy(scopes[i]) /\ (scopes[i].part = "loop" => scopes[i].other # 0)
<1>1. i \in 1..Len(scopes)
  BY LoweredFacts
<1>2. Held(Doors(T), scopes[i], i, view)
  BY DEF Kept
<1>3. current \notin AwaitedBy(scopes[i]) /\ Shape(blocks, scopes[i])
  BY <1>1, ScopeFacts
<1>4. scopes[i].part = "loop" => scopes[i].other # 0
  BY <1>3 DEF Shape
<1>5. \A x \in AwaitedBy(scopes[i]) : x \in Doors(T) \cup taken <=> x \in Doors(T)
  OBVIOUS
<1> QED
  BY <1>2, <1>3, <1>4, <1>5, StillHeld

LEMMA Skipped ==
    ASSUME NEW want, NEW live, NEW base, Lowered(want, live, base), scopes # <<>>,
           NEW h, NEW T, NEW view, Kept(h, T, view), NEW view2,
           \A i \in 2..Len(scopes) : Relaxed(scopes[i], i, view, view2), Skip
    PROVE  Kept(h, T, view2)'
<1>1. blocks' = blocks /\ current' = current /\ scopes' = scopes /\ blocks[current].term # None
  BY DEF Skip, Open, lowering
<1>2. ASSUME NEW i \in 2..Len(scopes)
      PROVE  Held(Doors(T), scopes[i], i, view2)
  <2>1. Held(Doors(T) \cup {}, scopes[i], i, view2)
    BY LevelStays
  <2>2. Doors(T) \cup {} = Doors(T)
    OBVIOUS
  <2> QED
    BY <2>1, <2>2
<1>3. Flowing(h, T, blocks) /\ (h.first => <<1, 1>> \in T)
  BY DEF Kept
<1> QED
  BY <1>1, <1>2, <1>3 DEF Kept, Open

(***************************************************************************)
(* Statements.                                                             *)
(***************************************************************************)
LEMMA WaysIs ==
    ASSUME NEW h
    PROVE  /\ Ways(h, None) = {} /\ Ways(h, Ret) = {} /\ Ways(h, Panic) = {}
           /\ \A x : Ways(h, Jump(x)) = {x}
           /\ \A c, x, y : \A z \in Ways(h, Branch(c, x, y)) :
                (z = x /\ <<c, TRUE>> \notin h.bars) \/ (z = y /\ <<c, FALSE>> \notin h.bars)
<1>1. None.kind = "none" /\ Ret.kind = "ret" /\ Panic.kind = "panic"
  BY DEF None, Ret, Panic
<1>2. \A x : Jump(x).kind = "jump" /\ Jump(x).to = x
  BY DEF Jump
<1>3. Ways(h, None) = {} /\ Ways(h, Ret) = {} /\ Ways(h, Panic) = {}
  BY <1>1 DEF Ways
<1>4. \A x : Ways(h, Jump(x)) = {x}
  BY <1>2 DEF Ways
<1>5. ASSUME NEW c, NEW x, NEW y, NEW z \in Ways(h, Branch(c, x, y))
      PROVE  (z = x /\ <<c, TRUE>> \notin h.bars) \/ (z = y /\ <<c, FALSE>> \notin h.bars)
  <2> DEFINE term == Branch(c, x, y)
  <2>1. term.kind = "branch" /\ term.cond = c /\ term.yes = x /\ term.no = y
    BY DEF Branch
  <2>2. z \in Ways(h, term)
    BY <1>5
  <2> HIDE DEF term
  <2>3. Ways(h, term) = {w \in {term.yes, term.no} :
                           \/ w = term.yes /\ <<term.cond, TRUE>> \notin h.bars
                           \/ w = term.no /\ <<term.cond, FALSE>> \notin h.bars}
    BY <2>1 DEF Ways
  <2> QED
    BY <2>1, <2>2, <2>3
<1> QED
  BY <1>3, <1>4, <1>5

LEMMA BranchWays ==
    ASSUME NEW h, NEW c, NEW x, NEW y
    PROVE  \A z \in Ways(h, Branch(c, x, y)) : z \in {x, y}
<1> DEFINE w == Ways(h, Branch(c, x, y))
<1>1. \A z \in w : (z = x /\ <<c, TRUE>> \notin h.bars) \/ (z = y /\ <<c, FALSE>> \notin h.bars)
  BY WaysIs
<1> HIDE DEF w
<1>2. \A z \in w : z \in {x, y}
  BY <1>1
<1> QED
  BY <1>2 DEF w

LEMMA QuietOps ==
    /\ Quiet \subseteq Ops /\ Quietly(<<>>)
    /\ \A op \in Quiet, arg \in Nat \cup Places :
         <<Mark(op, arg)>> \in Seq(Insts) /\ Quietly(<<Mark(op, arg)>>)
    /\ \A op \in Quiet, d \in Seq(Places) : Runs(op, d) \in Seq(Insts) /\ Quietly(Runs(op, d))
<1>1. Quiet \subseteq Ops
  BY DEF Quiet, Ops
<1>2. Quietly(<<>>)
  BY DEF Quietly
<1>3. ASSUME NEW op \in Quiet, NEW arg \in Nat \cup Places
      PROVE  <<Mark(op, arg)>> \in Seq(Insts) /\ Quietly(<<Mark(op, arg)>>)
  <2>1. Mark(op, arg) \in Insts /\ Mark(op, arg).op = op
    BY <1>1, MarkIs
  <2> DEFINE inst == Mark(op, arg)
  <2> HIDE DEF inst
  <2>2. Len(<<inst>>) = 1 /\ <<inst>>[1] = inst
    OBVIOUS
  <2>3. Quietly(<<inst>>)
    BY <2>1, <2>2 DEF Quietly, inst
  <2> QED
    BY <2>1, <2>3 DEF inst
<1>4. ASSUME NEW op \in Quiet, NEW d \in Seq(Places)
      PROVE  Runs(op, d) \in Seq(Insts) /\ Quietly(Runs(op, d))
  <2>1. Runs(op, d) \in Seq(Insts)
    BY <1>1, RunsIs
  <2>2. DOMAIN Runs(op, d) = DOMAIN d /\ \A i \in DOMAIN d : Runs(op, d)[i] = Mark(op, d[i])
    BY DEF Runs
  <2>3. \A i \in DOMAIN d : Runs(op, d)[i].op = op
    BY <2>2 DEF Mark
  <2> DEFINE r == Runs(op, d)
  <2> HIDE DEF r
  <2>4. \A i \in 1..Len(r) : i \in DOMAIN r
    BY <2>1 DEF r
  <2> QED
    BY <2>1, <2>2, <2>3, <2>4 DEF Quietly, r
<1> QED
  BY <1>1, <1>2, <1>3, <1>4

LEMMA QuietBoth ==
    ASSUME NEW x \in Seq(Insts), NEW y \in Seq(Insts), Quietly(x), Quietly(y)
    PROVE  x \o y \in Seq(Insts) /\ Quietly(x \o y)
<1>1. /\ x \o y \in Seq(Insts) /\ Len(x \o y) = Len(x) + Len(y) /\ Len(x) \in Nat /\ Len(y) \in Nat
      /\ \A i \in 1..Len(x) : (x \o y)[i] = x[i]
      /\ \A i \in (Len(x) + 1)..(Len(x) + Len(y)) : (x \o y)[i] = y[i - Len(x)]
  OBVIOUS
<1> SUFFICES ASSUME NEW i \in 1..(Len(x) + Len(y))
             PROVE  (x \o y)[i].op \in Quiet
  BY <1>1 DEF Quietly
<1>2. CASE i \in 1..Len(x)
  BY <1>1, <1>2 DEF Quietly
<1>3. CASE i \in (Len(x) + 1)..(Len(x) + Len(y))
  <2>1. i - Len(x) \in 1..Len(y)
    BY <1>1, <1>3
  <2> QED
    BY <1>1, <1>3, <2>1 DEF Quietly
<1> QED
  BY <1>1, <1>2, <1>3

\* A statement that stays within the open blocks.
Within(h, T, added, fresh, taken) ==
  /\ added \in Seq(Insts) /\ Moves(blocks, current, blocks', added, fresh)
  /\ fresh \cap DOMAIN blocks = {} /\ scopes' = scopes
  /\ Takes(h, T, blocks, current, blocks', fresh, taken)

LEMMA StatementKeeps ==
    ASSUME NEW want, NEW live, NEW base, Lowered(want, live, base), scopes # <<>>, Lowers',
           NEW h, Hazard(h), NEW T, NEW view, Kept(h, T, view), NEW view2,
           \A i \in 2..Len(scopes) : Relaxed(scopes[i], i, view, view2),
           NEW added, NEW fresh, NEW taken, Within(h, T, added, fresh, taken),
           blocks'[current'].term = None =>
             \/ /\ current' = current /\ Open
                /\ Len(scopes) + 1 \in view.before => Len(scopes) + 1 \in view2.before
             \/ current' \in fresh /\ (current' \in taken => Len(scopes) + 1 \in view2.before)
    PROVE  \E T2 : Kept(h, T2, view2)'
<1>1. /\ added \in Seq(Insts) /\ Moves(blocks, current, blocks', added, fresh)
      /\ fresh \cap DOMAIN blocks = {} /\ scopes' = scopes
      /\ Takes(h, T, blocks, current, blocks', fresh, taken)
  BY DEF Within
<1>2. ASSUME NEW i \in 2..Len(scopes)
      PROVE  /\ Held(Doors(T) \cup taken, scopes[i], i, view2)
             /\ current \notin AwaitedBy(scopes[i])
             /\ scopes[i].part = "loop" => scopes[i].other # 0
  <2>1. i \in 1..Len(scopes)
    BY LoweredFacts
  <2>2. AwaitedBy(scopes[i]) \subseteq DOMAIN blocks
    BY <2>1, ScopeFacts
  <2>3. taken \cap AwaitedBy(scopes[i]) = {}
    BY <1>1, <2>2 DEF Takes
  <2> QED
    BY <2>3, LevelStays
<1> QED
  BY <1>1, <1>2, Advance

LEMMA DeferKeeps ==
    ASSUME NEW want, NEW live, NEW base, Lowered(want, live, base), scopes # <<>>, Lowers',
           NEW h, Hazard(h), NEW T, NEW view, Kept(h, T, view), NEW view2,
           \A i \in 2..Len(scopes) : Relaxed(scopes[i], i, view, view2),
           Len(scopes) + 1 \in view.before => Len(scopes) + 1 \in view2.before, Defer
    PROVE  \E T2 : Kept(h, T2, view2)'
<1> DEFINE added == <<Mark("defer", Here)>>
           code2 == Emit(blocks, current, added)
<1>1. blocks[current].term = None /\ blocks' = code2 /\ current' = current /\ scopes' = scopes
  BY DEF Defer, Open
<1>2. /\ blocks \in Code /\ current \in DOMAIN blocks /\ current \in Nat
      /\ blocks[current].insts \in Seq(Insts)
  BY LoweredFacts
<1>3. added \in Seq(Insts) /\ Quietly(added)
  <2>1. Here \in Places
    BY <1>2 DEF Here, Places
  <2>2. "defer" \in Quiet
    BY DEF Quiet
  <2> QED
    BY <2>1, <2>2, QuietOps
<1> HIDE DEF added
<1>4. /\ code2 \in Code /\ Len(code2) = Len(blocks) /\ DOMAIN code2 = DOMAIN blocks
      /\ \A b \in DOMAIN blocks \ {current} : code2[b] = blocks[b]
      /\ code2[current].insts = blocks[current].insts \o added
      /\ code2[current].term = blocks[current].term
  <2>1. code2 \in Code /\ Len(code2) = Len(blocks)
    BY <1>2, <1>3, EmitIs
  <2>2. DOMAIN code2 = DOMAIN blocks
    BY <1>2, <2>1, CodeDomain
  <2> QED
    BY <1>2, <1>3, <2>1, <2>2, EmitIs
<1> HIDE DEF code2
<1>5. Moves(blocks, current, blocks', added, {})
  <2>1. Len(blocks) <= Len(blocks')
    BY <1>1, <1>2, <1>4, CodeDomain
  <2> QED
    BY <1>1, <1>3, <1>4, <2>1 DEF Moves, Alike
<1>6. Takes(h, T, blocks, current, blocks', {}, {})
  <2>1. Ways(h, blocks'[current].term) = {}
    BY <1>1, <1>4, WaysIs
  <2> QED
    BY <2>1 DEF Takes
<1>7. Within(h, T, added, {}, {})
  BY <1>1, <1>3, <1>5, <1>6 DEF Within
<1> QED
  BY <1>1, <1>7, StatementKeeps DEF Open

(***************************************************************************)
(* A step of the lowering, with what the checker makes of it.              *)
(***************************************************************************)
Followed(h, T, view) == Lowers /\ scopes # <<>> /\ Lowers' /\ Hazard(h) /\ Kept(h, T, view)
Looser(n, view, view2) == \A i \in 2..n : Relaxed(scopes[i], i, view, view2)
\* The hazard may hold where the lowering is.
Here2(view) == Len(scopes) + 1 \in view.before
Fresh(n) == (Len(blocks) + 1)..(Len(blocks) + n)

\* Where the hazard goes when it is let into the blocks of taken.
Goes(h, T, view, taken) ==
  /\ Open /\ Here2(view) => \A x \in Ways(h, blocks'[current].term) : x \in taken \/ <<x, 1>> \in T
  /\ \A b \in taken : \A x \in Ways(h, blocks'[b].term) : x \in taken \/ <<x, 1>> \in T

LEMMA GoesTakes ==
    ASSUME NEW h, NEW T, NEW view, Followed(h, T, view), NEW fresh, NEW taken, taken \subseteq fresh,
           \A b \in fresh \cap DOMAIN blocks : <<b, 1>> \in T => b \in taken, Goes(h, T, view, taken)
    PROVE  Takes(h, T, blocks, current, blocks', fresh, taken)
<1>1. Open /\ Tip(blocks, current) \in T => Here2(view)
  BY DEF Followed, Kept, Here2
<1> QED
  BY <1>1 DEF Takes, Goes, Open

\* New blocks behind the others.
Added(n, added) ==
  /\ Open /\ added \in Seq(Insts) /\ Quietly(added)
  /\ Len(blocks') = Len(blocks) + n
  /\ \A b \in DOMAIN blocks \ {current} : Alike(blocks'[b], blocks[b])
  /\ blocks'[current].insts = blocks[current].insts \o added
  /\ \A b \in Fresh(n) : Quietly(blocks'[b].insts)

LEMMA AddedIs ==
    ASSUME NEW h, NEW T, NEW view, Followed(h, T, view), NEW n \in Nat, NEW added, Added(n, added),
           NEW taken, taken \subseteq Fresh(n), Goes(h, T, view, taken)
    PROVE  /\ Moves(blocks, current, blocks', added, Fresh(n)) /\ added \in Seq(Insts)
           /\ Takes(h, T, blocks, current, blocks', Fresh(n), taken)
           /\ Fresh(n) \cap DOMAIN blocks = {}
<1>1. PICK want, live, base : Lowered(want, live, base)
  BY DEF Followed, Lowers
<1>2. /\ DOMAIN blocks = 1..Len(blocks) /\ Len(blocks) \in Nat /\ current \in DOMAIN blocks
      /\ blocks \in Code
  BY <1>1, LoweredFacts DEF Followed
<1>3. Fresh(n) \cap DOMAIN blocks = {}
  BY <1>2 DEF Fresh
<1>4. Moves(blocks, current, blocks', added, Fresh(n))
  <2>1. Len(blocks') = Len(blocks) + n /\ DOMAIN blocks' = 1..Len(blocks')
    <3>1. Len(blocks') = Len(blocks) + n
      BY DEF Added
    <3>2. blocks' \in Seq(BlockRecords)
      <4>1. PICK w, l, bs : Built(blocks', current', w, l, bs, scopes', loops', cleanups', pending')
        BY DEF Followed, Lowers, Lowered
      <4> QED
        BY <4>1 DEF Built, Around, Annotated, Code
    <3> QED
      BY <3>1, <3>2
  <2>2. Len(blocks) <= Len(blocks') /\ DOMAIN blocks' \ DOMAIN blocks \subseteq Fresh(n)
        /\ Fresh(n) \subseteq DOMAIN blocks' \ {current}
    BY <1>2, <2>1 DEF Fresh
  <2> QED
    BY <1>2, <1>3, <2>2 DEF Moves, Added, Open
<1>5. Takes(h, T, blocks, current, blocks', Fresh(n), taken)
  BY <1>3, GoesTakes
<1> QED
  BY <1>3, <1>4, <1>5 DEF Added

\* Where the lowering goes on.
Arrives(view, view2, fresh, taken) ==
  blocks'[current'].term = None =>
    \/ /\ current' = current /\ Open
       /\ Here2(view) => Len(scopes') + 1 \in view2.before
    \/ current' \in fresh /\ (current' \in taken => Len(scopes') + 1 \in view2.before)

LEMMA WithinKeeps ==
    ASSUME NEW h, NEW T, NEW view, Followed(h, T, view), NEW view2, Looser(Len(scopes), view, view2),
           NEW n \in Nat, NEW added, Added(n, added), scopes' = scopes,
           NEW taken, taken \subseteq Fresh(n), Goes(h, T, view, taken),
           Arrives(view, view2, Fresh(n), taken)
    PROVE  \E T2 : Kept(h, T2, view2)'
<1>1. PICK want, live, base : Lowered(want, live, base)
  BY DEF Followed, Lowers
<1>2. Within(h, T, added, Fresh(n), taken)
  BY AddedIs DEF Within
<1>3. blocks'[current'].term = None =>
        \/ /\ current' = current /\ Open
           /\ Len(scopes) + 1 \in view.before => Len(scopes) + 1 \in view2.before
        \/ current' \in Fresh(n) /\ (current' \in taken => Len(scopes) + 1 \in view2.before)
  BY DEF Arrives, Here2
<1> QED
  BY <1>1, <1>2, <1>3, StatementKeeps DEF Followed, Looser

LEMMA BranchKeeps ==
    ASSUME NEW h, NEW T, NEW view, Followed(h, T, view), NEW view2, Looser(Len(scopes), view, view2),
           Here2(view) => Here2(view2),
           NEW failing \in BlockRecords, Quietly(failing.insts), failing.term \in {Ret, Panic},
           BranchTo(failing)
    PROVE  \E T2 : Kept(h, T2, view2)'
<1> DEFINE N == Len(blocks)
           term == Branch("opaque", N + 1, N + 2)
           code1 == Extended(blocks, current, 2, term)
           code2 == Filled(code1, N + 2, failing)
           code3 == Nested(code2, N + 1, InScopes(scopes))
           taken == IF Here2(view) THEN {N + 1, N + 2} ELSE {}
<1>0. /\ blocks[current].term = None /\ blocks' = code3 /\ current' = N + 1 /\ scopes' = scopes
  BY DEF BranchTo, Open, SetCurrent, Filled, Nested, Extended
<1>1. PICK want, live, base : Lowered(want, live, base)
  BY DEF Followed, Lowers
<1>2. /\ blocks \in Code /\ current \in DOMAIN blocks /\ blocks[current].insts \in Seq(Insts)
      /\ DOMAIN blocks = 1..N /\ N \in Nat /\ InScopes(scopes) \in Seq(Places)
  BY <1>1, LoweredFacts DEF Followed
<1> HIDE DEF N
<1>3. N + 1 \in Nat /\ N + 2 \in Nat /\ Fresh(2) = {N + 1, N + 2} /\ current # N + 1 /\ current # N + 2
  BY <1>2 DEF Fresh, N
<1>4. term \in Terms
  BY <1>3, TermTargets DEF Conds
<1>5. \A z \in Ways(h, term) : z \in {N + 1, N + 2}
  BY BranchWays
<1> HIDE DEF term
<1>6. IsExtended(code1, blocks, current, 2, term)
  BY <1>2, <1>4, ExtendedIs
<1>7. /\ code1 \in Code /\ Len(code1) = N + 2 /\ N + 1 \in DOMAIN code1 /\ N + 2 \in DOMAIN code1
      /\ \A b \in DOMAIN blocks \ {current} : code1[b] = blocks[b]
      /\ code1[current].insts = blocks[current].insts /\ code1[current].term = term
      /\ code1[N + 1] = newBlock
  <2>1. N + 1 \in (N + 1)..(N + 2)
    BY <1>2
  <2>2. code1 \in Code /\ Len(code1) = N + 2 /\ code1[N + 1] = newBlock
    BY <1>6, <2>1 DEF IsExtended, N
  <2>3. N + 1 \in DOMAIN code1 /\ N + 2 \in DOMAIN code1
    BY <1>2, <2>2, CodeDomain
  <2> QED
    BY <1>6, <2>2, <2>3 DEF IsExtended
<1> HIDE DEF code1
<1>8. /\ code2 \in Code /\ Len(code2) = N + 2 /\ N + 1 \in DOMAIN code2
      /\ \A b \in DOMAIN code1 \ {N + 2} : code2[b] = code1[b]
      /\ code2[N + 2] = failing
  <2>1. code2 \in Code /\ Len(code2) = Len(code1)
        /\ (\A b \in DOMAIN code1 \ {N + 2} : code2[b] = code1[b]) /\ code2[N + 2] = failing
    BY <1>7, FillIs
  <2> QED
    BY <1>7, <2>1, CodeDomain
<1> HIDE DEF code2
<1>9. /\ Len(code3) = N + 2
      /\ \A b \in DOMAIN code2 \ {N + 1} : code3[b] = code2[b]
      /\ code3[N + 1].insts = code2[N + 1].insts /\ code3[N + 1].term = code2[N + 1].term
  BY <1>2, <1>8, NestIs
<1> HIDE DEF code3
<1>10. /\ \A b \in DOMAIN blocks : b \in DOMAIN code1 /\ b \in DOMAIN code2 /\ b # N + 1 /\ b # N + 2
       /\ N + 1 # N + 2 /\ N + 2 \in DOMAIN code2
  BY <1>2, <1>7, <1>8, CodeDomain
<1>11. /\ \A b \in DOMAIN blocks \ {current} : blocks'[b] = blocks[b]
       /\ blocks'[current].insts = blocks[current].insts /\ blocks'[current].term = term
       /\ blocks'[N + 1].insts = <<>> /\ blocks'[N + 1].term = None /\ blocks'[N + 2] = failing
  BY <1>0, <1>2, <1>7, <1>8, <1>9, <1>10, NewBlock
<1>12. Added(2, <<>>)
  <2>1. blocks[current].insts \o <<>> = blocks[current].insts /\ <<>> \in Seq(Insts)
    BY <1>2
  <2>2. Len(blocks') = Len(blocks) + 2
    BY <1>0, <1>9 DEF N
  <2> QED
    BY <1>0, <1>3, <1>11, <2>1, <2>2, QuietOps DEF Added, Open, Alike
<1>13. Ways(h, None) = {} /\ Ways(h, failing.term) = {}
  BY WaysIs
<1>14. taken \subseteq Fresh(2) /\ Goes(h, T, view, taken)
  BY <1>3, <1>5, <1>11, <1>13 DEF Goes
<1>15. Arrives(view, view2, Fresh(2), taken)
  BY <1>0, <1>3 DEF Arrives, Here2
<1> HIDE DEF taken
<1> QED
  BY <1>0, <1>12, <1>14, <1>15, WithinKeeps

LEMMA QuietExit ==
    ASSUME NEW want, NEW live, NEW base, Lowered(want, live, base), scopes # <<>>, NEW first \in 1..Len(cleanups)
    PROVE  /\ Unwinding(Flushed(cleanups, pending), first) \in Seq(Insts)
           /\ Quietly(Unwinding(Flushed(cleanups, pending), first))
<1> DEFINE frames == Flushed(cleanups, pending)
           d == FlattenSeq(SubSeq(frames, first, Len(frames)))
<1>1. /\ cleanups \in Seq(Seq(Places)) /\ cleanups # <<>>
      /\ pending \in Seq(Seq(Places)) /\ pending # <<>>
  BY LoweredFacts
<1>2. frames \in Seq(Seq(Places)) /\ Len(frames) = Len(cleanups)
  BY <1>1, FlushIs
<1> HIDE DEF frames
<1>3. SubSeq(frames, first, Len(frames)) \in Seq(Seq(Places))
  <2>1. first \in 1..Len(frames)
    BY <1>2
  <2> QED
    BY <1>2, <2>1
<1>4. Reverse(d) \in Seq(Places)
  <2>1. d \in Seq(Places)
    BY <1>3, FlattenType
  <2> HIDE DEF d
  <2> QED
    BY <2>1, ReverseType
<1>5. "unwind" \in Quiet
  BY DEF Quiet
<1> HIDE DEF d
<1>6. Runs("unwind", Reverse(d)) \in Seq(Insts) /\ Quietly(Runs("unwind", Reverse(d)))
  BY <1>4, <1>5, QuietOps
<1> QED
  BY <1>6 DEF Unwinding, d, frames

LEMMA QuietMark ==
    ASSUME NEW op \in Quiet, NEW arg \in Nat
    PROVE  <<Mark(op, arg)>> \in Seq(Insts) /\ Quietly(<<Mark(op, arg)>>)
  BY QuietOps

LEMMA EmitsTwice ==
    ASSUME NEW code \in Code, NEW b \in DOMAIN code, NEW p \in Seq(Insts), NEW q \in Seq(Insts)
    PROVE  /\ Emit(Emit(code, b, p), b, q) \in Code /\ Len(Emit(Emit(code, b, p), b, q)) = Len(code)
           /\ \A c \in DOMAIN code \ {b} : Emit(Emit(code, b, p), b, q)[c] = code[c]
           /\ Emit(Emit(code, b, p), b, q)[b].insts = code[b].insts \o (p \o q)
           /\ Emit(Emit(code, b, p), b, q)[b].term = code[b].term
<1> DEFINE code1 == Emit(code, b, p)
           code2 == Emit(code1, b, q)
<1>1. /\ code1 \in Code /\ Len(code1) = Len(code) /\ b \in DOMAIN code1 /\ DOMAIN code1 = DOMAIN code
      /\ \A c \in DOMAIN code \ {b} : code1[c] = code[c]
      /\ code1[b].insts = code[b].insts \o p /\ code1[b].term = code[b].term
  <2>1. code1 \in Code /\ Len(code1) = Len(code)
    BY EmitIs
  <2> QED
    BY <2>1, EmitIs, CodeDomain
<1> HIDE DEF code1
<1>2. /\ code2 \in Code /\ Len(code2) = Len(code1)
      /\ \A c \in DOMAIN code1 \ {b} : code2[c] = code1[c]
      /\ code2[b].insts = code1[b].insts \o q /\ code2[b].term = code1[b].term
  BY <1>1, EmitIs
<1>3. (code[b].insts \o p) \o q = code[b].insts \o (p \o q)
  <2> DEFINE i == code[b].insts
  <2>1. i \in Seq(Insts)
    BY CodeDomain
  <2> HIDE DEF i
  <2>2. (i \o p) \o q = i \o (p \o q)
    BY <2>1, ConcatAssociative
  <2> QED
    BY <2>2 DEF i
<1> HIDE DEF code2
<1>4. /\ code2 \in Code /\ Len(code2) = Len(code) /\ \A c \in DOMAIN code \ {b} : code2[c] = code[c]
      /\ code2[b].insts = code[b].insts \o (p \o q) /\ code2[b].term = code[b].term
  BY <1>1, <1>2, <1>3
<1> QED
  BY <1>4 DEF code2, code1

LEMMA PropKeeps ==
    ASSUME NEW h, NEW T, NEW view, Followed(h, T, view), NEW view2, Looser(Len(scopes), view, view2),
           Here2(view) => Here2(view2), lowerOptionalProp
    PROVE  \E T2 : Kept(h, T2, view2)'
<1> DEFINE insts == <<Mark("abandon", Len(scopes))>>
           failing == Ends(insts, Ret)
<1>1. InScopes(scopes) \in Seq(Places) /\ Len(scopes) \in Nat
  <2>1. PICK want, live, base : Lowered(want, live, base)
    BY DEF Followed, Lowers
  <2> QED
    BY <2>1, LoweredFacts DEF Followed
<1>2. insts \in Seq(Insts) /\ Quietly(insts)
  <2>1. "abandon" \in Quiet
    BY DEF Quiet
  <2> QED
    BY <1>1, <2>1, QuietMark
<1>3. BranchTo(failing)
  BY DEF lowerOptionalProp
<1> HIDE DEF insts
<1>4. failing \in BlockRecords /\ failing.insts = insts /\ failing.term = Ret
  BY <1>1, <1>2, EndsIs, TermTargets
<1> HIDE DEF failing
<1> QED
  BY <1>2, <1>3, <1>4, BranchKeeps

LEMMA MustKeeps ==
    ASSUME NEW h, NEW T, NEW view, Followed(h, T, view), NEW view2, Looser(Len(scopes), view, view2),
           Here2(view) => Here2(view2), lowerOptionalPayload
    PROVE  \E T2 : Kept(h, T2, view2)'
<1> DEFINE failing == Ends(<<>>, Panic)
<1>1. InScopes(scopes) \in Seq(Places)
  <2>1. PICK want, live, base : Lowered(want, live, base)
    BY DEF Followed, Lowers
  <2> QED
    BY <2>1, LoweredFacts DEF Followed
<1>2. <<>> \in Seq(Insts)
  OBVIOUS
<1>3. BranchTo(failing)
  BY DEF lowerOptionalPayload
<1>4. failing \in BlockRecords /\ failing.insts = <<>> /\ failing.term = Panic
  BY <1>1, <1>2, EndsIs, TermTargets
<1> HIDE DEF failing
<1> QED
  BY <1>3, <1>4, QuietOps, BranchKeeps

LEMMA AssertKeeps ==
    ASSUME NEW h, NEW T, NEW view, Followed(h, T, view), NEW view2, Looser(Len(scopes), view, view2),
           Here2(view) => Here2(view2), lowerTestAssert
    PROVE  \E T2 : Kept(h, T2, view2)'
<1> DEFINE cleanup == Runs("unwind", Reverse(FlattenSeq(cleanups)))
           out == <<Mark("abandon", Len(scopes))>>
           insts == cleanup \o out
           failing == Ends(insts, Ret)
<1>1. InScopes(scopes) \in Seq(Places) /\ Len(scopes) \in Nat /\ cleanups \in Seq(Seq(Places))
  <2>1. PICK want, live, base : Lowered(want, live, base)
    BY DEF Followed, Lowers
  <2> QED
    BY <2>1, LoweredFacts DEF Followed
<1>2. out \in Seq(Insts) /\ Quietly(out)
  <2>1. "abandon" \in Quiet
    BY DEF Quiet
  <2> QED
    BY <1>1, <2>1, QuietMark
<1>3. cleanup \in Seq(Insts) /\ Quietly(cleanup)
  <2>1. FlattenSeq(cleanups) \in Seq(Places)
    BY <1>1, FlattenType
  <2>2. Reverse(FlattenSeq(cleanups)) \in Seq(Places) /\ "unwind" \in Quiet
    BY <2>1, ReverseType DEF Quiet
  <2> QED
    BY <2>2, QuietOps
<1>4. BranchTo(failing)
  BY DEF lowerTestAssert
<1> HIDE DEF cleanup, out
<1>5. insts \in Seq(Insts) /\ Quietly(insts)
  BY <1>2, <1>3, QuietBoth
<1> HIDE DEF insts
<1>6. failing \in BlockRecords /\ failing.insts = insts /\ failing.term = Ret
  BY <1>1, <1>5, EndsIs, TermTargets
<1> HIDE DEF failing
<1> QED
  BY <1>4, <1>5, <1>6, BranchKeeps

LEMMA IndexKeeps ==
    ASSUME NEW h, NEW T, NEW view, Followed(h, T, view), NEW view2, Looser(Len(scopes), view, view2),
           Here2(view) => Here2(view2), lowerIndex
    PROVE  \E T2 : Kept(h, T2, view2)'
<1> DEFINE N == Len(blocks)
           term == Branch("opaque", N + 1, N + 1 + 1)
           stored == Ends(<<>>, Jump(N + 1 + 2))
           code1 == Extended(blocks, current, 3, term)
           code2 == Filled(code1, N + 1, stored)
           code3 == Filled(code2, N + 1 + 1, stored)
           code4 == Nested(code3, N + 1 + 2, InScopes(scopes))
           taken == IF Here2(view) THEN {N + 1, N + 2, N + 3} ELSE {}
<1>0. /\ blocks[current].term = None /\ blocks' = code4 /\ current' = N + 1 + 2 /\ scopes' = scopes
  BY DEF lowerIndex, Open, SetCurrent, Filled, Nested, Extended
<1>1. PICK want, live, base : Lowered(want, live, base)
  BY DEF Followed, Lowers
<1>2. /\ blocks \in Code /\ current \in DOMAIN blocks /\ blocks[current].insts \in Seq(Insts)
      /\ DOMAIN blocks = 1..N /\ N \in Nat /\ InScopes(scopes) \in Seq(Places)
  BY <1>1, LoweredFacts DEF Followed
<1> HIDE DEF N
<1>3. /\ N + 1 \in Nat /\ N + 1 + 1 = N + 2 /\ N + 2 \in Nat /\ N + 1 + 2 = N + 3 /\ N + 3 \in Nat
      /\ Fresh(3) = {N + 1, N + 2, N + 3} /\ current # N + 1 /\ current # N + 2 /\ current # N + 3
      /\ N + 1 # N + 2 /\ N + 2 # N + 3 /\ N + 1 # N + 3
  BY <1>2 DEF Fresh, N
<1>4. term \in Terms /\ (\A z \in Ways(h, term) : z \in {N + 1, N + 2})
  <2>1. term \in Terms
    BY <1>3, TermTargets DEF Conds
  <2>2. \A z \in Ways(h, term) : z \in {N + 1, N + 1 + 1}
    BY BranchWays
  <2> QED
    BY <1>3, <2>1, <2>2
<1>5. stored \in BlockRecords /\ stored.insts = <<>> /\ Ways(h, stored.term) = {N + 3}
  <2>1. <<>> \in Seq(Insts) /\ Jump(N + 1 + 2) \in Terms
    BY <1>3, TermTargets
  <2>2. stored \in BlockRecords /\ stored.insts = <<>> /\ stored.term = Jump(N + 1 + 2)
    BY <1>2, <2>1, EndsIs
  <2>3. Ways(h, Jump(N + 1 + 2)) = {N + 1 + 2}
    BY WaysIs
  <2> QED
    BY <1>3, <2>2, <2>3
<1> HIDE DEF term, stored
<1>6. IsExtended(code1, blocks, current, 3, term)
  BY <1>2, <1>4, ExtendedIs
<1>7. /\ code1 \in Code /\ Len(code1) = N + 3 /\ DOMAIN code1 = 1..(N + 3)
      /\ \A b \in DOMAIN blocks \ {current} : code1[b] = blocks[b]
      /\ code1[current].insts = blocks[current].insts /\ code1[current].term = term
      /\ code1[N + 3] = newBlock
  <2>1. N + 3 \in (N + 1)..(N + 3)
    BY <1>2
  <2>2. code1 \in Code /\ Len(code1) = N + 3 /\ code1[N + 3] = newBlock
    BY <1>6, <2>1 DEF IsExtended, N
  <2>3. DOMAIN code1 = 1..(N + 3)
    BY <2>2, CodeDomain
  <2> QED
    BY <1>6, <2>2, <2>3 DEF IsExtended
<1>8. /\ N + 1 \in 1..(N + 3) /\ N + 1 + 1 \in 1..(N + 3) /\ N + 1 + 2 \in 1..(N + 3)
      /\ \A b \in DOMAIN blocks : b \in 1..(N + 3) /\ b # N + 1 /\ b # N + 2 /\ b # N + 3
  BY <1>2
<1> HIDE DEF code1
<1>9. /\ code2 \in Code /\ Len(code2) = N + 3 /\ DOMAIN code2 = 1..(N + 3)
      /\ \A b \in 1..(N + 3) : b # N + 1 => code2[b] = code1[b]
      /\ code2[N + 1] = stored
  <2>1. code2 \in Code /\ Len(code2) = Len(code1)
        /\ (\A b \in DOMAIN code1 \ {N + 1} : code2[b] = code1[b]) /\ code2[N + 1] = stored
    <3>1. N + 1 \in DOMAIN code1
      BY <1>7, <1>8
    <3> QED
      BY <1>5, <1>7, <3>1, FillIs
  <2> QED
    BY <1>7, <2>1, CodeDomain
<1> HIDE DEF code2
<1>10. /\ code3 \in Code /\ Len(code3) = N + 3 /\ DOMAIN code3 = 1..(N + 3)
       /\ \A b \in 1..(N + 3) : b # N + 2 => code3[b] = code2[b]
       /\ code3[N + 2] = stored
  <2>1. code3 \in Code /\ Len(code3) = Len(code2)
        /\ (\A b \in DOMAIN code2 \ {N + 1 + 1} : code3[b] = code2[b]) /\ code3[N + 1 + 1] = stored
    <3>1. N + 1 + 1 \in DOMAIN code2
      BY <1>8, <1>9
    <3> QED
      BY <1>5, <1>9, <3>1, FillIs
  <2> QED
    BY <1>3, <1>9, <2>1, CodeDomain
<1> HIDE DEF code3
<1>11. /\ Len(code4) = N + 3 /\ \A b \in 1..(N + 3) : b # N + 3 => code4[b] = code3[b]
       /\ code4[N + 3].insts = code3[N + 3].insts /\ code4[N + 3].term = code3[N + 3].term
  <2>1. /\ Len(code4) = Len(code3) /\ \A b \in DOMAIN code3 \ {N + 1 + 2} : code4[b] = code3[b]
        /\ code4[N + 1 + 2].insts = code3[N + 1 + 2].insts
        /\ code4[N + 1 + 2].term = code3[N + 1 + 2].term
    <3>1. N + 1 + 2 \in DOMAIN code3
      BY <1>8, <1>10
    <3> QED
      BY <1>2, <1>10, <3>1, NestIs
  <2> QED
    BY <1>3, <1>10, <2>1
<1> HIDE DEF code4
<1>12. /\ \A b \in DOMAIN blocks \ {current} : blocks'[b] = blocks[b]
       /\ blocks'[current].insts = blocks[current].insts /\ blocks'[current].term = term
       /\ blocks'[N + 1] = stored /\ blocks'[N + 2] = stored
       /\ blocks'[N + 3].insts = <<>> /\ blocks'[N + 3].term = None
  <2>1. \A b \in DOMAIN blocks : blocks'[b] = code1[b]
    BY <1>0, <1>8, <1>9, <1>10, <1>11
  <2>2. blocks'[N + 1] = stored /\ blocks'[N + 2] = stored
    BY <1>0, <1>3, <1>8, <1>9, <1>10, <1>11
  <2>3. blocks'[N + 3].insts = <<>> /\ blocks'[N + 3].term = None
    BY <1>0, <1>3, <1>7, <1>8, <1>9, <1>10, <1>11, NewBlock
  <2> QED
    BY <1>2, <1>7, <2>1, <2>2, <2>3
<1>13. Added(3, <<>>)
  <2>1. blocks[current].insts \o <<>> = blocks[current].insts /\ <<>> \in Seq(Insts)
    BY <1>2
  <2>2. Len(blocks') = Len(blocks) + 3
    BY <1>0, <1>11 DEF N
  <2> QED
    BY <1>0, <1>3, <1>5, <1>12, <2>1, <2>2, QuietOps DEF Added, Open, Alike
<1>14. Ways(h, None) = {}
  BY WaysIs
<1>15. taken \subseteq Fresh(3) /\ Goes(h, T, view, taken)
  BY <1>3, <1>4, <1>5, <1>12, <1>14 DEF Goes
<1>16. Arrives(view, view2, Fresh(3), taken)
  BY <1>0, <1>3 DEF Arrives, Here2
<1> HIDE DEF taken
<1> QED
  BY <1>0, <1>13, <1>15, <1>16, WithinKeeps

LEMMA ReturnKeeps ==
    ASSUME NEW h, NEW T, NEW view, Followed(h, T, view), NEW view2, Looser(Len(scopes), view, view2), Return
    PROVE  \E T2 : Kept(h, T2, view2)'
<1> DEFINE n == Len(scopes)
           unwinding == Unwinding(Flushed(cleanups, pending), 1)
           out == <<Mark("value", 0), Mark("leave", n)>>
           code1 == Emit(Emit(blocks, current, unwinding), current, out)
           code2 == Seal(code1, current, Ret)
<1>0. blocks[current].term = None /\ blocks' = code2 /\ current' = current /\ scopes' = scopes
  <2>1. blocks[current].term = None /\ cleanups' = Flushed(cleanups, pending)
        /\ current' = current /\ scopes' = scopes
    BY DEF Return, Open, flushPendingDefers, Flushed
  <2>2. emitCleanupFrom(blocks, cleanups', 1) = Emit(blocks, current, unwinding)
    BY <2>1 DEF emitCleanupFrom, Unwinding
  <2> QED
    BY <2>1, <2>2 DEF Return
<1>1. PICK want, live, base : Lowered(want, live, base)
  BY DEF Followed, Lowers
<1>2. /\ blocks \in Code /\ current \in DOMAIN blocks /\ n \in Nat
      /\ cleanups \in Seq(Seq(Places)) /\ cleanups # <<>>
  BY <1>1, LoweredFacts DEF Followed
<1>3. unwinding \in Seq(Insts) /\ Quietly(unwinding)
  <2>1. 1 \in 1..Len(cleanups)
    BY <1>2
  <2> QED
    BY <1>1, <2>1, QuietExit DEF Followed
<1>4. out \in Seq(Insts) /\ Quietly(out)
  <2> DEFINE x == <<Mark("value", 0)>>
             y == <<Mark("leave", n)>>
  <2>1. "value" \in Quiet /\ "leave" \in Quiet
    BY DEF Quiet
  <2>2. x \in Seq(Insts) /\ Quietly(x) /\ y \in Seq(Insts) /\ Quietly(y)
    BY <1>2, <2>1, QuietMark
  <2>3. out = x \o y
    OBVIOUS
  <2> HIDE DEF x, y, out
  <2> QED
    BY <2>2, <2>3, QuietBoth
<1> HIDE DEF unwinding, out, n
<1>5. /\ code1 \in Code /\ Len(code1) = Len(blocks) /\ current \in DOMAIN code1 /\ DOMAIN code1 = DOMAIN blocks
      /\ \A c \in DOMAIN blocks \ {current} : code1[c] = blocks[c]
      /\ code1[current].insts = blocks[current].insts \o (unwinding \o out)
  <2>1. /\ code1 \in Code /\ Len(code1) = Len(blocks)
        /\ \A c \in DOMAIN blocks \ {current} : code1[c] = blocks[c]
        /\ code1[current].insts = blocks[current].insts \o (unwinding \o out)
    BY <1>2, <1>3, <1>4, EmitsTwice
  <2> HIDE DEF code1
  <2>2. DOMAIN code1 = DOMAIN blocks
    BY <1>2, <2>1, CodeDomain
  <2> QED
    BY <1>2, <2>1, <2>2
<1> HIDE DEF code1
<1>6. /\ Len(code2) = Len(code1) /\ \A c \in DOMAIN code1 \ {current} : code2[c] = code1[c]
      /\ code2[current].insts = code1[current].insts /\ code2[current].term = Ret
  BY <1>5, SealIs, TermTargets
<1> HIDE DEF code2
<1>7. unwinding \o out \in Seq(Insts) /\ Quietly(unwinding \o out)
  BY <1>3, <1>4, QuietBoth
<1>8. Fresh(0) = {} /\ Len(blocks) + 0 = Len(blocks)
  BY <1>2, CodeDomain DEF Fresh
<1>9. Added(0, unwinding \o out)
  BY <1>0, <1>5, <1>6, <1>7, <1>8 DEF Added, Open, Alike
<1>10. Goes(h, T, view, {})
  BY <1>0, <1>6, WaysIs DEF Goes
<1>11. Arrives(view, view2, Fresh(0), {})
  BY <1>0, <1>6, TermTargets DEF Arrives
<1> QED
  BY <1>0, <1>9, <1>10, <1>11, WithinKeeps

LEMMA ReturnPropKeeps ==
    ASSUME NEW h, NEW T, NEW view, Followed(h, T, view), NEW view2, Looser(Len(scopes), view, view2), ReturnProp
    PROVE  \E T2 : Kept(h, T2, view2)'
<1> DEFINE N == Len(blocks)
           n == Len(scopes)
           unwinding == Unwinding(Flushed(cleanups, pending), 1)
           leaving == <<Mark("leave", n)>>
           out == Ends(leaving, Ret)
           term == Branch("opaque", N + 1, N + 1 + 1)
           code1 == Emit(blocks, current, unwinding)
           code2 == Extended(code1, current, 2, term)
           code3 == Filled(code2, N + 1, out)
           code4 == Filled(code3, N + 1 + 1, out)
           taken == IF Here2(view) THEN {N + 1, N + 2} ELSE {}
<1>0. blocks[current].term = None /\ blocks' = code4 /\ current' = N + 1 /\ scopes' = scopes
  <2>1. blocks[current].term = None /\ cleanups' = Flushed(cleanups, pending)
        /\ current' = N + 1 /\ scopes' = scopes
    BY DEF ReturnProp, Open, flushPendingDefers, Flushed
  <2>2. emitCleanupFrom(blocks, cleanups', 1) = code1
    BY <2>1 DEF emitCleanupFrom, Unwinding
  <2> QED
    BY <2>1, <2>2 DEF ReturnProp, Extended, Filled
<1>1. PICK want, live, base : Lowered(want, live, base)
  BY DEF Followed, Lowers
<1>2. /\ blocks \in Code /\ current \in DOMAIN blocks /\ blocks[current].insts \in Seq(Insts)
      /\ DOMAIN blocks = 1..N /\ N \in Nat /\ n \in Nat /\ InScopes(scopes) \in Seq(Places)
      /\ cleanups \in Seq(Seq(Places)) /\ cleanups # <<>>
  BY <1>1, LoweredFacts DEF Followed
<1>3. unwinding \in Seq(Insts) /\ Quietly(unwinding)
  <2>1. 1 \in 1..Len(cleanups)
    BY <1>2
  <2> QED
    BY <1>1, <2>1, QuietExit DEF Followed
<1>4. leaving \in Seq(Insts) /\ Quietly(leaving)
  <2>1. "leave" \in Quiet
    BY DEF Quiet
  <2> QED
    BY <1>2, <2>1, QuietMark
<1> HIDE DEF unwinding, leaving, n, N
<1>5. out \in BlockRecords /\ out.insts = leaving /\ out.term = Ret
  BY <1>2, <1>4, EndsIs, TermTargets
<1>6. /\ N + 1 \in Nat /\ N + 1 + 1 = N + 2 /\ N + 2 \in Nat /\ N + 1 # N + 2
      /\ Fresh(2) = {N + 1, N + 2} /\ current # N + 1 /\ current # N + 2
  <2>1. N \in Nat /\ current \in 1..N /\ Fresh(2) = (N + 1)..(N + 2)
    BY <1>2 DEF Fresh, N
  <2> QED
    BY <2>1
<1>7. term \in Terms /\ (\A z \in Ways(h, term) : z \in {N + 1, N + 2})
  <2>1. term \in Terms
    BY <1>6, TermTargets DEF Conds
  <2>2. \A z \in Ways(h, term) : z \in {N + 1, N + 1 + 1}
    BY BranchWays
  <2> QED
    BY <1>6, <2>1, <2>2
<1> HIDE DEF out, term
<1>8. /\ code1 \in Code /\ Len(code1) = N /\ DOMAIN code1 = 1..N
      /\ \A b \in DOMAIN blocks \ {current} : code1[b] = blocks[b]
      /\ code1[current].insts = blocks[current].insts \o unwinding
  <2>1. code1 \in Code /\ Len(code1) = N
    BY <1>2, <1>3, EmitIs DEF N
  <2> QED
    BY <1>2, <1>3, <2>1, EmitIs, CodeDomain
<1> HIDE DEF code1
<1>9. IsExtended(code2, code1, current, 2, term)
  BY <1>2, <1>7, <1>8, ExtendedIs
<1>10. /\ code2 \in Code /\ Len(code2) = N + 2 /\ DOMAIN code2 = 1..(N + 2)
       /\ \A b \in DOMAIN blocks \ {current} : code2[b] = blocks[b]
       /\ code2[current].insts = blocks[current].insts \o unwinding /\ code2[current].term = term
  <2>1. code2 \in Code /\ Len(code2) = N + 2
    BY <1>8, <1>9 DEF IsExtended
  <2>2. DOMAIN code2 = 1..(N + 2)
    BY <2>1, CodeDomain
  <2> QED
    BY <1>2, <1>8, <1>9, <2>1, <2>2 DEF IsExtended
<1>11. /\ N + 1 \in 1..(N + 2) /\ N + 1 + 1 \in 1..(N + 2)
       /\ \A b \in DOMAIN blocks : b \in 1..(N + 2) /\ b # N + 1 /\ b # N + 1 + 1
  BY <1>2
<1> HIDE DEF code2
<1>12. /\ code3 \in Code /\ Len(code3) = N + 2 /\ DOMAIN code3 = 1..(N + 2)
       /\ \A b \in DOMAIN blocks : code3[b] = code2[b]
       /\ code3[N + 1] = out
  <2>1. code3 \in Code /\ Len(code3) = Len(code2)
        /\ (\A b \in DOMAIN code2 \ {N + 1} : code3[b] = code2[b]) /\ code3[N + 1] = out
    <3>1. N + 1 \in DOMAIN code2
      BY <1>10, <1>11
    <3> QED
      BY <1>5, <1>10, <3>1, FillIs
  <2> QED
    BY <1>10, <1>11, <2>1, CodeDomain
<1> HIDE DEF code3
<1>13. /\ Len(code4) = N + 2
       /\ \A b \in DOMAIN blocks : code4[b] = code2[b]
       /\ code4[N + 1] = out /\ code4[N + 2] = out
  <2>1. Len(code4) = Len(code3)
        /\ (\A b \in DOMAIN code3 \ {N + 1 + 1} : code4[b] = code3[b]) /\ code4[N + 1 + 1] = out
    <3>1. N + 1 + 1 \in DOMAIN code3
      BY <1>11, <1>12
    <3> QED
      BY <1>5, <1>12, <3>1, FillIs
  <2> QED
    BY <1>6, <1>11, <1>12, <2>1
<1> HIDE DEF code4
<1>14. Added(2, unwinding)
  <2>1. Len(blocks') = Len(blocks) + 2
    BY <1>0, <1>13 DEF N
  <2> QED
    BY <1>0, <1>2, <1>3, <1>4, <1>5, <1>6, <1>10, <1>13, <2>1 DEF Added, Open, Alike
<1>15. taken \subseteq Fresh(2) /\ Goes(h, T, view, taken)
  <2>1. Ways(h, Ret) = {}
    BY WaysIs
  <2> QED
    BY <1>0, <1>2, <1>5, <1>6, <1>7, <1>10, <1>13, <2>1 DEF Goes
<1>16. Arrives(view, view2, Fresh(2), taken)
  BY <1>0, <1>5, <1>13, TermTargets DEF Arrives
<1> HIDE DEF taken
<1> QED
  BY <1>0, <1>14, <1>15, <1>16, WithinKeeps

LEMMA EmitsHere ==
    ASSUME NEW want, NEW live, NEW base, Lowered(want, live, base), scopes # <<>>
    PROVE  \A u, l \in Seq(Insts) :
             LET e == Emit(Emit(blocks, current, u), current, l) IN
             /\ e \in Code /\ Len(e) = Len(blocks)
             /\ \A b \in DOMAIN blocks \ {current} : e[b] = blocks[b]
             /\ e[current].insts = blocks[current].insts \o (u \o l)
<1>1. blocks \in Code /\ current \in DOMAIN blocks
  BY LoweredFacts
<1> QED
  BY <1>1, EmitsTwice

LEMMA LeaveKeeps ==
    ASSUME NEW h, NEW T, NEW view, Followed(h, T, view), NEW view2, Looser(Len(scopes), view, view2),
           NEW k \in Nat, NEW target \in {"break_block", "continue_block"}, LeaveLoop(k, target),
           Here2(view) => \A i \in 2..Len(scopes) : i \in view.before,
           target = "break_block" =>
             \A i \in 2..Len(scopes) : scopes[i].part = "loop" => i \notin view2.shut
    PROVE  \E T2 : Kept(h, T2, view2)'
<1> DEFINE N == Len(blocks)
           n == Len(scopes)
           loop == loops[Len(loops) - k]
           x == loop[target]
           first == loop.cleanup_depth
           unwinding == Unwinding(Flushed(cleanups, pending), first)
           leaving == <<Mark("leave", n - loop.outside)>>
           code2 == Emit(Emit(blocks, current, unwinding), current, leaving)
           code3 == Seal(code2, current, Jump(x))
           code4 == Grow(code3, 1)
           code5 == Nested(code4, N + 1, InScopes(scopes))
           added == unwinding \o leaving
           out == target = "break_block"
           fresh == {N + 1} \cup (IF out THEN {x} ELSE {})
           taken == IF out /\ (Here2(view) \/ <<x, 1>> \in T) THEN {x} ELSE {}
<1>0. /\ blocks[current].term = None /\ k < Len(loops) /\ blocks' = code5
      /\ current' = N + 1 /\ scopes' = scopes
  <2>1. /\ blocks[current].term = None /\ k < Len(loops) /\ cleanups' = Flushed(cleanups, pending)
        /\ scopes' = scopes /\ current' = N + 1
    BY DEF LeaveLoop, Open, flushPendingDefers, Flushed, SetCurrent
  <2>2. emitCleanupFrom(blocks, cleanups', first) = Emit(blocks, current, unwinding)
    BY <2>1 DEF emitCleanupFrom, Unwinding
  <2> QED
    BY <2>1, <2>2 DEF LeaveLoop, SetCurrent, Nested
<1>1. PICK want, live, base : Lowered(want, live, base)
  BY DEF Followed, Lowers
<1>2. /\ Around(blocks, want, live, base, scopes, loops, cleanups, pending, {current}) /\ scopes # <<>>
      /\ blocks \in Code /\ current \in DOMAIN blocks /\ blocks[current].insts \in Seq(Insts)
      /\ DOMAIN blocks = 1..N /\ N \in Nat /\ n \in Nat /\ InScopes(scopes) \in Seq(Places)
      /\ loops \in Seq(LoopRecords) /\ cleanups \in Seq(Seq(Places)) /\ cleanups # <<>>
      /\ scopes \in Seq(ScopeRecords) /\ DOMAIN scopes = 1..n
  <2>1. scopes # <<>>
    BY DEF Followed
  <2>2. /\ Around(blocks, want, live, base, scopes, loops, cleanups, pending, {current})
        /\ blocks \in Code /\ current \in DOMAIN blocks /\ blocks[current].insts \in Seq(Insts)
        /\ DOMAIN blocks = 1..N /\ N \in Nat /\ n \in Nat /\ InScopes(scopes) \in Seq(Places)
    BY <1>1, <2>1, LoweredFacts
  <2>3. /\ loops \in Seq(LoopRecords) /\ cleanups \in Seq(Seq(Places)) /\ cleanups # <<>>
        /\ scopes \in Seq(ScopeRecords)
    BY <1>1, <2>1, LoweredFacts
  <2>4. DOMAIN scopes = 1..n
    BY <2>3
  <2> QED
    BY <2>1, <2>2, <2>3, <2>4
<1>3. PICK i \in 1..n : LoopAt(loop, i, scopes, base)
  <2>1. Len(loops) - k \in DOMAIN loops
    BY <1>0, <1>2
  <2>2. LoopsFit(loops, scopes, base)
    BY <1>2 DEF Around
  <2> QED
    BY <1>2, <2>1, <2>2 DEF LoopsFit
<1>4. loop \in LoopRecords
  <2>1. Len(loops) - k \in 1..Len(loops)
    <3>1. PICK m \in Nat : m = Len(loops)
      BY <1>2
    <3>2. m - k \in 1..m
      BY <1>0, <3>1
    <3> QED
      BY <3>1, <3>2
  <2> QED
    BY <1>2, <2>1
<1> HIDE DEF loop
<1>5. /\ i \in 2..n /\ scopes[i].part = "loop" /\ x = (IF out THEN scopes[i].after ELSE scopes[i].other)
      /\ i = loop.outside + 1 /\ first = base[i] + 1 /\ loop.outside \in Nat
  BY <1>3, <1>4 DEF LoopAt, LoopRecords
<1>6. /\ Shape(blocks, scopes[i]) /\ AwaitedBy(scopes[i]) \subseteq DOMAIN blocks \ {current}
      /\ \A y \in AwaitedBy(scopes[i]) : blocks[y].term = None => Blank(blocks[y])
  BY <1>1, <1>2, ScopeFacts
<1>7. /\ scopes[i].after \in DOMAIN blocks /\ scopes[i].after \in AwaitedBy(scopes[i])
      /\ Blank(blocks[scopes[i].after])
      /\ scopes[i].other \in DOMAIN blocks /\ scopes[i].other \in AwaitedBy(scopes[i])
  <2>1. scopes[i].after \in DOMAIN blocks /\ blocks[scopes[i].after].term = None
        /\ scopes[i].other \in DOMAIN blocks
    BY <1>5, <1>6 DEF Shape
  <2>2. scopes[i].after # 0 /\ scopes[i].other # 0
    BY <1>2, <2>1
  <2> QED
    BY <1>6, <2>1, <2>2 DEF AwaitedBy
<1>8. x \in DOMAIN blocks /\ x # current /\ x \in Nat /\ (out => Blank(blocks[x])) /\ x \in AwaitedBy(scopes[i])
  BY <1>2, <1>5, <1>6, <1>7
<1>9. unwinding \in Seq(Insts) /\ Quietly(unwinding)
  <2>1. first \in 1..Len(cleanups)
    <3>1. base[i] \in Nat /\ base[i] < Len(cleanups)
      BY <1>2 DEF Around, FramesFit
    <3>2. Len(cleanups) \in Nat
      BY <1>2
    <3> QED
      BY <1>5, <3>1, <3>2
  <2> QED
    BY <1>1, <1>2, <2>1, QuietExit
<1>10. leaving \in Seq(Insts) /\ Quietly(leaving)
  <2> DEFINE m == n - loop.outside
  <2>1. m \in Nat
    BY <1>2, <1>5
  <2>2. "leave" \in Quiet
    BY DEF Quiet
  <2> HIDE DEF m
  <2> QED
    BY <2>1, <2>2, QuietMark DEF m
<1> HIDE DEF unwinding, leaving, x, first, n, N, out
<1>11. added \in Seq(Insts) /\ Quietly(added)
  BY <1>9, <1>10, QuietBoth
<1>12. /\ code2 \in Code /\ Len(code2) = N /\ DOMAIN code2 = 1..N
       /\ \A b \in DOMAIN blocks \ {current} : code2[b] = blocks[b]
       /\ code2[current].insts = blocks[current].insts \o added
  <2>1. /\ code2 \in Code /\ Len(code2) = Len(blocks)
        /\ \A b \in DOMAIN blocks \ {current} : code2[b] = blocks[b]
        /\ code2[current].insts = blocks[current].insts \o (unwinding \o leaving)
    <3>1. \A u, l \in Seq(Insts) :
            LET e == Emit(Emit(blocks, current, u), current, l) IN
            /\ e \in Code /\ Len(e) = Len(blocks)
            /\ \A b \in DOMAIN blocks \ {current} : e[b] = blocks[b]
            /\ e[current].insts = blocks[current].insts \o (u \o l)
      BY <1>1, EmitsHere DEF Followed
    <3> QED
      BY <1>9, <1>10, <3>1
  <2> HIDE DEF code2
  <2> QED
    BY <2>1, CodeDomain DEF N, added
<1> HIDE DEF code2, added
<1>13. /\ code3 \in Code /\ Len(code3) = N
       /\ \A b \in DOMAIN blocks \ {current} : code3[b] = blocks[b]
       /\ code3[current].insts = blocks[current].insts \o added /\ code3[current].term = Jump(x)
  <2>1. Jump(x) \in Terms /\ current \in DOMAIN code2
    BY <1>2, <1>8, <1>12, TermTargets
  <2>2. /\ code3 \in Code /\ Len(code3) = Len(code2)
        /\ \A c \in DOMAIN code2 \ {current} : code3[c] = code2[c]
        /\ code3[current].insts = code2[current].insts /\ code3[current].term = Jump(x)
    BY <1>12, <2>1, SealIs
  <2> QED
    BY <1>2, <1>12, <2>2
<1> HIDE DEF code3
<1>14. /\ code4 \in Code /\ Len(code4) = N + 1 /\ N + 1 \in DOMAIN code4 /\ DOMAIN code4 = 1..(N + 1)
       /\ \A b \in DOMAIN blocks : code4[b] = code3[b]
       /\ code4[N + 1] = newBlock
  <2>1. code4 \in Code /\ Len(code4) = N + 1 /\ (\A b \in 1..N : code4[b] = code3[b])
        /\ \A b \in (N + 1)..(N + 1) : code4[b] = newBlock
    <3>1. 1 \in Nat
      OBVIOUS
    <3>2. /\ code4 \in Code /\ Len(code4) = Len(code3) + 1
          /\ \A b \in 1..Len(code3) : code4[b] = code3[b]
          /\ \A b \in (Len(code3) + 1)..(Len(code3) + 1) : code4[b] = newBlock
      BY <1>13, <3>1, GrowIs
    <3> HIDE DEF code4
    <3> QED
      BY <1>13, <3>2
  <2>2. DOMAIN code4 = 1..(N + 1) /\ N + 1 \in (N + 1)..(N + 1) /\ N + 1 \in 1..(N + 1)
    BY <1>2, <2>1, CodeDomain
  <2> QED
    BY <1>2, <2>1, <2>2
<1> HIDE DEF code4
<1>15. /\ Len(blocks') = N + 1 /\ DOMAIN blocks' = 1..(N + 1)
       /\ \A b \in DOMAIN blocks \ {current} : blocks'[b] = blocks[b]
       /\ blocks'[current].insts = blocks[current].insts \o added /\ blocks'[current].term = Jump(x)
       /\ blocks'[N + 1].insts = <<>> /\ blocks'[N + 1].term = None
       /\ current \in 1..(N + 1) /\ current # N + 1 /\ x # N + 1 /\ N + 1 \notin DOMAIN blocks
  <2>1. /\ code5 \in Code /\ Len(code5) = N + 1 /\ (\A b \in DOMAIN code4 \ {N + 1} : code5[b] = code4[b])
        /\ code5[N + 1].insts = code4[N + 1].insts /\ code5[N + 1].term = code4[N + 1].term
    BY <1>2, <1>14, NestIs
  <2>2. \A b \in DOMAIN blocks : b # N + 1 /\ b \in 1..(N + 1)
    BY <1>2
  <2>3. DOMAIN code5 = 1..(N + 1)
    BY <2>1, CodeDomain
  <2>4. N + 1 \notin DOMAIN blocks
    BY <2>2
  <2> HIDE DEF code5
  <2> QED
    BY <1>0, <1>2, <1>8, <1>13, <1>14, <2>1, <2>2, <2>3, <2>4, NewBlock
<1> HIDE DEF code5
<1>16. Moves(blocks, current, blocks', added, fresh)
  <2>1. /\ Len(blocks) <= Len(blocks') /\ DOMAIN blocks' \ DOMAIN blocks \subseteq {N + 1}
        /\ DOMAIN blocks \subseteq DOMAIN blocks' /\ N + 1 \in DOMAIN blocks'
    BY <1>2, <1>15 DEF N
  <2>2. fresh \subseteq DOMAIN blocks' \ {current} /\ {N + 1} \subseteq fresh
    BY <1>8, <1>15, <2>1
  <2>3. \A b \in fresh \cap DOMAIN blocks : b = x /\ out
    BY <1>15
  <2>4. \A b \in fresh : Quietly(blocks'[b].insts)
    <3>1. out => blocks'[x].insts = <<>>
      BY <1>8, <1>15 DEF Blank
    <3> QED
      BY <1>15, <3>1, QuietOps
  <2> HIDE DEF fresh
  <2> QED
    BY <1>0, <1>8, <1>11, <1>15, <2>1, <2>2, <2>3, <2>4 DEF Moves, Alike
<1>17. Here2(view) => x \in taken \/ <<x, 1>> \in T
  <2>1. ASSUME Here2(view), ~out
        PROVE  <<x, 1>> \in T
    <3>1. Held(Doors(T), scopes[i], i, view)
      BY <1>5 DEF Followed, Kept, n
    <3>2. scopes[i].other \in Doors(T)
      BY <1>5, <2>1, <3>1 DEF Held, n
    <3> QED
      BY <1>5, <2>1, <3>2 DEF Doors
  <2> QED
    BY <2>1
<1>18. Takes(h, T, blocks, current, blocks', fresh, taken)
  <2>1. Goes(h, T, view, taken)
    <3>1. \A y \in taken : y = x /\ blocks'[y].term = None
      BY <1>8, <1>15 DEF Blank
    <3>2. Ways(h, None) = {} /\ Ways(h, blocks'[current].term) = {x}
      BY <1>15, WaysIs
    <3> QED
      BY <1>17, <3>1, <3>2 DEF Goes
  <2>2. \A b \in fresh \cap DOMAIN blocks : <<b, 1>> \in T => b \in taken
    BY <1>15
  <2>3. taken \subseteq fresh
    OBVIOUS
  <2> HIDE DEF taken, fresh
  <2> QED
    BY <2>1, <2>2, <2>3, GoesTakes
<1>19. ASSUME NEW j \in 2..n
       PROVE  /\ Held(Doors(T) \cup taken, scopes[j], j, view2)
              /\ current \notin AwaitedBy(scopes[j]) /\ (scopes[j].part = "loop" => scopes[j].other # 0)
  <2>1. Relaxed(scopes[j], j, view, view2)
    BY DEF Looser, n
  <2>2. j \in 1..n
    BY <1>2
  <2>3. CASE taken \cap AwaitedBy(scopes[j]) = {}
    <3> HIDE DEF taken
    <3> QED
      BY <1>1, <2>1, <2>3, LevelStays DEF Followed, n
  <2>4. CASE taken \cap AwaitedBy(scopes[j]) # {}
    <3>1. out /\ taken = {x} /\ x \in AwaitedBy(scopes[j]) /\ (Here2(view) \/ <<x, 1>> \in T)
      BY <2>4
    <3>2. j = i
      <4>1. j # i => AwaitedBy(scopes[j]) \cap AwaitedBy(scopes[i]) = {}
        BY <1>1, <1>2, <1>3, <2>2, ScopeFacts DEF n
      <4> QED
        BY <1>8, <3>1, <4>1
    <3>3. Held(Doors(T), scopes[i], i, view)
      BY <1>5 DEF Followed, Kept, n
    <3>4. Here2(view) => i \in view.before
      BY <1>5 DEF n
    <3>5. <<x, 1>> \in T => x \in Doors(T)
      BY <1>8 DEF Doors
    <3>6. i \in view.before
      BY <1>5, <1>7, <1>2, <3>1, <3>3, <3>4, <3>5 DEF Held
    <3>7. i \notin view2.shut
      BY <1>5, <3>1 DEF n, out
    <3>8. scopes[i].other \in Doors(T)
      BY <1>5, <3>3, <3>6 DEF Held
    <3>9. Held(Doors(T) \cup taken, scopes[i], i, view2)
      BY <1>5, <2>1, <3>2, <3>6, <3>7, <3>8 DEF Held, Relaxed
    <3> QED
      BY <1>2, <1>6, <1>7, <3>2, <3>9
  <2> QED
    BY <2>3, <2>4
<1>20. current' \in fresh /\ current' \notin taken
  BY <1>0, <1>15
<1> HIDE DEF fresh, taken
<1> QED
  BY <1>0, <1>1, <1>2, <1>11, <1>16, <1>18, <1>19, <1>20, Advance DEF Followed, n

\* An instruction the hazard is about.
LEMMA OneMore ==
    ASSUME NEW h, NEW T, NEW code \in Code, Flowing(h, T, code), NEW cur \in DOMAIN code,
           code[cur].term = None, NEW code2 \in Code, NEW inst \in Insts, Len(code2) = Len(code),
           \A b \in DOMAIN code \ {cur} : Alike(code2[b], code[b]),
           code2[cur].insts = code[cur].insts \o <<inst>>, Ways(h, code2[cur].term) = {},
           NEW on \in BOOLEAN, inst.op \in h.starts => on,
           Tip(code, cur) \in T => inst.op \notin h.bad /\ (inst.op \notin h.ends => on)
    PROVE  \E T2 : /\ Flowing(h, T2, code2) /\ (Tip(code2, cur) \in T2 <=> on)
                   /\ \A x : <<x, 1>> \in T2 <=> <<x, 1>> \in T
<1> DEFINE K == Len(code[cur].insts)
           T2 == T \cup (IF on THEN {<<cur, K + 2>>} ELSE {})
<1>1. /\ code[cur].insts \in Seq(Insts) /\ K \in Nat /\ Len(code2[cur].insts) = K + 1
      /\ code2[cur].insts \in Seq(Insts)
      /\ \A i \in 1..K : code2[cur].insts[i] = code[cur].insts[i]
      /\ code2[cur].insts[K + 1] = inst /\ DOMAIN code2 = DOMAIN code
  <2>1. code[cur].insts \in Seq(Insts) /\ DOMAIN code2 = DOMAIN code
    BY CodeDomain
  <2> QED
    BY <2>1, AppendProperties
<1> HIDE DEF K
<1>2. \A b, i : <<b, i>> \in T2 <=> <<b, i>> \in T \/ (on /\ b = cur /\ i = K + 2)
  OBVIOUS
<1>3. \A b, i : <<b, i>> \in T => b \in DOMAIN code /\ i \in 1..(Len(code[b].insts) + 1)
  BY PointIs DEF Flowing
<1>4. \A b, i : <<b, i>> \in Points(code2) <=> b \in DOMAIN code2 /\ i \in 1..(Len(code2[b].insts) + 1)
  BY PointIs
<1>5. T2 \subseteq Points(code2)
  <2>1. ASSUME NEW p \in T
        PROVE  p \in Points(code2)
    <3>1. p = <<p[1], p[2]>>
      BY PointIs DEF Flowing
    <3>2. p[1] \in DOMAIN code /\ p[2] \in 1..(Len(code[p[1]].insts) + 1)
      BY <1>3, <3>1
    <3>3. p[1] # cur => code2[p[1]].insts = code[p[1]].insts
      BY <3>2 DEF Alike
    <3>4. p[2] \in 1..(Len(code2[p[1]].insts) + 1)
      <4>1. p[1] = cur => p[2] \in 1..(K + 1)
        BY <3>2 DEF K
      <4> QED
        BY <1>1, <3>2, <3>3, <4>1
    <3> QED
      BY <1>1, <1>4, <3>1, <3>2, <3>4
  <2>2. <<cur, K + 2>> \in Points(code2)
    <3>1. K + 2 \in 1..(K + 1 + 1)
      BY <1>1
    <3> QED
      BY <1>1, <1>4, <3>1
  <2> QED
    BY <2>1, <2>2
<1> HIDE DEF T2
<1>6. \A x : <<x, 1>> \in T2 <=> <<x, 1>> \in T
  BY <1>1, <1>2
<1>7. Tip(code2, cur) \in T2 <=> on
  <2>1. Tip(code2, cur) = <<cur, K + 2>>
    BY <1>1 DEF Tip
  <2>2. <<cur, K + 2>> \notin T
    <3>1. K + 2 \notin 1..(K + 1)
      BY <1>1
    <3> QED
      BY <1>3, <3>1 DEF K
  <2> QED
    BY <1>2, <2>1, <2>2
<1>8. \A b \in DOMAIN code : /\ Carried(h, T, b, code[b].insts)
                             /\ Tip(code, b) \in T => \A x \in Ways(h, code[b].term) : <<x, 1>> \in T
  BY DEF Flowing, Passed, Tip
<1>9. ASSUME NEW b \in DOMAIN code2
      PROVE  Passed(h, T2, b, code2[b])
  <2>1. CASE b # cur
    <3>1. code2[b].insts = code[b].insts /\ code2[b].term = code[b].term /\ b \in DOMAIN code
      BY <1>1, <2>1 DEF Alike
    <3>2. \A i : <<b, i>> \in T2 <=> <<b, i>> \in T
      BY <1>2, <2>1
    <3>3. Carried(h, T2, b, code2[b].insts)
      BY <1>8, <3>1, <3>2 DEF Carried
    <3> QED
      BY <1>6, <1>8, <3>1, <3>2, <3>3 DEF Passed, Tip
  <2>2. CASE b = cur
    <3>1. ASSUME NEW i \in 1..(K + 1)
          PROVE  /\ <<cur, i>> \in T2 => code2[cur].insts[i].op \notin h.bad
                 /\ <<cur, i>> \in T2 /\ code2[cur].insts[i].op \notin h.ends => <<cur, i + 1>> \in T2
                 /\ code2[cur].insts[i].op \in h.starts => <<cur, i + 1>> \in T2
      <4>1. <<cur, i>> \in T2 <=> <<cur, i>> \in T
        <5>1. i # K + 2
          BY <1>1
        <5> QED
          BY <1>2, <5>1
      <4>2. CASE i \in 1..K
        <5>1. /\ <<cur, i>> \in T => code[cur].insts[i].op \notin h.bad
              /\ <<cur, i>> \in T /\ code[cur].insts[i].op \notin h.ends => <<cur, i + 1>> \in T
              /\ code[cur].insts[i].op \in h.starts => <<cur, i + 1>> \in T
          BY <1>8, <4>2 DEF Carried, K
        <5>2. <<cur, i + 1>> \in T => <<cur, i + 1>> \in T2
          BY <1>2
        <5> QED
          BY <1>1, <4>1, <4>2, <5>1, <5>2
      <4>3. CASE i = K + 1
        <5>1. code2[cur].insts[i] = inst /\ i + 1 = K + 2
          <6>1. code2[cur].insts[K + 1] = inst
            BY <1>1
          <6>2. K + 1 + 1 = K + 2
            BY <1>1
          <6> QED
            BY <4>3, <6>1, <6>2
        <5>2. <<cur, i>> \in T <=> Tip(code, cur) \in T
          BY <4>3 DEF Tip, K
        <5>3. on => <<cur, i + 1>> \in T2
          BY <1>2, <5>1
        <5> QED
          BY <4>1, <5>1, <5>2, <5>3
      <4> QED
        BY <1>1, <4>2, <4>3
    <3>2. Carried(h, T2, cur, code2[cur].insts)
      BY <1>1, <3>1 DEF Carried
    <3> QED
      BY <2>2, <3>2 DEF Passed
  <2> QED
    BY <2>1, <2>2
<1> QED
  BY <1>5, <1>6, <1>7, <1>9 DEF Flowing

LEMMA PlainKeeps ==
    ASSUME NEW h, NEW T, NEW view, Followed(h, T, view), NEW view2, Looser(Len(scopes), view, view2),
           NEW op \in Ops, Plain(op),
           Here2(view) => op \notin h.bad /\ (op \notin h.ends => Here2(view2)),
           op \in h.starts => Here2(view2)
    PROVE  \E T2 : Kept(h, T2, view2)'
<1> DEFINE inst == Mark(op, 0)
           code2 == Emit(blocks, current, <<inst>>)
<1>0. blocks[current].term = None /\ blocks' = code2 /\ current' = current /\ scopes' = scopes
  BY DEF Plain, Open
<1>1. PICK want, live, base : Lowered(want, live, base)
  BY DEF Followed, Lowers
<1>2. blocks \in Code /\ current \in DOMAIN blocks /\ scopes # <<>>
  BY <1>1, LoweredFacts DEF Followed
<1>3. inst \in Insts /\ inst.op = op /\ <<inst>> \in Seq(Insts)
  BY MarkIs
<1> HIDE DEF inst
<1>4. /\ code2 \in Code /\ Len(code2) = Len(blocks)
      /\ \A b \in DOMAIN blocks \ {current} : code2[b] = blocks[b]
      /\ code2[current].insts = blocks[current].insts \o <<inst>>
      /\ code2[current].term = None
  BY <1>0, <1>2, <1>3, EmitIs
<1> HIDE DEF code2
<1>5. Flowing(h, T, blocks) /\ (Tip(blocks, current) \in T => Here2(view)) /\ (h.first => <<1, 1>> \in T)
  BY <1>0 DEF Followed, Kept, Here2, Open
<1>6. \A b \in DOMAIN blocks \ {current} : Alike(code2[b], blocks[b])
  BY <1>4 DEF Alike
<1>7. Ways(h, code2[current].term) = {}
  BY <1>4, WaysIs
<1>8. PICK T2 : /\ Flowing(h, T2, code2) /\ (Tip(code2, current) \in T2 <=> Here2(view2))
                /\ \A x : <<x, 1>> \in T2 <=> <<x, 1>> \in T
  <2> DEFINE on == Here2(view2)
  <2>1. on \in BOOLEAN
    BY DEF Here2
  <2>2. inst.op \in h.starts => on
    BY <1>3
  <2>3. Tip(blocks, current) \in T => inst.op \notin h.bad /\ (inst.op \notin h.ends => on)
    BY <1>3, <1>5
  <2> HIDE DEF on
  <2>4. \E T2 : /\ Flowing(h, T2, code2) /\ (Tip(code2, current) \in T2 <=> on)
                /\ \A x : <<x, 1>> \in T2 <=> <<x, 1>> \in T
    BY <1>0, <1>2, <1>3, <1>4, <1>5, <1>6, <1>7, <2>1, <2>2, <2>3, OneMore
  <2> QED
    BY <2>4 DEF on
<1>9. ASSUME NEW i \in 2..Len(scopes)
      PROVE  Held(Doors(T2), scopes[i], i, view2)
  <2>1. Relaxed(scopes[i], i, view, view2)
    BY DEF Looser
  <2>2. Held(Doors(T) \cup {}, scopes[i], i, view2)
    BY <1>1, <1>2, <2>1, LevelStays DEF Followed
  <2>3. Doors(T) \cup {} = Doors(T2)
    BY <1>8 DEF Doors
  <2> QED
    BY <2>2, <2>3
<1> QED
  BY <1>0, <1>5, <1>8, <1>9 DEF Kept, Here2

(***************************************************************************)
(* Openings.                                                               *)
(***************************************************************************)
LEMMA OpeningKeeps ==
    ASSUME NEW h, NEW T, NEW view, Followed(h, T, view), NEW view2, Looser(Len(scopes), view, view2),
           NEW n \in Nat, NEW added, Added(n, added), NEW s \in ScopeRecords, NEW place \in Places,
           scopes' = Append(scopes, ScopeAt(s, place)),
           AwaitedBy(s) \subseteq Fresh(n), s.part = "loop" => s.other # 0,
           NEW taken, taken \subseteq Fresh(n), Goes(h, T, view, taken),
           Held(taken, s, Len(scopes) + 1, view2), Arrives(view, view2, Fresh(n), taken)
    PROVE  \E T2 : Kept(h, T2, view2)'
<1> DEFINE s2 == ScopeAt(s, place)
           fresh == Fresh(n)
<1>1. PICK want, live, base : Lowered(want, live, base)
  BY DEF Followed, Lowers
<1>2. /\ scopes # <<>> /\ Lowers' /\ Hazard(h) /\ Kept(h, T, view)
      /\ scopes \in Seq(ScopeRecords) /\ Len(scopes) \in Nat /\ blocks \in Code
  BY <1>1, LoweredFacts DEF Followed
<1>3. /\ Moves(blocks, current, blocks', added, fresh) /\ added \in Seq(Insts)
      /\ Takes(h, T, blocks, current, blocks', fresh, taken) /\ fresh \cap DOMAIN blocks = {}
  BY AddedIs
<1>4. /\ s2 \in ScopeRecords /\ s2.part = s.part /\ AwaitedBy(s2) = AwaitedBy(s)
      /\ s2.after = s.after /\ s2.other = s.other
  BY ScopeAtIs
<1>5. scopes' = Append(scopes, s2) /\ AwaitedBy(s) \subseteq fresh /\ taken \subseteq fresh
  OBVIOUS
<1> HIDE DEF s2, fresh
<1>6. /\ Len(scopes') = Len(scopes) + 1 /\ scopes'[Len(scopes) + 1] = s2 /\ scopes' # <<>>
      /\ \A i \in 1..Len(scopes) : scopes'[i] = scopes[i]
  BY <1>2, <1>4, <1>5
<1>7. ASSUME NEW i \in 2..Len(scopes')
      PROVE  /\ Held(Doors(T) \cup taken, scopes'[i], i, view2)
             /\ current \notin AwaitedBy(scopes'[i])
             /\ scopes'[i].part = "loop" => scopes'[i].other # 0
  <2>1. CASE i \in 2..Len(scopes)
    <3>1. i \in 1..Len(scopes) /\ scopes'[i] = scopes[i]
      BY <1>2, <1>6, <2>1
    <3>2. AwaitedBy(scopes[i]) \subseteq DOMAIN blocks
      BY <1>1, <1>2, <3>1, ScopeFacts
    <3>3. taken \cap AwaitedBy(scopes[i]) = {} /\ Relaxed(scopes[i], i, view, view2)
      BY <1>3, <1>5, <2>1, <3>2 DEF Looser
    <3> QED
      BY <1>1, <1>2, <2>1, <3>1, <3>3, LevelStays
  <2>2. CASE i = Len(scopes) + 1
    <3>1. scopes'[i] = s2
      BY <1>6, <2>2
    <3>2. \A x \in AwaitedBy(s2) : x \notin Doors(T)
      <4>1. \A x : x \in Doors(T) => x \in DOMAIN blocks
        BY <1>2, PointIs DEF Doors, Kept, Flowing
      <4> QED
        BY <1>3, <1>4, <1>5, <4>1
    <3>3. Held(taken, s2, i, view2)
      BY <1>4, <2>2 DEF Held
    <3>4. Relaxed(s2, i, view2, view2)
      BY DEF Relaxed
    <3>5. Held(Doors(T) \cup taken, s2, i, view2)
      <4>1. \A x \in AwaitedBy(s2) : x \in Doors(T) \cup taken <=> x \in taken
        BY <3>2
      <4> QED
        BY <1>4, <3>3, <3>4, <4>1, StillHeld
    <3>6. current \notin AwaitedBy(s2)
      BY <1>1, <1>2, <1>3, <1>4, <1>5, LoweredFacts
    <3> QED
      BY <1>4, <3>1, <3>5, <3>6
  <2>3. i \in 2..Len(scopes) \/ i = Len(scopes) + 1
    BY <1>2, <1>6
  <2> QED
    BY <2>1, <2>2, <2>3
<1>8. blocks'[current'].term = None =>
        \/ /\ current' = current /\ Open
           /\ Len(scopes) + 1 \in view.before => Len(scopes') + 1 \in view2.before
        \/ current' \in fresh /\ (current' \in taken => Len(scopes') + 1 \in view2.before)
  BY DEF Arrives, Here2, fresh
<1> QED
  BY <1>1, <1>2, <1>3, <1>6, <1>7, <1>8, Advance

\* The code with more blocks, before anything is lowered into them.
Grown(code, n) ==
  /\ code \in Code /\ Len(code) = Len(blocks) + n
  /\ \A b \in DOMAIN blocks \ {current} : code[b] = blocks[b]
  /\ code[current].insts = blocks[current].insts
  /\ \A b \in Fresh(n) : code[b].insts = <<>>

LEMMA BegunAdds ==
    ASSUME NEW h, NEW T, NEW view, Followed(h, T, view), Open, NEW n \in Nat, NEW code, Grown(code, n),
           NEW c \in Fresh(n), NEW nest \in Seq(Places), blocks' = Begun(code, c, nest)
    PROVE  /\ Added(n, <<>>) /\ current # c /\ current \in DOMAIN code /\ Fresh(n) \subseteq DOMAIN code
           /\ c \in DOMAIN code /\ \A b \in DOMAIN code : blocks'[b].term = code[b].term
<1> DEFINE N == Len(blocks)
           code2 == Begun(code, c, nest)
           inst == Mark("enter", EntryOf(code, c))
<1>1. PICK want, live, base : Lowered(want, live, base)
  BY DEF Followed, Lowers
<1>2. /\ blocks \in Code /\ current \in DOMAIN blocks /\ blocks[current].insts \in Seq(Insts)
      /\ DOMAIN blocks = 1..N /\ N \in Nat
  BY <1>1, LoweredFacts DEF Followed
<1>3. /\ code \in Code /\ Len(code) = N + n
      /\ \A b \in DOMAIN blocks \ {current} : code[b] = blocks[b]
      /\ code[current].insts = blocks[current].insts
      /\ \A b \in Fresh(n) : code[b].insts = <<>>
  BY DEF Grown
<1> HIDE DEF N
<1>4. DOMAIN code = 1..(N + n) /\ Fresh(n) = (N + 1)..(N + n)
  BY <1>3, CodeDomain DEF Fresh, N
<1>5. /\ c \in DOMAIN code /\ c \notin DOMAIN blocks /\ c # current /\ Fresh(n) \subseteq DOMAIN code
      /\ DOMAIN blocks \subseteq DOMAIN code
  BY <1>2, <1>4
<1>6. IsBegun(code2, code, c, nest) /\ inst \in Insts /\ EntryOf(code, c) \in Places
  BY <1>3, <1>5, BegunIs
<1>7. <<inst>> \in Seq(Insts) /\ Quietly(<<inst>>)
  <2> DEFINE place == EntryOf(code, c)
  <2>1. "enter" \in Quiet /\ place \in Nat \cup Places
    BY <1>6 DEF Quiet
  <2> HIDE DEF place
  <2> QED
    BY <2>1, QuietOps DEF place
<1> HIDE DEF code2, inst
<1>8. /\ Len(code2) = N + n
      /\ \A b \in DOMAIN code \ {c} : code2[b] = code[b]
      /\ code2[c].insts = code[c].insts \o <<inst>> /\ code2[c].term = code[c].term
  BY <1>3, <1>6 DEF IsBegun, inst
<1>9. code2[c].insts = <<inst>>
  <2>1. code2[c].insts = <<>> \o <<inst>>
    BY <1>3, <1>8
  <2>2. \A x \in Seq(Insts) : <<>> \o x = x
    OBVIOUS
  <2> QED
    BY <1>7, <2>1, <2>2
<1>10. blocks' = code2
  BY DEF code2
<1>11. \A b \in Fresh(n) : Quietly(blocks'[b].insts)
  <2> SUFFICES ASSUME NEW b \in Fresh(n)
               PROVE  Quietly(blocks'[b].insts)
    OBVIOUS
  <2>1. CASE b = c
    BY <1>7, <1>9, <1>10, <2>1
  <2>2. CASE b # c
    <3>1. blocks'[b].insts = <<>>
      BY <1>3, <1>5, <1>8, <1>10, <2>2
    <3> QED
      BY <3>1, QuietOps
  <2> QED
    BY <2>1, <2>2
<1>12. \A b \in DOMAIN blocks \ {current} : Alike(blocks'[b], blocks[b])
  <2> SUFFICES ASSUME NEW b \in DOMAIN blocks \ {current}
               PROVE  blocks'[b] = blocks[b]
    BY DEF Alike
  <2>1. b \in DOMAIN code \ {c}
    BY <1>5
  <2> QED
    BY <1>3, <1>8, <1>10, <2>1
<1>13. blocks'[current].insts = blocks[current].insts \o <<>> /\ <<>> \in Seq(Insts)
  <2>1. current \in DOMAIN code \ {c}
    BY <1>2, <1>5
  <2>2. blocks'[current].insts = blocks[current].insts
    BY <1>3, <1>8, <1>10, <2>1
  <2> QED
    BY <1>2, <2>2
<1>14. Len(blocks') = Len(blocks) + n
  BY <1>8, <1>10 DEF N
<1>15. Added(n, <<>>)
  BY <1>11, <1>12, <1>13, <1>14, QuietOps DEF Added
<1>16. \A b \in DOMAIN code : blocks'[b].term = code[b].term
  BY <1>8, <1>10
<1> QED
  BY <1>2, <1>5, <1>15, <1>16

\* A construct, whose first block of the source begins in the new block c.
LEMMA ConstructKeeps ==
    ASSUME NEW h, NEW T, NEW view, Followed(h, T, view), NEW view2, Looser(Len(scopes), view, view2),
           Open, NEW n \in Nat, NEW code, Grown(code, n), NEW c \in Fresh(n), code[c].term = None,
           NEW s \in ScopeRecords, BeginBlock(code, c, s, scopes, cleanups, pending),
           AwaitedBy(s) \subseteq Fresh(n), s.part = "loop" => s.other # 0,
           NEW taken, taken \subseteq Fresh(n), Held(taken, s, Len(scopes) + 1, view2),
           Here2(view) => Ways(h, code[current].term) \subseteq taken,
           \A b \in taken : Ways(h, code[b].term) \subseteq taken,
           c \in taken => Len(scopes) + 2 \in view2.before
    PROVE  \E T2 : Kept(h, T2, view2)'
<1> DEFINE nest == InScopes(scopes)
           place == EntryOf(code, c)
<1>1. PICK want, live, base : Lowered(want, live, base)
  BY DEF Followed, Lowers
<1>2. /\ nest \in Seq(Places) /\ current \in DOMAIN blocks /\ DOMAIN blocks = 1..Len(blocks)
      /\ Len(blocks) \in Nat /\ scopes \in Seq(ScopeRecords)
  BY <1>1, LoweredFacts DEF Followed
<1>3. code \in Code /\ c \in DOMAIN code /\ c # current
  <2>1. code \in Code /\ Len(code) = Len(blocks) + n
    BY DEF Grown
  <2>2. DOMAIN code = 1..(Len(blocks) + n)
    BY <2>1, CodeDomain
  <2> QED
    BY <1>2, <2>1, <2>2 DEF Fresh
<1>4. current' = c /\ scopes' = Append(scopes, ScopeAt(s, place)) /\ blocks' = Begun(code, c, nest)
  BY <1>3, BeginIs
<1>5. place \in Places
  BY <1>2, <1>3, BegunIs
<1> HIDE DEF nest, place
<1>6. /\ Added(n, <<>>) /\ current \in DOMAIN code /\ Fresh(n) \subseteq DOMAIN code
      /\ \A b \in DOMAIN code : blocks'[b].term = code[b].term
  BY <1>2, <1>4, BegunAdds
<1>7. Goes(h, T, view, taken)
  BY <1>6 DEF Goes
<1>8. Arrives(view, view2, Fresh(n), taken)
  <2>1. Len(scopes') + 1 = Len(scopes) + 2
    <3>1. ScopeAt(s, place) \in ScopeRecords
      BY <1>5, ScopeAtIs
    <3> QED
      BY <1>2, <1>4, <3>1
  <2> QED
    BY <1>4, <2>1 DEF Arrives
<1> QED
  BY <1>4, <1>5, <1>6, <1>7, <1>8, OpeningKeeps

LEMMA OpenBlockKeeps ==
    ASSUME NEW h, NEW T, NEW view, Followed(h, T, view), NEW view2, Looser(Len(scopes), view, view2),
           Here2(view) => Len(scopes) + 2 \in view2.before, OpenBlock
    PROVE  \E T2 : Kept(h, T2, view2)'
<1> DEFINE nest == blocks[current].nest
           place == EntryOf(blocks, current)
           inst == Mark("enter", place)
           s == Scope("block", 0, 0, 0)
<1>1. PICK want, live, base : Lowered(want, live, base)
  BY DEF Followed, Lowers
<1>2. /\ blocks \in Code /\ current \in DOMAIN blocks /\ scopes \in Seq(ScopeRecords)
      /\ Len(blocks) \in Nat /\ blocks[current].insts \in Seq(Insts)
  BY <1>1, LoweredFacts DEF Followed
<1>3. blocks[current].term = None /\ BeginBlock(blocks, current, s, scopes, cleanups, pending)
  BY DEF OpenBlock, Open
<1>4. s \in ScopeRecords /\ s.part = "block" /\ s.after = 0 /\ s.other = 0 /\ AwaitedBy(s) = {}
  <2>1. "block" \in Parts /\ 0 \in Nat
    BY DEF Parts
  <2>2. s = Scope("block", 0, 0, 0)
    OBVIOUS
  <2> HIDE DEF s
  <2>3. /\ s \in ScopeRecords /\ s.part = "block" /\ s.after = 0 /\ s.other = 0
        /\ AwaitedBy(s) = {0, 0} \ {0}
    BY <2>1, <2>2, ScopeIs
  <2> QED
    BY <2>3
<1> HIDE DEF s
<1>5. current' = current /\ scopes' = Append(scopes, ScopeAt(s, place)) /\ blocks' = Begun(blocks, current, nest)
  BY <1>2, <1>3, BeginIs
<1>6. nest \in Seq(Places)
  <2>1. blocks[current] \in BlockRecords
    BY <1>2, CodeDomain
  <2> QED
    BY <2>1 DEF BlockRecords
<1>7. IsBegun(Begun(blocks, current, nest), blocks, current, nest) /\ place \in Places /\ inst \in Insts
  BY <1>2, <1>6, BegunIs
<1>8. <<inst>> \in Seq(Insts) /\ Quietly(<<inst>>)
  <2>1. "enter" \in Quiet /\ place \in Nat \cup Places
    BY <1>7 DEF Quiet
  <2> HIDE DEF place
  <2> QED
    BY <2>1, QuietOps
<1> HIDE DEF nest, place
<1>9. /\ Len(blocks') = Len(blocks) /\ \A b \in DOMAIN blocks \ {current} : blocks'[b] = blocks[b]
      /\ blocks'[current].insts = blocks[current].insts \o <<inst>> /\ blocks'[current].term = None
  BY <1>3, <1>5, <1>7 DEF IsBegun, place
<1> HIDE DEF inst
<1>10. Fresh(0) = {}
  BY <1>2 DEF Fresh
<1>11. Added(0, <<inst>>)
  BY <1>2, <1>3, <1>8, <1>9, <1>10 DEF Added, Alike, Open
<1>12. Goes(h, T, view, {})
  <2>1. Ways(h, None) = {}
    BY WaysIs
  <2> QED
    BY <1>9, <2>1 DEF Goes
<1>13. Arrives(view, view2, Fresh(0), {})
  <2>1. Len(scopes') + 1 = Len(scopes) + 2
    <3>1. ScopeAt(s, place) \in ScopeRecords
      BY <1>4, <1>7, ScopeAtIs
    <3> QED
      BY <1>2, <1>5, <3>1
  <2> QED
    BY <1>3, <1>5, <2>1 DEF Arrives, Open
<1>14. Held({}, s, Len(scopes) + 1, view2)
  BY <1>4 DEF Held
<1>15. 0 \in Nat /\ AwaitedBy(s) \subseteq Fresh(0) /\ {} \subseteq Fresh(0) /\ s.part # "loop"
  BY <1>4
<1> QED
  BY <1>4, <1>5, <1>7, <1>11, <1>12, <1>13, <1>14, <1>15, OpeningKeeps

LEMMA ThenScopeIs ==
    ASSUME NEW to \in Nat, NEW next \in Nat, NEW rest \in Nat
    PROVE  LET scope == Scope("then", to, next, rest) IN
           /\ scope \in ScopeRecords /\ scope.part = "then" /\ scope.after = to /\ scope.other = next
           /\ AwaitedBy(scope) = {to, next} \ {0}
  BY ScopeIs DEF Parts

LEMMA IfKeeps ==
    ASSUME NEW h, NEW T, NEW view, Followed(h, T, view), NEW view2, Looser(Len(scopes), view, view2),
           NEW cond \in Conds, NEW other \in {"none", "else", "elif"}, lowerIf(cond, other),
           Here2(view) => Here2(view2),
           Here2(view) /\ <<cond, TRUE>> \notin h.bars => Len(scopes) + 2 \in view2.before,
           Here2(view) /\ other = "none" /\ Len(scopes) + 1 \in view2.shut => <<cond, FALSE>> \in h.bars,
           Here2(view) /\ other # "none" /\ Len(scopes) + 1 \in view2.cut => <<cond, FALSE>> \in h.bars
    PROVE  \E T2 : Kept(h, T2, view2)'
<1> DEFINE N == Len(blocks)
           x == IF other = "none" THEN N + 3 ELSE N + 2
           e == IF other = "none" THEN 0 ELSE N + 2
           l == IF other = "elif" THEN 1 ELSE 0
           term == Branch(cond, N + 1, x)
           code == Extended(blocks, current, 3, term)
           s == Scope("then", N + 3, e, l)
           taken == IF Here2(view) THEN Ways(h, term) ELSE {}
<1>1. PICK want, live, base : Lowered(want, live, base)
  BY DEF Followed, Lowers
<1>2. blocks \in Code /\ current \in DOMAIN blocks /\ N \in Nat /\ DOMAIN blocks = 1..N
  BY <1>1, LoweredFacts DEF Followed
<1>3. Open /\ BeginBlock(code, N + 1, s, scopes, cleanups, pending)
  BY DEF lowerIf, Extended
<1>4. /\ x \in {N + 2, N + 3} /\ e \in {0, N + 2} /\ l \in {0, 1}
      /\ (other = "none" => x = N + 3 /\ e = 0) /\ (other # "none" => x = N + 2 /\ e = N + 2)
      /\ x \in Nat /\ e \in Nat /\ l \in Nat /\ N + 3 \in Nat /\ N + 1 \in Nat /\ N + 3 # 0 /\ N + 2 # 0
      /\ N + 1 # N + 2 /\ N + 1 # N + 3 /\ N + 2 # N + 3
  BY <1>2
<1>5. Fresh(3) = {N + 1, N + 2, N + 3}
  BY <1>2 DEF Fresh
<1> HIDE DEF x, e, l, N
<1>6. term \in Terms
  BY <1>4, TermTargets
<1>7. \A z \in Ways(h, term) : (z = N + 1 /\ <<cond, TRUE>> \notin h.bars) \/ (z = x /\ <<cond, FALSE>> \notin h.bars)
  BY WaysIs
<1> HIDE DEF term
<1>8. IsExtended(code, blocks, current, 3, term)
  BY <1>2, <1>6, ExtendedIs
<1> HIDE DEF code
<1>9. /\ code \in Code /\ Len(code) = N + 3 /\ code[current].term = term
      /\ \A b \in Fresh(3) : code[b].insts = <<>> /\ code[b].term = None
      /\ Grown(code, 3)
  <2>1. /\ code \in Code /\ Len(code) = N + 3 /\ code[current].term = term
        /\ \A b \in DOMAIN blocks \ {current} : code[b] = blocks[b]
        /\ code[current].insts = blocks[current].insts
        /\ \A b \in (N + 1)..(N + 3) : code[b] = newBlock
    BY <1>8 DEF IsExtended, N
  <2>2. \A b \in Fresh(3) : code[b].insts = <<>> /\ code[b].term = None
    BY <2>1, NewBlock DEF Fresh, N
  <2> QED
    BY <2>1, <2>2 DEF Grown, N
<1>10. /\ s \in ScopeRecords /\ s.part = "then" /\ s.after = N + 3 /\ s.other = e
       /\ AwaitedBy(s) \subseteq Fresh(3)
  <2>1. "then" \in Parts
    BY DEF Parts
  <2>2. s = Scope("then", N + 3, e, l)
    OBVIOUS
  <2> DEFINE merge == N + 3
  <2> HIDE DEF s
  <2>3. /\ s \in ScopeRecords /\ s.part = "then" /\ s.after = merge /\ s.other = e
        /\ AwaitedBy(s) = {merge, e} \ {0}
    <3>1. e \in Nat /\ l \in Nat /\ merge \in Nat
      BY <1>4
    <3>2. s = Scope("then", merge, e, l)
      BY <2>2
    <3> HIDE DEF merge, e, l
    <3> QED
      BY <3>1, <3>2, ThenScopeIs
  <2> QED
    BY <1>4, <1>5, <2>3
<1> HIDE DEF s
<1>11. \A z \in taken : /\ Here2(view) /\ z \in {N + 1, x}
                        /\ z = N + 1 => <<cond, TRUE>> \notin h.bars
                        /\ z = x => <<cond, FALSE>> \notin h.bars
  BY <1>4, <1>7
<1>12. taken \subseteq Fresh(3) /\ (Here2(view) => Ways(h, code[current].term) \subseteq taken)
  BY <1>4, <1>5, <1>9, <1>11
<1> HIDE DEF taken
<1>13. \A b \in taken : Ways(h, code[b].term) \subseteq taken
  <2>1. Ways(h, None) = {}
    BY WaysIs
  <2> QED
    BY <1>9, <1>12, <2>1
<1>14. Held(taken, s, Len(scopes) + 1, view2)
  <2>1. s.after \in taken => Len(scopes) + 1 \in view2.before /\ Len(scopes) + 1 \notin view2.shut
    <3>1. s.after \in taken => Here2(view) /\ other = "none" /\ <<cond, FALSE>> \notin h.bars
      BY <1>4, <1>10, <1>11
    <3> QED
      BY <3>1 DEF Here2
  <2>2. s.other \notin {0, s.after} /\ s.other \in taken =>
          Len(scopes) + 1 \in view2.before /\ Len(scopes) + 1 \notin view2.cut
    <3>1. s.other \notin {0, s.after} /\ s.other \in taken =>
            Here2(view) /\ other # "none" /\ <<cond, FALSE>> \notin h.bars
      BY <1>4, <1>10, <1>11
    <3> QED
      BY <3>1 DEF Here2
  <2> QED
    BY <1>10, <2>1, <2>2 DEF Held
<1>15. N + 1 \in taken => Len(scopes) + 2 \in view2.before
  BY <1>11
<1>16. N + 1 \in Fresh(3) /\ 3 \in Nat
  BY <1>5
<1> QED
  BY <1>3, <1>9, <1>10, <1>12, <1>13, <1>14, <1>15, <1>16, ConstructKeeps

LEMMA LoopKeeps ==
    ASSUME NEW h, NEW T, NEW view, Followed(h, T, view), NEW view2, Looser(Len(scopes), view, view2),
           NEW cond \in Conds, NEW has_step \in BOOLEAN, lowerLoop(cond, has_step),
           Here2(view) <=> Here2(view2),
           Here2(view) /\ <<cond, TRUE>> \notin h.bars => Len(scopes) + 2 \in view2.before,
           Here2(view) /\ Len(scopes) + 1 \in view2.shut => <<cond, FALSE>> \in h.bars
    PROVE  \E T2 : Kept(h, T2, view2)'
<1> DEFINE N == Len(blocks)
           n == IF has_step THEN 4 ELSE 3
           back == IF has_step THEN N + 3 ELSE N + 1
           code == Looped(cond, n)
           s == Scope("loop", N + n, back, 0)
           term == Branch(cond, N + 2, N + n)
           taken == IF Here2(view) THEN {N + 1, back} \cup Ways(h, term) ELSE {}
<1>1. PICK want, live, base : Lowered(want, live, base)
  BY DEF Followed, Lowers
<1>2. /\ blocks \in Code /\ current \in DOMAIN blocks /\ N \in Nat /\ DOMAIN blocks = 1..N
      /\ InScopes(scopes) \in Seq(Places)
  BY <1>1, LoweredFacts DEF Followed
<1>3. Open /\ BeginBlock(code, N + 2, s, scopes, cleanups, pending)
  <2>1. /\ (N + 1) + 1 = N + 2 /\ (N + 1) + 2 = N + 3 /\ (N + 1) + 3 = N + 4
        /\ (N + 3) - N = 3 /\ (N + 4) - N = 4
    BY <1>2
  <2>2. CASE has_step
    BY <2>1, <2>2 DEF lowerLoop, Looped, Nested
  <2>3. CASE ~has_step
    BY <2>1, <2>3 DEF lowerLoop, Looped, Nested
  <2> QED
    BY <2>2, <2>3
<1>4. /\ n \in {3, 4} /\ n \in Nat /\ (n = 4 => back = N + 3) /\ (n = 3 => back = N + 1)
      /\ back \in Nat /\ N + n \in Nat /\ back # 0 /\ N + n # 0 /\ N + 2 \in Nat
      /\ N + n # N + 1 /\ N + n # N + 2 /\ back # N + 2 /\ back # N + n /\ N + 1 # N + 2
      /\ (n = 4 => N + 3 # N + 2 /\ N + 3 # N + n /\ N + 3 # N + 1)
  BY <1>2
<1> HIDE DEF n, back
<1>5. /\ N + 1 \in Fresh(n) /\ N + 2 \in Fresh(n) /\ back \in Fresh(n) /\ N + n \in Fresh(n)
  BY <1>2, <1>4 DEF Fresh
<1>6. IsLooped(code, cond, n)
  BY <1>2, <1>4, LoopedIs
<1> HIDE DEF code
<1>7. /\ code \in Code /\ Len(code) = N + n
      /\ \A b \in DOMAIN blocks \ {current} : code[b] = blocks[b]
      /\ code[current].insts = blocks[current].insts
      /\ code[current].term = Jump(N + 1)
      /\ \A b \in (N + 1)..(N + n) : code[b].insts = <<>>
      /\ code[N + 1].term = term
      /\ code[N + 2].term = None /\ code[N + n].term = None
      /\ n = 4 => code[N + 3].term = Jump(N + 1)
  BY <1>6 DEF IsLooped
<1>8. Grown(code, n)
  BY <1>7 DEF Grown, Fresh
<1>9. /\ s \in ScopeRecords /\ s.part = "loop" /\ s.after = N + n /\ s.other = back
      /\ AwaitedBy(s) \subseteq Fresh(n)
  <2>1. "loop" \in Parts /\ 0 \in Nat
    BY DEF Parts
  <2>2. s = Scope("loop", N + n, back, 0)
    OBVIOUS
  <2> HIDE DEF s, N
  <2>3. /\ s \in ScopeRecords /\ s.part = "loop" /\ s.after = N + n /\ s.other = back
        /\ AwaitedBy(s) = {N + n, back} \ {0}
    <3>1. back \in Nat /\ N + n \in Nat
      BY <1>4
    <3> QED
      BY <2>1, <2>2, <3>1, ScopeIs
  <2> QED
    BY <1>5, <2>3
<1> HIDE DEF s, N
<1>10. /\ \A z \in Ways(h, term) : \/ z = N + 2 /\ <<cond, TRUE>> \notin h.bars
                                   \/ z = N + n /\ <<cond, FALSE>> \notin h.bars
       /\ Ways(h, Jump(N + 1)) = {N + 1} /\ Ways(h, None) = {}
  BY WaysIs
<1> HIDE DEF term
<1>11. \A z \in taken : /\ Here2(view) /\ z \in {N + 1, back, N + 2, N + n}
                        /\ z = N + 2 => <<cond, TRUE>> \notin h.bars
                        /\ z = N + n => <<cond, FALSE>> \notin h.bars
  BY <1>4, <1>10
<1>12. taken \subseteq Fresh(n) /\ (Here2(view) => Ways(h, code[current].term) \subseteq taken)
  BY <1>5, <1>7, <1>10, <1>11
<1>13. \A b \in taken : Ways(h, code[b].term) \subseteq taken
  <2> SUFFICES ASSUME NEW b \in taken
               PROVE  Ways(h, code[b].term) \subseteq taken
    OBVIOUS
  <2>1. Here2(view) /\ N + 1 \in taken /\ Ways(h, term) \subseteq taken
    BY <1>11
  <2>2. CASE b = N + 1
    BY <1>7, <2>1, <2>2
  <2>3. CASE b \in {N + 2, N + n}
    BY <1>7, <1>10, <2>3
  <2>4. CASE b = back /\ n = 4
    BY <1>4, <1>7, <1>10, <2>1, <2>4
  <2>5. CASE b = back /\ n = 3
    BY <1>4, <1>7, <2>1, <2>5
  <2> HIDE DEF taken
  <2> QED
    BY <1>4, <1>11, <2>2, <2>3, <2>4, <2>5
<1>14. Here2(view) => back \in taken
  OBVIOUS
<1> HIDE DEF taken
<1>15. Held(taken, s, Len(scopes) + 1, view2)
  <2>1. s.after \in taken => Here2(view) /\ <<cond, FALSE>> \notin h.bars
    BY <1>4, <1>9, <1>11
  <2>2. s.after \in taken => Len(scopes) + 1 \in view2.before /\ Len(scopes) + 1 \notin view2.shut
    BY <2>1 DEF Here2
  <2>3. Len(scopes) + 1 \in view2.before => s.other \in taken
    BY <1>9, <1>14 DEF Here2
  <2> QED
    BY <1>9, <2>2, <2>3 DEF Held
<1>16. N + 2 \in taken => Len(scopes) + 2 \in view2.before
  BY <1>11
<1>17. s.part = "loop" => s.other # 0
  BY <1>4, <1>9
<1> QED
  BY <1>3, <1>4, <1>5, <1>7, <1>8, <1>9, <1>12, <1>13, <1>15, <1>16, <1>17, ConstructKeeps

\* What BeginCase makes of the code, and the branch on the case.
CaseTerm(old, merge, left, has_default) ==
  IF left = 1 /\ has_default THEN Jump(Len(old) + 1)
  ELSE Branch("opaque", Len(old) + 1, NextCase(old, merge, left))

LEMMA CaseTermIs ==
    ASSUME NEW old \in Code, NEW chain \in DOMAIN old, NEW merge \in DOMAIN old,
           NEW left \in Nat \ {0}, NEW has_default \in BOOLEAN, NEW nest \in Seq(Places)
    PROVE  Cased(old, chain, merge, left, has_default, nest)[chain].term
             = CaseTerm(old, merge, left, has_default)
<1> DEFINE N == Len(old)
           n == IF left = 1 THEN 1 ELSE 2
           next == NextCase(old, merge, left)
           term == CaseTerm(old, merge, left, has_default)
           head == Extended(old, chain, n, term)
           code == Nested(head, chain, nest)
<1>1. N \in Nat /\ DOMAIN old = 1..N /\ n \in Nat /\ chain \in 1..N /\ merge \in Nat
  BY CodeDomain
<1>2. next \in Nat /\ N + 1 \in Nat /\ (N + 1) + 1 = N + 2
  BY <1>1 DEF NextCase
<1>3. Cased(old, chain, merge, left, has_default, nest) = code
  BY <1>2 DEF Cased, NextCase, CaseTerm
<1>4. term \in Terms
  <2> HIDE DEF next, N
  <2>1. Jump(N + 1) \in Terms /\ Branch("opaque", N + 1, next) \in Terms
    BY <1>2, TermTargets DEF Conds
  <2> QED
    BY <2>1 DEF CaseTerm, next, N
<1> HIDE DEF next, N, term, n
<1>5. IsExtended(head, old, chain, n, term)
  BY <1>1, <1>4, ExtendedIs
<1> HIDE DEF head
<1>6. head \in Code /\ head[chain].term = term /\ Len(head) = N + n
  BY <1>5 DEF IsExtended, N
<1>7. chain \in DOMAIN head
  BY <1>1, <1>6, CodeDomain
<1>8. code[chain].term = term
  BY <1>6, <1>7, NestIs
<1> QED
  BY <1>3, <1>8 DEF term

LEMMA BeginsCase ==
    ASSUME NEW old \in Code, NEW chain \in DOMAIN old, NEW merge \in DOMAIN old,
           NEW left \in Nat \ {0}, NEW has_default \in BOOLEAN, NEW scs, NEW frames, NEW waits,
           BeginCase(old, chain, merge, left, has_default, scs, frames, waits),
           NEW nest, nest = (IF chain = current THEN old[chain].nest ELSE InScopes(scs))
    PROVE  BeginBlock(Cased(old, chain, merge, left, has_default, nest), Len(old) + 1,
                      CaseScope(old, merge, left, has_default), scs, frames, waits)
<1> DEFINE N == Len(old)
           code == Cased(old, chain, merge, left, has_default, nest)
           scope == CaseScope(old, merge, left, has_default)
           term == IF left = 1 /\ has_default THEN Jump(N + 1)
                   ELSE Branch("opaque", N + 1, IF left = 1 THEN merge ELSE N + 2)
           n == IF left = 1 THEN 1 ELSE 2
           head == Extended(old, chain, n, term)
<1>1. N \in Nat /\ DOMAIN old = 1..N /\ merge \in Nat /\ n \in Nat
  BY CodeDomain
<1>2. (N + 1) + 1 = N + 2
  BY <1>1
<1>3. term \in Terms
  <2>1. N + 1 \in Nat /\ N + 2 \in Nat
    BY <1>1
  <2> HIDE DEF N
  <2> QED
    BY <1>1, <2>1, TermTargets DEF Conds
<1>4. code = Nested(head, chain, nest)
  BY <1>2 DEF Cased
<1>5. BeginBlock([Seal(Grow(old, n), chain, term)
                    EXCEPT ![chain].nest = IF chain = current THEN @ ELSE InScopes(scs)],
                 N + 1, scope, scs, frames, waits)
  BY <1>2 DEF BeginCase, CaseScope, NextCase
<1> HIDE DEF term, N, n
<1>6. head[chain].nest = old[chain].nest
  <2>1. IsExtended(head, old, chain, n, term)
    BY <1>1, <1>3, ExtendedIs
  <2> HIDE DEF head
  <2> QED
    BY <2>1 DEF IsExtended
<1>7. head = Seal(Grow(old, n), chain, term)
  BY DEF Extended
<1> HIDE DEF head, code, scope
<1>8. code = [head EXCEPT ![chain].nest = IF chain = current THEN @ ELSE InScopes(scs)]
  BY <1>4, <1>6 DEF Nested
<1> QED
  BY <1>5, <1>7, <1>8 DEF N, code, scope

LEMMA CaseScopeIs ==
    ASSUME NEW old \in Code, NEW merge \in DOMAIN old, NEW left \in Nat \ {0}, NEW has_default \in BOOLEAN
    PROVE  LET scope == CaseScope(old, merge, left, has_default)
               next == NextCase(old, merge, left) IN
           /\ scope \in ScopeRecords /\ scope.part \in {"case", "open"} /\ scope.after = merge
           /\ scope.other = next /\ AwaitedBy(scope) = {merge, next}
           /\ next \in Nat /\ next # Len(old) + 1 /\ next # 0 /\ merge # Len(old) + 1
<1> DEFINE scope == CaseScope(old, merge, left, has_default)
           next == NextCase(old, merge, left)
           N == Len(old)
           part == IF has_default THEN "case" ELSE "open"
           rest == left - 1
<1>1. N \in Nat /\ merge \in 1..N
  BY CodeDomain
<1>2. next \in Nat /\ next # N + 1 /\ next # 0 /\ merge # N + 1 /\ merge # 0 /\ merge \in Nat
  BY <1>1 DEF NextCase
<1>3. part \in {"case", "open"} /\ part \in Parts /\ rest \in Nat
  BY DEF Parts
<1>4. scope = Scope(part, merge, next, rest)
  BY DEF CaseScope
<1> HIDE DEF next, scope, part, rest, N
<1>5. /\ scope \in ScopeRecords /\ scope.part = part /\ scope.after = merge /\ scope.other = next
      /\ AwaitedBy(scope) = {merge, next} \ {0}
  BY <1>2, <1>3, <1>4, ScopeIs
<1>6. /\ scope \in ScopeRecords /\ scope.part \in {"case", "open"} /\ scope.after = merge
      /\ scope.other = next /\ AwaitedBy(scope) = {merge, next}
      /\ next \in Nat /\ next # N + 1 /\ next # 0 /\ merge # N + 1
  BY <1>2, <1>3, <1>5
<1> QED
  BY <1>6 DEF scope, next, N

LEMMA WhenKeeps ==
    ASSUME NEW h, NEW T, NEW view, Followed(h, T, view), NEW view2, Looser(Len(scopes), view, view2),
           NEW cases \in Nat \ {0}, NEW has_default \in BOOLEAN, lowerWhen(cases, has_default),
           Here2(view) => Here2(view2) /\ Len(scopes) + 2 \in view2.before,
           Len(scopes) + 1 \in view2.shut => has_default, Len(scopes) + 1 \notin view2.cut
    PROVE  \E T2 : Kept(h, T2, view2)'
<1> DEFINE N == Len(blocks)
           n == IF cases = 1 THEN 2 ELSE 3
           old == Grow(blocks, 1)
           nest == old[current].nest
           code == Cased(old, current, N + 1, cases, has_default, nest)
           s == CaseScope(old, N + 1, cases, has_default)
           next == NextCase(old, N + 1, cases)
           term == CaseTerm(old, N + 1, cases, has_default)
           taken == IF Here2(view) THEN Ways(h, term) ELSE {}
<1>1. PICK want, live, base : Lowered(want, live, base)
  BY DEF Followed, Lowers
<1>2. blocks \in Code /\ current \in DOMAIN blocks /\ N \in Nat /\ DOMAIN blocks = 1..N
  BY <1>1, LoweredFacts DEF Followed
<1>3. Open /\ BeginCase(old, current, N + 1, cases, has_default, scopes, cleanups, pending)
  BY DEF lowerWhen
<1>4. /\ old \in Code /\ Len(old) = N + 1 /\ DOMAIN old = 1..(N + 1)
      /\ \A b \in DOMAIN blocks : old[b] = blocks[b]
      /\ old[N + 1] = newBlock
  <2>1. old \in Code /\ Len(old) = N + 1
    BY <1>2, GrowIs
  <2>2. \A b \in 1..N : old[b] = blocks[b]
    BY <1>2, GrowIs
  <2>3. N + 1 \in (N + 1)..(N + 1)
    BY <1>2
  <2>4. old[N + 1] = newBlock
    BY <1>2, <2>3, GrowIs
  <2> QED
    BY <1>2, <2>1, <2>2, <2>4, CodeDomain
<1> HIDE DEF old
<1>5. /\ N + 1 \in DOMAIN old /\ current \in DOMAIN old /\ N + 1 # current /\ (N + 1) + 1 = N + 2
      /\ N + 2 \in Nat /\ n \in Nat /\ N + 2 # N + 1 /\ N + 2 # 0 /\ N + 3 # N + 1 /\ N + 3 # N + 2
      /\ Len(old) + 1 = N + 2 /\ Len(old) + 2 = N + 3
  BY <1>2, <1>4
<1>6. nest \in Seq(Places)
  <2>1. old[current] \in BlockRecords
    BY <1>4, <1>5, CodeDomain
  <2> QED
    BY <2>1 DEF BlockRecords
<1>7. (cases = 1 /\ next = N + 1 /\ n = 2) \/ (cases # 1 /\ next = N + 3 /\ n = 3)
  BY <1>5 DEF NextCase
<1> HIDE DEF next, n
<1>8. Fresh(n) = (IF cases = 1 THEN {N + 1, N + 2} ELSE {N + 1, N + 2, N + 3})
  <2>1. Fresh(n) = (N + 1)..(N + n)
    BY DEF Fresh
  <2> HIDE DEF N
  <2>2. (N + 1)..(N + 2) = {N + 1, N + 2} /\ (N + 1)..(N + 3) = {N + 1, N + 2, N + 3}
    BY <1>2
  <2>3. CASE cases = 1
    BY <1>7, <2>1, <2>2, <2>3
  <2>4. CASE cases # 1
    BY <1>7, <2>1, <2>2, <2>4
  <2> QED
    BY <2>3, <2>4
<1> HIDE DEF N
<1>9. IsCased(code, old, current, N + 1, cases, nest) /\ code[current].term = term
  <2> DEFINE merge == N + 1
  <2>1. old \in Code /\ current \in DOMAIN old /\ merge \in DOMAIN old /\ nest \in Seq(Places)
    BY <1>4, <1>5, <1>6
  <2>2. code = Cased(old, current, merge, cases, has_default, nest)
    OBVIOUS
  <2>3. term = CaseTerm(old, merge, cases, has_default)
    OBVIOUS
  <2> HIDE DEF nest, merge, code, term
  <2>4. IsCased(code, old, current, merge, cases, nest)
    BY <2>1, <2>2, CasedIs
  <2>5. code[current].term = term
    BY <2>1, <2>2, <2>3, CaseTermIs
  <2> QED
    BY <2>4, <2>5 DEF merge
<1>10. BeginBlock(code, N + 2, s, scopes, cleanups, pending)
  <2>1. nest = (IF current = current THEN old[current].nest ELSE InScopes(scopes))
    OBVIOUS
  <2> HIDE DEF nest
  <2>2. BeginBlock(Cased(old, current, N + 1, cases, has_default, nest), Len(old) + 1, s,
                   scopes, cleanups, pending)
    BY <1>3, <1>4, <1>5, <2>1, BeginsCase
  <2> QED
    BY <1>5, <2>2
<1> HIDE DEF code, nest
<1>11. /\ code \in Code /\ Len(code) = N + n
       /\ \A b \in DOMAIN old \ {current} : code[b] = old[b]
       /\ code[current].insts = old[current].insts
       /\ \A b \in {N + 2} \cup (IF cases = 1 THEN {} ELSE {N + 3}) : code[b] = newBlock
  <2>1. /\ code \in Code /\ Len(code) = (IF cases = 1 THEN Len(old) + 1 ELSE Len(old) + 2)
        /\ \A b \in DOMAIN old \ {current} : code[b] = old[b]
        /\ code[current].insts = old[current].insts
        /\ \A b \in (Len(old) + 1)..Len(code) : code[b] = newBlock
    BY <1>9 DEF IsCased
  <2>2. Len(code) = N + n
    BY <1>4, <1>5, <1>7, <2>1
  <2>3. \A b \in {N + 2} \cup (IF cases = 1 THEN {} ELSE {N + 3}) : b \in (Len(old) + 1)..Len(code)
    BY <1>2, <1>4, <1>5, <1>7, <2>1 DEF N
  <2> QED
    BY <2>1, <2>2, <2>3
<1>12. \A b \in Fresh(n) : code[b].insts = <<>> /\ code[b].term = None
  <2>1. code[N + 1] = newBlock
    BY <1>4, <1>5, <1>11
  <2>2. \A b \in Fresh(n) : code[b] = newBlock
    BY <1>8, <1>11, <2>1
  <2> QED
    BY <2>2, NewBlock
<1>13. Grown(code, n)
  <2>1. \A b \in DOMAIN blocks \ {current} : code[b] = blocks[b]
    <3>1. \A b \in DOMAIN blocks : b \in DOMAIN old
      BY <1>2, <1>4 DEF N
    <3> QED
      BY <1>4, <1>11, <3>1
  <2>2. code[current].insts = blocks[current].insts
    BY <1>2, <1>4, <1>11
  <2> QED
    BY <1>11, <1>12, <2>1, <2>2 DEF Grown, N
<1>14. /\ s \in ScopeRecords /\ s.part \in {"case", "open"} /\ s.after = N + 1 /\ s.other = next
       /\ AwaitedBy(s) = {N + 1, next}
  <2> DEFINE merge == N + 1
  <2>1. old \in Code /\ merge \in DOMAIN old
    BY <1>4, <1>5
  <2>2. s = CaseScope(old, merge, cases, has_default) /\ next = NextCase(old, merge, cases)
    BY DEF next
  <2> HIDE DEF merge, s
  <2>3. /\ s \in ScopeRecords /\ s.part \in {"case", "open"} /\ s.after = merge /\ s.other = next
        /\ AwaitedBy(s) = {merge, next}
    BY <2>1, <2>2, CaseScopeIs
  <2> QED
    BY <2>3 DEF merge
<1> HIDE DEF s
<1>15. AwaitedBy(s) \subseteq Fresh(n) /\ N + 2 \in Fresh(n) /\ s.part # "loop"
  BY <1>7, <1>8, <1>14
<1>16. \A z \in Ways(h, term) : z = N + 2 \/ (z = next /\ ~(cases = 1 /\ has_default))
  <2>1. CASE cases = 1 /\ has_default
    <3> DEFINE to == N + 2
    <3>1. term = Jump(to)
      BY <1>5, <2>1 DEF CaseTerm
    <3> HIDE DEF term, to
    <3>2. Ways(h, term) = {to}
      BY <3>1, WaysIs
    <3> QED
      BY <3>2 DEF to
  <2>2. CASE ~(cases = 1 /\ has_default)
    <3>1. term = Branch("opaque", N + 2, next)
      BY <1>5, <2>2 DEF CaseTerm, next
    <3> HIDE DEF term
    <3>2. \A z \in Ways(h, term) : z = N + 2 \/ z = next
      BY <3>1, BranchWays
    <3>3. ~(cases = 1 /\ has_default)
      BY <2>2
    <3> QED
      BY <3>2, <3>3
  <2> QED
    BY <2>1, <2>2
<1> HIDE DEF term
<1>17. \A z \in taken : Here2(view) /\ (z = N + 2 \/ (z = next /\ ~(cases = 1 /\ has_default)))
  BY <1>16
<1>18. taken \subseteq Fresh(n) /\ (Here2(view) => Ways(h, code[current].term) \subseteq taken)
  BY <1>7, <1>8, <1>9, <1>17
<1> HIDE DEF taken
<1>19. \A b \in taken : Ways(h, code[b].term) \subseteq taken
  <2>1. Ways(h, None) = {}
    BY WaysIs
  <2> QED
    BY <1>12, <1>18, <2>1
<1>20. Held(taken, s, Len(scopes) + 1, view2)
  <2>1. s.after \in taken => Here2(view) /\ ~has_default
    BY <1>5, <1>7, <1>14, <1>17
  <2>2. s.other \in taken => Here2(view)
    BY <1>17
  <2> QED
    BY <1>14, <2>1, <2>2 DEF Held, Here2
<1>21. N + 2 \in taken => Len(scopes) + 2 \in view2.before
  BY <1>17
<1>22. code[N + 2].term = None /\ n \in Nat
  BY <1>7, <1>12, <1>15
<1> QED
  BY <1>3, <1>10, <1>13, <1>14, <1>15, <1>18, <1>19, <1>20, <1>21, <1>22, ConstructKeeps

(***************************************************************************)
(* Closings.                                                               *)
(***************************************************************************)
LEMMA Innermost ==
    ASSUME NEW h, NEW T, NEW view, Followed(h, T, view), NEW s, s = Last(scopes), s.part # "body"
    PROVE  /\ Len(scopes) \in Nat /\ Len(scopes) >= 2 /\ s = scopes[Len(scopes)] /\ s \in ScopeRecords
           /\ Shape(blocks, s) /\ AwaitedBy(s) \subseteq DOMAIN blocks \ {current}
           /\ \A x \in AwaitedBy(s) : blocks[x].term = None => Blank(blocks[x])
           /\ \A i \in 1..(Len(scopes) - 1) : AwaitedBy(scopes[i]) \cap AwaitedBy(s) = {}
           /\ Held(Doors(T), s, Len(scopes), view)
           /\ Front(scopes) \in Seq(ScopeRecords) /\ Len(Front(scopes)) = Len(scopes) - 1
           /\ \A i \in 1..(Len(scopes) - 1) : Front(scopes)[i] = scopes[i]
<1>1. PICK want, live, base : Lowered(want, live, base)
  BY DEF Followed, Lowers
<1>2. scopes # <<>> /\ scopes \in Seq(ScopeRecords) /\ Len(scopes) \in Nat /\ Kept(h, T, view)
  BY <1>1, LoweredFacts DEF Followed
<1>3. s = scopes[Len(scopes)] /\ Len(scopes) \in 1..Len(scopes)
  BY <1>2 DEF Last
<1>4. /\ s \in ScopeRecords /\ Shape(blocks, s) /\ (s.part = "body" <=> Len(scopes) = 1)
      /\ AwaitedBy(s) \subseteq DOMAIN blocks \ {current}
      /\ \A j \in 1..Len(scopes) : j # Len(scopes) => AwaitedBy(s) \cap AwaitedBy(scopes[j]) = {}
      /\ \A x \in AwaitedBy(s) : blocks[x].term = None => Blank(blocks[x])
  BY <1>1, <1>2, <1>3, ScopeFacts
<1>5. Len(scopes) >= 2
  <2> DEFINE m == Len(scopes)
  <2>1. m \in Nat /\ m # 1 /\ m # 0
    BY <1>2, <1>4
  <2> HIDE DEF m
  <2>2. m >= 2
    BY <2>1
  <2> QED
    BY <2>2 DEF m
<1>6. Held(Doors(T), s, Len(scopes), view)
  <2>1. Len(scopes) \in 2..Len(scopes)
    BY <1>2, <1>5
  <2> QED
    BY <1>2, <1>3, <2>1 DEF Kept
<1>7. /\ Front(scopes) \in Seq(ScopeRecords) /\ Len(Front(scopes)) = Len(scopes) - 1
      /\ \A i \in 1..(Len(scopes) - 1) : Front(scopes)[i] = scopes[i]
  BY <1>2, <1>5 DEF Front
<1>8. \A i \in 1..(Len(scopes) - 1) : AwaitedBy(scopes[i]) \cap AwaitedBy(s) = {}
  <2> SUFFICES ASSUME NEW i \in 1..(Len(scopes) - 1)
               PROVE  AwaitedBy(scopes[i]) \cap AwaitedBy(s) = {}
    OBVIOUS
  <2>1. i \in 1..Len(scopes) /\ i # Len(scopes)
    BY <1>2
  <2> QED
    BY <1>4, <2>1
<1> QED
  BY <1>2, <1>3, <1>4, <1>5, <1>6, <1>7, <1>8

\* What is put to use are the blocks the innermost construct awaits, and new ones.
Uses(h, T, view, s, added, fresh, taken) ==
  /\ added \in Seq(Insts) /\ Moves(blocks, current, blocks', added, fresh) /\ taken \subseteq fresh
  /\ fresh \cap DOMAIN blocks \subseteq AwaitedBy(s)
  /\ \A b \in fresh \cap DOMAIN blocks : <<b, 1>> \in T => b \in taken
  /\ Goes(h, T, view, taken)

LEMMA OuterStays ==
    ASSUME NEW h, NEW T, NEW view, Followed(h, T, view), NEW s, s = Last(scopes), s.part # "body",
           NEW view2, Looser(Len(scopes) - 1, view, view2), NEW added, NEW fresh, NEW taken,
           Uses(h, T, view, s, added, fresh, taken)
    PROVE  \A i \in 2..(Len(scopes) - 1) :
             /\ Held(Doors(T) \cup taken, scopes[i], i, view2)
             /\ current \notin AwaitedBy(scopes[i]) /\ (scopes[i].part = "loop" => scopes[i].other # 0)
<1> SUFFICES ASSUME NEW i \in 2..(Len(scopes) - 1)
             PROVE  /\ Held(Doors(T) \cup taken, scopes[i], i, view2)
                    /\ current \notin AwaitedBy(scopes[i])
                    /\ scopes[i].part = "loop" => scopes[i].other # 0
  OBVIOUS
<1>1. PICK want, live, base : Lowered(want, live, base)
  BY DEF Followed, Lowers
<1>2. /\ Len(scopes) \in Nat /\ AwaitedBy(s) \subseteq DOMAIN blocks
      /\ \A j \in 1..(Len(scopes) - 1) : AwaitedBy(scopes[j]) \cap AwaitedBy(s) = {}
  BY Innermost
<1>3. i \in 1..(Len(scopes) - 1) /\ i \in 1..Len(scopes) /\ i \in 2..Len(scopes)
  BY <1>2
<1>4. AwaitedBy(scopes[i]) \subseteq DOMAIN blocks
  BY <1>1, <1>3, ScopeFacts DEF Followed
<1>5. taken \cap AwaitedBy(scopes[i]) = {}
  <2>1. AwaitedBy(scopes[i]) \cap AwaitedBy(s) = {}
    BY <1>2, <1>3
  <2>2. taken \cap DOMAIN blocks \subseteq AwaitedBy(s)
    BY DEF Uses
  <2> QED
    BY <1>4, <2>1, <2>2
<1>6. Relaxed(scopes[i], i, view, view2)
  BY DEF Looser
<1> QED
  BY <1>1, <1>3, <1>5, <1>6, LevelStays DEF Followed

\* The construct is over.
LEMMA LeavesKept ==
    ASSUME NEW h, NEW T, NEW view, Followed(h, T, view), NEW s, s = Last(scopes), s.part # "body",
           NEW view2, Looser(Len(scopes) - 1, view, view2), NEW added, NEW fresh, NEW taken,
           Uses(h, T, view, s, added, fresh, taken), scopes' = Front(scopes),
           Arrives(view, view2, fresh, taken)
    PROVE  \E T2 : Kept(h, T2, view2)'
<1>1. PICK want, live, base : Lowered(want, live, base)
  BY DEF Followed, Lowers
<1>2. /\ Len(scopes) \in Nat /\ Len(scopes) >= 2 /\ Len(Front(scopes)) = Len(scopes) - 1
      /\ \A i \in 1..(Len(scopes) - 1) : Front(scopes)[i] = scopes[i]
      /\ Front(scopes) \in Seq(ScopeRecords)
  BY Innermost
<1>3. /\ Len(scopes') = Len(scopes) - 1 /\ scopes' # <<>>
      /\ \A i \in 1..(Len(scopes) - 1) : scopes'[i] = scopes[i]
  BY <1>2
<1>4. \A i \in 2..Len(scopes') :
        /\ Held(Doors(T) \cup taken, scopes'[i], i, view2) /\ current \notin AwaitedBy(scopes'[i])
        /\ scopes'[i].part = "loop" => scopes'[i].other # 0
  <2> SUFFICES ASSUME NEW i \in 2..Len(scopes')
               PROVE  /\ Held(Doors(T) \cup taken, scopes'[i], i, view2)
                      /\ current \notin AwaitedBy(scopes'[i])
                      /\ scopes'[i].part = "loop" => scopes'[i].other # 0
    OBVIOUS
  <2>1. i \in 2..(Len(scopes) - 1) /\ i \in 1..(Len(scopes) - 1)
    BY <1>2, <1>3
  <2>2. scopes'[i] = scopes[i]
    BY <1>3, <2>1
  <2> QED
    BY <2>1, <2>2, OuterStays
<1>5. /\ added \in Seq(Insts) /\ Moves(blocks, current, blocks', added, fresh)
      /\ Takes(h, T, blocks, current, blocks', fresh, taken)
  BY GoesTakes DEF Uses
<1>6. blocks'[current'].term = None =>
        \/ /\ current' = current /\ Open
           /\ Len(scopes) + 1 \in view.before => Len(scopes') + 1 \in view2.before
        \/ current' \in fresh /\ (current' \in taken => Len(scopes') + 1 \in view2.before)
  BY DEF Arrives, Here2
<1> QED
  BY <1>1, <1>3, <1>4, <1>5, <1>6, Advance DEF Followed

\* Another block of it begins.
LEMMA TurnsKept ==
    ASSUME NEW h, NEW T, NEW view, Followed(h, T, view), NEW s, s = Last(scopes), s.part # "body",
           NEW view2, Looser(Len(scopes) - 1, view, view2), NEW added, NEW fresh, NEW taken,
           Uses(h, T, view, s, added, fresh, taken),
           NEW s2 \in ScopeRecords, scopes' = Append(Front(scopes), s2), s2.part # "loop",
           AwaitedBy(s2) \subseteq fresh, Held(Doors(T) \cup taken, s2, Len(scopes), view2),
           Arrives(view, view2, fresh, taken)
    PROVE  \E T2 : Kept(h, T2, view2)'
<1>1. PICK want, live, base : Lowered(want, live, base)
  BY DEF Followed, Lowers
<1>2. /\ Len(scopes) \in Nat /\ Len(scopes) >= 2 /\ Len(Front(scopes)) = Len(scopes) - 1
      /\ \A i \in 1..(Len(scopes) - 1) : Front(scopes)[i] = scopes[i]
      /\ Front(scopes) \in Seq(ScopeRecords)
  BY Innermost
<1>3. /\ Len(scopes') = Len(scopes) /\ scopes' # <<>> /\ scopes'[Len(scopes)] = s2
      /\ \A i \in 1..(Len(scopes) - 1) : scopes'[i] = scopes[i]
  <2> DEFINE outer == Front(scopes)
             all == Append(outer, s2)
  <2>1. outer \in Seq(ScopeRecords) /\ Len(outer) = Len(scopes) - 1
        /\ \A i \in 1..(Len(scopes) - 1) : outer[i] = scopes[i]
    BY <1>2
  <2> HIDE DEF outer
  <2>2. /\ all \in Seq(ScopeRecords) /\ Len(all) = Len(outer) + 1 /\ all[Len(outer) + 1] = s2
        /\ \A i \in 1..Len(outer) : all[i] = outer[i]
    BY <2>1, AppendProperties
  <2>3. scopes' = all
    BY DEF outer
  <2> HIDE DEF all
  <2>4. Len(outer) + 1 = Len(scopes)
    BY <1>2, <2>1
  <2>5. all # <<>>
    BY <1>2, <2>2, <2>4
  <2> QED
    BY <2>1, <2>2, <2>3, <2>4, <2>5
<1>4. \A i \in 2..Len(scopes') :
        /\ Held(Doors(T) \cup taken, scopes'[i], i, view2) /\ current \notin AwaitedBy(scopes'[i])
        /\ scopes'[i].part = "loop" => scopes'[i].other # 0
  <2> SUFFICES ASSUME NEW i \in 2..Len(scopes')
               PROVE  /\ Held(Doors(T) \cup taken, scopes'[i], i, view2)
                      /\ current \notin AwaitedBy(scopes'[i])
                      /\ scopes'[i].part = "loop" => scopes'[i].other # 0
    OBVIOUS
  <2>1. CASE i = Len(scopes)
    <3>1. current \notin fresh
      BY DEF Uses, Moves
    <3> QED
      BY <1>3, <2>1, <3>1
  <2>2. CASE i # Len(scopes)
    <3>1. i \in 2..(Len(scopes) - 1) /\ i \in 1..(Len(scopes) - 1)
      BY <1>2, <1>3, <2>2
    <3>2. scopes'[i] = scopes[i]
      BY <1>3, <3>1
    <3> QED
      BY <3>1, <3>2, OuterStays
  <2> QED
    BY <2>1, <2>2
<1>5. /\ added \in Seq(Insts) /\ Moves(blocks, current, blocks', added, fresh)
      /\ Takes(h, T, blocks, current, blocks', fresh, taken)
  BY GoesTakes DEF Uses
<1>6. blocks'[current'].term = None =>
        \/ /\ current' = current /\ Open
           /\ Len(scopes) + 1 \in view.before => Len(scopes') + 1 \in view2.before
        \/ current' \in fresh /\ (current' \in taken => Len(scopes') + 1 \in view2.before)
  BY DEF Arrives, Here2
<1> QED
  BY <1>1, <1>3, <1>4, <1>5, <1>6, Advance DEF Followed

\* The block being lowered, with its cleanup, and where it leads on.
EndedBy(code, added) ==
  /\ code \in Code /\ Len(code) = Len(blocks) /\ DOMAIN code = DOMAIN blocks
  /\ \A b \in DOMAIN blocks \ {current} : code[b] = blocks[b]
  /\ code[current].insts = blocks[current].insts \o added
  /\ added \in Seq(Insts) /\ Quietly(added) /\ (~Open => added = <<>>)

LEMMA EndAdds ==
    ASSUME NEW want, NEW live, NEW base, Lowered(want, live, base), scopes # <<>>
    PROVE  \E added : EndedBy(EndBlock, added) /\ EndBlock[current].term = blocks[current].term
<1> DEFINE d == Last(Flushed(cleanups, pending))
           runs == Runs("run", d)
           out == <<Mark("leave", 1)>>
           code == Emit(Emit(blocks, current, runs), current, out)
<1>1. /\ blocks \in Code /\ current \in DOMAIN blocks /\ blocks[current].insts \in Seq(Insts)
      /\ cleanups \in Seq(Seq(Places)) /\ cleanups # <<>>
      /\ pending \in Seq(Seq(Places)) /\ pending # <<>>
  BY LoweredFacts
<1>2. d \in Seq(Places)
  BY <1>1, FlushIs
<1>3. IsEnded(EndBlock)
  BY EndIs
<1>4. "run" \in Quiet /\ "leave" \in Quiet /\ 1 \in Nat
  BY DEF Quiet
<1>5. runs \in Seq(Insts) /\ Quietly(runs) /\ out \in Seq(Insts) /\ Quietly(out)
  <2>1. out \in Seq(Insts) /\ Quietly(out)
    BY <1>4, QuietMark
  <2> HIDE DEF d
  <2>2. runs \in Seq(Insts) /\ Quietly(runs)
    BY <1>2, <1>4, QuietOps
  <2> QED
    BY <2>1, <2>2
<1>6. blocks[current].term # None => EndBlock = blocks
  BY DEF EndBlock, Open
<1>7. blocks[current].term = None => EndBlock = code
  BY DEF EndBlock, Open, flushPendingDefers, Flushed
<1> HIDE DEF runs, out
<1>8. code[current].insts = blocks[current].insts \o (runs \o out)
  <2>1. \A u, l \in Seq(Insts) :
          LET e == Emit(Emit(blocks, current, u), current, l) IN
          e[current].insts = blocks[current].insts \o (u \o l)
    BY EmitsHere
  <2> QED
    BY <1>5, <2>1
<1> HIDE DEF code
<1>9. /\ EndBlock \in Code /\ Len(EndBlock) = Len(blocks) /\ DOMAIN EndBlock = DOMAIN blocks
      /\ \A b \in DOMAIN blocks \ {current} : EndBlock[b] = blocks[b]
      /\ EndBlock[current].term = blocks[current].term
  BY <1>3 DEF IsEnded
<1>10. CASE blocks[current].term = None
  <2>1. runs \o out \in Seq(Insts) /\ Quietly(runs \o out)
    BY <1>5, QuietBoth
  <2>2. EndedBy(EndBlock, runs \o out)
    BY <1>7, <1>8, <1>9, <1>10, <2>1 DEF EndedBy, Open
  <2> QED
    BY <1>9, <2>2
<1>11. CASE blocks[current].term # None
  <2>1. EndBlock[current].insts = blocks[current].insts \o <<>> /\ <<>> \in Seq(Insts)
    BY <1>1, <1>6, <1>11
  <2>2. EndedBy(EndBlock, <<>>)
    BY <1>9, <2>1, QuietOps DEF EndedBy
  <2> QED
    BY <1>9, <2>2
<1> QED
  BY <1>10, <1>11

LEMMA JoinAdds ==
    ASSUME NEW want, NEW live, NEW base, Lowered(want, live, base), scopes # <<>>, NEW target \in Nat
    PROVE  LET code == FallInto(EndBlock, current, target) IN
           \E added : /\ EndedBy(code, added)
                      /\ code[current].term = IF Open THEN Jump(target) ELSE blocks[current].term
<1> DEFINE code == FallInto(EndBlock, current, target)
           old == EndBlock
<1>1. PICK added : EndedBy(old, added) /\ old[current].term = blocks[current].term
  BY EndAdds
<1> HIDE DEF old
<1>2. old \in Code /\ current \in DOMAIN old
  BY <1>1, LoweredFacts DEF EndedBy
<1>3. code = FallInto(old, current, target)
  BY DEF old
<1> HIDE DEF code
<1>4. /\ code \in Code /\ Len(code) = Len(old) /\ DOMAIN code = DOMAIN old
      /\ \A c \in DOMAIN old \ {current} : code[c] = old[c]
      /\ code[current].insts = old[current].insts
      /\ code[current].term = IF old[current].term = None THEN Jump(target) ELSE old[current].term
  BY <1>2, <1>3, FallsInto
<1>5. EndedBy(code, added)
  BY <1>1, <1>4 DEF EndedBy
<1> QED
  BY <1>1, <1>4, <1>5 DEF Open, code

\* The blocks of put, which the innermost construct awaits, and n new ones are put to use.
LEMMA UsesIs ==
    ASSUME NEW h, NEW T, NEW view, Followed(h, T, view), NEW s, s = Last(scopes), s.part # "body",
           NEW added, NEW code, EndedBy(code, added), NEW n \in Nat, Len(blocks') = Len(blocks) + n,
           NEW put, put \subseteq AwaitedBy(s), \A b \in put : blocks[b].term = None,
           \A b \in DOMAIN blocks \ put : blocks'[b].insts = code[b].insts /\ blocks'[b].term = code[b].term,
           ~Open => code[current].term = blocks[current].term,
           \A b \in put \cup Fresh(n) : Quietly(blocks'[b].insts),
           NEW taken, taken \subseteq put \cup Fresh(n), put \cap Doors(T) \subseteq taken,
           Goes(h, T, view, taken)
    PROVE  Uses(h, T, view, s, added, put \cup Fresh(n), taken)
<1> DEFINE fresh == put \cup Fresh(n)
<1>1. PICK want, live, base : Lowered(want, live, base)
  BY DEF Followed, Lowers
<1>2. /\ blocks \in Code /\ current \in DOMAIN blocks /\ DOMAIN blocks = 1..Len(blocks) /\ Len(blocks) \in Nat
  BY <1>1, LoweredFacts DEF Followed
<1>3. /\ AwaitedBy(s) \subseteq DOMAIN blocks \ {current}
      /\ \A x \in AwaitedBy(s) : blocks[x].term = None => Blank(blocks[x])
  BY Innermost
<1>4. Fresh(n) \cap DOMAIN blocks = {}
  BY <1>2 DEF Fresh
<1>5. DOMAIN blocks' = DOMAIN blocks \cup Fresh(n)
  <2>1. blocks' \in Code
    BY NextFacts DEF Followed, Lowers, Lowered, Built, Around, Annotated
  <2>2. DOMAIN blocks' = 1..(Len(blocks) + n)
    BY <2>1, CodeDomain
  <2> QED
    BY <1>2, <2>2 DEF Fresh
<1>6. /\ added \in Seq(Insts) /\ Quietly(added) /\ (~Open => added = <<>>)
      /\ code[current].insts = blocks[current].insts \o added
      /\ \A b \in DOMAIN blocks \ {current} : code[b] = blocks[b]
  BY DEF EndedBy
<1>7. \A b \in fresh \cap DOMAIN blocks : b \in put
  BY <1>4
<1>8. Moves(blocks, current, blocks', added, fresh)
  <2>1. Len(blocks) <= Len(blocks')
    BY <1>2
  <2>2. DOMAIN blocks' \ DOMAIN blocks \subseteq fresh /\ fresh \subseteq DOMAIN blocks' \ {current}
    BY <1>2, <1>3, <1>4, <1>5
  <2>3. /\ blocks'[current].insts = blocks[current].insts \o added
        /\ blocks[current].term # None => added = <<>> /\ blocks'[current].term = blocks[current].term
    BY <1>2, <1>3, <1>6 DEF Open
  <2>4. \A b \in DOMAIN blocks \ (fresh \cup {current}) : Alike(blocks'[b], blocks[b])
    BY <1>6 DEF Alike
  <2>5. \A b \in fresh \cap DOMAIN blocks : Blank(blocks[b])
    BY <1>3, <1>7
  <2> HIDE DEF fresh
  <2> QED
    BY <1>6, <2>1, <2>2, <2>3, <2>4, <2>5 DEF Moves, fresh
<1>9. \A b \in fresh \cap DOMAIN blocks : <<b, 1>> \in T => b \in taken
  BY <1>2, <1>7 DEF Doors
<1> QED
  BY <1>6, <1>7, <1>8, <1>9 DEF Uses

\* The end of a block on its own.
LEMMA CloseBlockKeeps ==
    ASSUME NEW h, NEW T, NEW view, Followed(h, T, view), NEW s, s = Last(scopes), s.part = "block",
           NEW view2, Looser(Len(scopes) - 1, view, view2),
           blocks' = EndBlock, current' = current, scopes' = Front(scopes),
           Here2(view) => Len(scopes) \in view2.before
    PROVE  \E T2 : Kept(h, T2, view2)'
<1> DEFINE code == EndBlock
<1>1. PICK want, live, base : Lowered(want, live, base)
  BY DEF Followed, Lowers
<1>2. PICK added : EndedBy(code, added) /\ code[current].term = blocks[current].term
  BY <1>1, EndAdds DEF Followed
<1>3. /\ Len(blocks) \in Nat /\ current \in DOMAIN blocks /\ Len(scopes) \in Nat
  BY <1>1, LoweredFacts DEF Followed
<1>4. Fresh(0) = {}
  BY <1>3 DEF Fresh
<1>5. blocks' = code
  OBVIOUS
<1> HIDE DEF code
<1>6. Len(blocks') = Len(blocks) + 0 /\ 0 \in Nat
  BY <1>2, <1>3, <1>5 DEF EndedBy
<1>7. Goes(h, T, view, {})
  <2>1. Open => Ways(h, blocks'[current].term) = {}
    BY <1>2, <1>5, WaysIs DEF Open
  <2> QED
    BY <2>1 DEF Goes
<1>8. Uses(h, T, view, s, added, {} \cup Fresh(0), {})
  <2> DEFINE none == {}
  <2>1. /\ none \subseteq AwaitedBy(s) /\ (\A b \in none : blocks[b].term = None)
        /\ \A b \in none \cup Fresh(0) : Quietly(blocks'[b].insts)
        /\ none \subseteq none \cup Fresh(0) /\ none \cap Doors(T) \subseteq none
        /\ Goes(h, T, view, none)
    BY <1>4, <1>7
  <2>2. \A b \in DOMAIN blocks \ none : blocks'[b].insts = code[b].insts /\ blocks'[b].term = code[b].term
    BY <1>5
  <2> HIDE DEF none
  <2>3. Uses(h, T, view, s, added, none \cup Fresh(0), none)
    BY <1>2, <1>6, <2>1, <2>2, UsesIs
  <2> QED
    BY <2>3 DEF none
<1>9. Arrives(view, view2, {} \cup Fresh(0), {})
  <2>1. Len(scopes') + 1 = Len(scopes)
    BY <1>3, Innermost
  <2> QED
    BY <1>2, <1>5, <2>1 DEF Arrives, Open
<1> QED
  BY <1>8, <1>9, LeavesKept

LEMMA InScopesType == \A scs \in Seq(ScopeRecords) : InScopes(scs) \in Seq(Places)
<1> SUFFICES ASSUME NEW scs \in Seq(ScopeRecords)
             PROVE  InScopes(scs) \in Seq(Places)
  OBVIOUS
<1>1. \A i \in DOMAIN scs : scs[i].at \in Places
  <2>1. \A i \in DOMAIN scs : scs[i] \in ScopeRecords
    OBVIOUS
  <2> QED
    BY <2>1 DEF ScopeRecords
<1>2. DOMAIN scs = 1..Len(scs) /\ Len(scs) \in Nat
  OBVIOUS
<1> QED
  BY <1>1, <1>2 DEF InScopes

\* The end of a construct.
LEMMA EndKeeps ==
    ASSUME NEW h, NEW T, NEW view, Followed(h, T, view), NEW s, s = Last(scopes),
           s.part \notin {"body", "block"},
           NEW view2, Looser(Len(scopes) - 1, view, view2), scopes' = Front(scopes),
           SetCurrent(FallInto(EndBlock, current, IF s.part = "loop" THEN s.other ELSE s.after),
                      s.after, Front(scopes)),
           s.part = "loop" /\ Open /\ Here2(view) => Len(scopes) \in view.before,
           s.part # "loop" /\ Open /\ Here2(view) => Len(scopes) \in view2.before,
           Len(scopes) \in view.before /\ Len(scopes) \notin view.shut => Len(scopes) \in view2.before
    PROVE  \E T2 : Kept(h, T2, view2)'
<1> DEFINE target == IF s.part = "loop" THEN s.other ELSE s.after
           joined == FallInto(EndBlock, current, target)
           around == InScopes(Front(scopes))
           code2 == Nested(joined, s.after, around)
           here == Open /\ Here2(view)
           taken == IF s.after \in Doors(T) \/ (here /\ s.part # "loop") THEN {s.after} ELSE {}
<1>1. PICK want, live, base : Lowered(want, live, base)
  BY DEF Followed, Lowers
<1>2. /\ Len(blocks) \in Nat /\ current \in DOMAIN blocks /\ Len(scopes) \in Nat /\ blocks \in Code
  BY <1>1, LoweredFacts DEF Followed
<1>3. /\ s \in ScopeRecords /\ Shape(blocks, s) /\ Held(Doors(T), s, Len(scopes), view)
      /\ AwaitedBy(s) \subseteq DOMAIN blocks \ {current}
      /\ \A x \in AwaitedBy(s) : blocks[x].term = None => Blank(blocks[x])
      /\ Front(scopes) \in Seq(ScopeRecords) /\ Len(Front(scopes)) = Len(scopes) - 1
  BY Innermost
<1>4. /\ s.after \in DOMAIN blocks /\ blocks[s.after].term = None /\ s.after \in Nat /\ s.after # 0
      /\ s.other \in Nat /\ s.after \in AwaitedBy(s) /\ s.after # current
      /\ blocks[s.after].insts = <<>>
  <2>1. s.after \in DOMAIN blocks /\ blocks[s.after].term = None
    BY <1>3 DEF Shape
  <2>2. s.after \in Nat /\ s.other \in Nat
    BY <1>3 DEF ScopeRecords
  <2>3. s.after # 0
    BY <1>2, <2>1, CodeDomain
  <2>4. s.after \in AwaitedBy(s)
    BY <2>3 DEF AwaitedBy
  <2> QED
    BY <1>3, <2>1, <2>2, <2>3, <2>4 DEF Blank
<1>5. target \in Nat
  BY <1>4
<1>6. blocks' = code2 /\ current' = s.after
  BY DEF SetCurrent, Nested
<1> HIDE DEF target
<1>7. PICK added : /\ EndedBy(joined, added)
                   /\ joined[current].term = IF Open THEN Jump(target) ELSE blocks[current].term
  BY <1>1, <1>5, JoinAdds DEF Followed
<1> HIDE DEF joined
<1>8. joined \in Code /\ Len(joined) = Len(blocks) /\ DOMAIN joined = DOMAIN blocks
      /\ \A b \in DOMAIN blocks \ {current} : joined[b] = blocks[b]
  BY <1>7 DEF EndedBy
<1>9. around \in Seq(Places)
  BY <1>3, InScopesType
<1> HIDE DEF around
<1>10. /\ Len(code2) = Len(joined) /\ \A b \in DOMAIN joined \ {s.after} : code2[b] = joined[b]
       /\ code2[s.after].insts = joined[s.after].insts /\ code2[s.after].term = joined[s.after].term
  <2>1. joined \in Code /\ s.after \in DOMAIN joined /\ around \in Seq(Places)
    BY <1>4, <1>8, <1>9
  <2> DEFINE after == s.after
  <2> HIDE DEF after
  <2>2. /\ Len(Nested(joined, after, around)) = Len(joined)
        /\ \A b \in DOMAIN joined \ {after} : Nested(joined, after, around)[b] = joined[b]
        /\ Nested(joined, after, around)[after].insts = joined[after].insts
        /\ Nested(joined, after, around)[after].term = joined[after].term
    BY <2>1, NestIs DEF after
  <2> QED
    BY <2>2 DEF after
<1> HIDE DEF code2
<1>11. /\ blocks'[s.after].insts = <<>> /\ blocks'[s.after].term = None
       /\ blocks'[current].term = joined[current].term
       /\ \A b \in DOMAIN blocks : blocks'[b].insts = joined[b].insts /\ blocks'[b].term = joined[b].term
  <2>1. \A b \in DOMAIN blocks : blocks'[b].insts = joined[b].insts /\ blocks'[b].term = joined[b].term
    BY <1>6, <1>8, <1>10
  <2>2. joined[s.after] = blocks[s.after]
    BY <1>4, <1>8
  <2> QED
    BY <1>2, <1>4, <2>1, <2>2
<1>12. Fresh(0) = {}
  BY <1>2 DEF Fresh
<1>13. Goes(h, T, view, taken)
  <2>1. ASSUME here
        PROVE  \A x \in Ways(h, blocks'[current].term) : x \in taken \/ <<x, 1>> \in T
    <3>1. Ways(h, blocks'[current].term) = {target}
      <4>1. blocks'[current].term = Jump(target)
        BY <1>7, <1>11, <2>1
      <4> QED
        BY <4>1, WaysIs
    <3>2. CASE s.part = "loop"
      <4>1. s.other \in Doors(T)
        BY <1>3, <2>1, <3>2 DEF Held
      <4> QED
        BY <3>1, <3>2, <4>1 DEF Doors, target
    <3>3. CASE s.part # "loop"
      BY <2>1, <3>1, <3>3 DEF target
    <3> QED
      BY <3>2, <3>3
  <2>2. \A b \in taken : Ways(h, blocks'[b].term) = {}
    BY <1>11, WaysIs
  <2> QED
    BY <2>1, <2>2 DEF Goes
<1>14. Uses(h, T, view, s, added, {s.after} \cup Fresh(0), taken)
  <2> DEFINE put == {s.after}
  <2>1. /\ put \subseteq AwaitedBy(s) /\ (\A b \in put : blocks[b].term = None)
        /\ \A b \in put \cup Fresh(0) : Quietly(blocks'[b].insts)
        /\ taken \subseteq put \cup Fresh(0) /\ put \cap Doors(T) \subseteq taken
    BY <1>4, <1>11, <1>12, QuietOps
  <2>2. \A b \in DOMAIN blocks \ put : blocks'[b].insts = joined[b].insts /\ blocks'[b].term = joined[b].term
    BY <1>11
  <2>3. Len(blocks') = Len(blocks) + 0 /\ 0 \in Nat
    BY <1>2, <1>6, <1>8, <1>10
  <2>4. ~Open => joined[current].term = blocks[current].term
    BY <1>7
  <2> HIDE DEF put, taken
  <2>5. Uses(h, T, view, s, added, put \cup Fresh(0), taken)
    BY <1>7, <1>13, <2>1, <2>2, <2>3, <2>4, UsesIs
  <2> QED
    BY <2>5 DEF put
<1>15. Arrives(view, view2, {s.after} \cup Fresh(0), taken)
  <2>1. s.after \in Doors(T) => Len(scopes) \in view.before /\ Len(scopes) \notin view.shut
    BY <1>3, <1>4 DEF Held
  <2>2. s.after \in taken => Len(scopes) \in view2.before
    BY <2>1
  <2>3. Len(scopes') + 1 = Len(scopes)
    BY <1>2, <1>3
  <2> QED
    BY <1>6, <2>2, <2>3 DEF Arrives
<1> HIDE DEF taken
<1> QED
  BY <1>14, <1>15, LeavesKept

LEMMA ConstructFacts ==
    ASSUME NEW h, NEW T, NEW view, Followed(h, T, view), NEW s, s = Last(scopes),
           s.part \notin {"body", "block"}
    PROVE  /\ s.after \in DOMAIN blocks /\ s.after \in AwaitedBy(s) /\ s.after \in Nat /\ s.after # 0
           /\ s.after # current /\ blocks[s.after].term = None /\ blocks[s.after].insts = <<>>
           /\ s.other \in Nat
           /\ s.other # 0 /\ s.part # "loop" =>
                /\ s.other \in DOMAIN blocks /\ s.other \in AwaitedBy(s) /\ s.other # current
                /\ blocks[s.other].term = None /\ blocks[s.other].insts = <<>>
<1>1. PICK want, live, base : Lowered(want, live, base)
  BY DEF Followed, Lowers
<1>2. blocks \in Code
  BY <1>1, LoweredFacts DEF Followed
<1>3. /\ s \in ScopeRecords /\ Shape(blocks, s) /\ AwaitedBy(s) \subseteq DOMAIN blocks \ {current}
      /\ \A x \in AwaitedBy(s) : blocks[x].term = None => Blank(blocks[x])
  BY Innermost
<1>4. s.after \in Nat /\ s.other \in Nat
  BY <1>3 DEF ScopeRecords
<1>5. s.after \in DOMAIN blocks /\ blocks[s.after].term = None
  BY <1>3 DEF Shape
<1>6. s.after # 0
  BY <1>2, <1>5, CodeDomain
<1>7. s.after \in AwaitedBy(s) /\ (s.other # 0 => s.other \in AwaitedBy(s))
  BY <1>6 DEF AwaitedBy
<1>8. s.other # 0 /\ s.part # "loop" => s.other \in DOMAIN blocks /\ blocks[s.other].term = None
  BY <1>3, <1>5 DEF Shape
<1> QED
  BY <1>3, <1>4, <1>5, <1>6, <1>7, <1>8 DEF Blank

\* A block begins in an empty one.
LEMMA BegunQuiet ==
    ASSUME NEW code \in Code, NEW b \in DOMAIN code, code[b].insts = <<>>, NEW nest \in Seq(Places)
    PROVE  /\ Len(Begun(code, b, nest)) = Len(code)
           /\ \A c \in DOMAIN code \ {b} : Begun(code, b, nest)[c] = code[c]
           /\ \A c \in DOMAIN code : Begun(code, b, nest)[c].term = code[c].term
           /\ Quietly(Begun(code, b, nest)[b].insts) /\ EntryOf(code, b) \in Places
<1> DEFINE code2 == Begun(code, b, nest)
           place == EntryOf(code, b)
           inst == Mark("enter", place)
<1>1. IsBegun(code2, code, b, nest) /\ place \in Places
  BY BegunIs
<1> HIDE DEF code2
<1>2. /\ Len(code2) = Len(code) /\ \A c \in DOMAIN code \ {b} : code2[c] = code[c]
      /\ code2[b].insts = <<>> \o <<inst>> /\ code2[b].term = code[b].term
  BY <1>1 DEF IsBegun
<1> HIDE DEF place
<1>3. <<inst>> \in Seq(Insts) /\ Quietly(<<inst>>)
  <2>1. "enter" \in Quiet /\ place \in Nat \cup Places
    BY <1>1 DEF Quiet
  <2> QED
    BY <2>1, QuietOps
<1> HIDE DEF inst
<1>4. code2[b].insts = <<inst>>
  <2>1. \A x \in Seq(Insts) : <<>> \o x = x
    OBVIOUS
  <2> QED
    BY <1>2, <1>3, <2>1
<1>5. \A c \in DOMAIN code : code2[c].term = code[c].term
  BY <1>2
<1> QED
  BY <1>1, <1>2, <1>3, <1>4, <1>5 DEF code2, place

\* The else branch.
LEMMA ElseKeeps ==
    ASSUME NEW h, NEW T, NEW view, Followed(h, T, view), NEW s, s = Last(scopes), s.part = "then",
           s.other # 0, NEW view2, Looser(Len(scopes) - 1, view, view2), NEW frames, NEW waits,
           BeginBlock(FallInto(EndBlock, current, s.after), s.other, Scope("else", s.after, 0, 0),
                      Front(scopes), frames, waits),
           Here2(view) => Len(scopes) \in view2.before,
           Len(scopes) \in view.before => Len(scopes) \in view2.before,
           Len(scopes) \in view2.shut => Len(scopes) \in view.shut /\ (Open => ~Here2(view)),
           Len(scopes) \in view.before /\ Len(scopes) \notin view.cut => Len(scopes) + 1 \in view2.before
    PROVE  \E T2 : Kept(h, T2, view2)'
<1> DEFINE joined == FallInto(EndBlock, current, s.after)
           around == InScopes(Front(scopes))
           other == s.other
           after == s.after
           scope == Scope("else", after, 0, 0)
           s2 == ScopeAt(scope, EntryOf(joined, other))
           code2 == Begun(joined, other, around)
           put == {other, after}
           taken == (put \cap Doors(T)) \cup (IF Open /\ Here2(view) THEN {after} ELSE {})
<1>1. PICK want, live, base : Lowered(want, live, base)
  BY DEF Followed, Lowers
<1>2. Len(blocks) \in Nat /\ current \in DOMAIN blocks /\ Len(scopes) \in Nat /\ Len(scopes) >= 2
  BY <1>1, LoweredFacts, Innermost DEF Followed
<1>3. /\ Held(Doors(T), s, Len(scopes), view) /\ Shape(blocks, s)
      /\ Front(scopes) \in Seq(ScopeRecords) /\ Len(Front(scopes)) = Len(scopes) - 1
  BY Innermost
<1>4. /\ after \in DOMAIN blocks /\ after \in AwaitedBy(s) /\ after \in Nat /\ after # 0
      /\ after # current /\ blocks[after].term = None /\ blocks[after].insts = <<>>
      /\ other \in DOMAIN blocks /\ other \in AwaitedBy(s) /\ other # current
      /\ blocks[other].term = None /\ blocks[other].insts = <<>> /\ other # after /\ other # 0
  <2>1. other # after
    BY <1>3 DEF Shape
  <2> QED
    BY <2>1, ConstructFacts
<1>5. around \in Seq(Places)
  BY <1>3, InScopesType
<1>6. BeginBlock(joined, other, scope, Front(scopes), frames, waits)
  OBVIOUS
<1>7. PICK added : /\ EndedBy(joined, added)
                   /\ joined[current].term = IF Open THEN Jump(after) ELSE blocks[current].term
  BY <1>1, <1>4, JoinAdds DEF Followed
<1>8. /\ other \in Doors(T) => Len(scopes) \in view.before /\ Len(scopes) \notin view.cut
      /\ after \in Doors(T) => Len(scopes) \in view.before /\ Len(scopes) \notin view.shut
  BY <1>3, <1>4 DEF Held
<1> HIDE DEF joined, around, other, after
<1>9. /\ joined \in Code /\ Len(joined) = Len(blocks) /\ DOMAIN joined = DOMAIN blocks
      /\ \A b \in DOMAIN blocks \ {current} : joined[b] = blocks[b]
  BY <1>7 DEF EndedBy
<1>10. /\ scope \in ScopeRecords /\ scope.part = "else" /\ scope.after = after /\ scope.other = 0
       /\ AwaitedBy(scope) = {after}
  <2>1. "else" \in Parts /\ 0 \in Nat
    BY DEF Parts
  <2>2. scope = Scope("else", after, 0, 0)
    OBVIOUS
  <2> HIDE DEF scope
  <2>3. /\ scope \in ScopeRecords /\ scope.part = "else" /\ scope.after = after /\ scope.other = 0
        /\ AwaitedBy(scope) = {after, 0} \ {0}
    BY <1>4, <2>1, <2>2, ScopeIs
  <2> QED
    BY <1>4, <2>3
<1> HIDE DEF scope
<1>11. /\ current' = other /\ blocks' = code2 /\ scopes' = Append(Front(scopes), s2)
  <2> DEFINE outer == Front(scopes)
  <2>1. BeginBlock(joined, other, scope, outer, frames, waits)
    BY <1>6
  <2>2. other \in DOMAIN joined /\ around = InScopes(outer)
    BY <1>4, <1>9 DEF around
  <2> HIDE DEF outer
  <2>3. /\ current' = other /\ scopes' = Append(outer, ScopeAt(scope, EntryOf(joined, other)))
        /\ blocks' = Begun(joined, other, IF other = current THEN joined[other].nest ELSE InScopes(outer))
    BY <1>9, <2>1, <2>2, BeginIs
  <2> QED
    BY <1>4, <2>2, <2>3 DEF outer
<1>12. joined[other] = blocks[other] /\ joined[after] = blocks[after] /\ other \in DOMAIN joined
  BY <1>4, <1>9
<1>13. /\ Len(code2) = Len(joined)
       /\ \A c \in DOMAIN joined \ {other} : code2[c] = joined[c]
       /\ \A c \in DOMAIN joined : code2[c].term = joined[c].term
       /\ Quietly(code2[other].insts) /\ EntryOf(joined, other) \in Places
  <2>1. joined[other].insts = <<>>
    BY <1>4, <1>12
  <2> QED
    BY <1>5, <1>9, <1>12, <2>1, BegunQuiet
<1>14. /\ s2 \in ScopeRecords /\ s2.part = "else" /\ AwaitedBy(s2) = {after}
       /\ s2.after = after /\ s2.other = 0
  BY <1>10, <1>13, ScopeAtIs
<1> HIDE DEF code2, s2
<1>15. /\ blocks'[after].term = None /\ blocks'[after].insts = <<>> /\ blocks'[other].term = None
       /\ Quietly(blocks'[other].insts)
       /\ blocks'[current].term = joined[current].term
       /\ \A b \in DOMAIN blocks \ put : blocks'[b].insts = joined[b].insts /\ blocks'[b].term = joined[b].term
  BY <1>2, <1>4, <1>9, <1>11, <1>12, <1>13
<1>16. Goes(h, T, view, taken)
  <2>1. Open => Ways(h, blocks'[current].term) = {after}
    <3>1. Open => blocks'[current].term = Jump(after)
      BY <1>7, <1>15
    <3> QED
      BY <3>1, WaysIs
  <2>2. \A b \in taken : Ways(h, blocks'[b].term) = {}
    BY <1>15, WaysIs
  <2> QED
    BY <2>1, <2>2 DEF Goes
<1>17. Fresh(0) = {}
  BY <1>2 DEF Fresh
<1>18. Uses(h, T, view, s, added, put \cup Fresh(0), taken)
  <2>1. /\ put \subseteq AwaitedBy(s) /\ (\A b \in put : blocks[b].term = None)
        /\ \A b \in put \cup Fresh(0) : Quietly(blocks'[b].insts)
        /\ taken \subseteq put \cup Fresh(0) /\ put \cap Doors(T) \subseteq taken
    BY <1>4, <1>15, <1>17, QuietOps
  <2>2. Len(blocks') = Len(blocks) + 0 /\ 0 \in Nat
    BY <1>2, <1>9, <1>11, <1>13
  <2>3. ~Open => joined[current].term = blocks[current].term
    BY <1>7
  <2> HIDE DEF put, taken
  <2> QED
    BY <1>7, <1>15, <1>16, <2>1, <2>2, <2>3, UsesIs
<1>19. Held(Doors(T) \cup taken, s2, Len(scopes), view2)
  <2>1. after \in Doors(T) \cup taken => after \in Doors(T) \/ (Open /\ Here2(view))
    BY <1>4
  <2>2. after \in Doors(T) \cup taken => Len(scopes) \in view2.before /\ Len(scopes) \notin view2.shut
    BY <1>8, <2>1
  <2> QED
    BY <1>14, <2>2 DEF Held
<1>20. Arrives(view, view2, put \cup Fresh(0), taken)
  <2>1. other \in taken => Len(scopes) + 1 \in view2.before
    BY <1>4, <1>8
  <2>2. Len(scopes') = Len(scopes)
    <3> DEFINE outer == Front(scopes)
    <3>1. outer \in Seq(ScopeRecords) /\ Len(outer) = Len(scopes) - 1
      BY <1>3
    <3> HIDE DEF outer
    <3>2. Len(Append(outer, s2)) = Len(outer) + 1
      BY <1>14, <3>1
    <3> QED
      BY <1>2, <1>11, <3>1, <3>2 DEF outer
  <2> QED
    BY <1>11, <2>1, <2>2 DEF Arrives
<1>21. AwaitedBy(s2) \subseteq put \cup Fresh(0) /\ s2.part # "loop"
  BY <1>14
<1> HIDE DEF put, taken
<1> QED
  BY <1>11, <1>14, <1>18, <1>19, <1>20, <1>21, TurnsKept

\* The body of an `else (condition)`, behind the branch that already left it.
LEMMA ElseIfKeeps ==
    ASSUME NEW h, NEW T, NEW view, Followed(h, T, view), NEW s, s = Last(scopes), s.part = "then",
           s.left > 0, NEW view2, Looser(Len(scopes) - 1, view, view2), NEW frames, NEW waits,
           BeginElseIf(FallInto(EndBlock, current, s.after), s, Front(scopes), frames, waits),
           Here2(view) => Len(scopes) \in view2.before,
           Len(scopes) \in view.before => Len(scopes) \in view2.before,
           Len(scopes) \in view2.shut =>
             /\ Len(scopes) \in view.shut /\ (Open => ~Here2(view))
             /\ Len(scopes) \in view.cut \/ Len(scopes) \notin view.before
    PROVE  \E T2 : Kept(h, T2, view2)'
<1> DEFINE joined == FallInto(EndBlock, current, s.after)
           around == InScopes(Front(scopes))
           other == s.other
           after == s.after
           term == Branch("opaque", after, after)
           mid == Seal(joined, other, term)
           s2 == Scope("elif", after, 0, 0)
           code2 == Nested(mid, other, around)
           put == {other, after}
           taken == (put \cap Doors(T))
                      \cup (IF (Open /\ Here2(view)) \/ other \in Doors(T) THEN {after} ELSE {})
<1>1. PICK want, live, base : Lowered(want, live, base)
  BY DEF Followed, Lowers
<1>2. Len(blocks) \in Nat /\ current \in DOMAIN blocks /\ Len(scopes) \in Nat /\ Len(scopes) >= 2
  BY <1>1, LoweredFacts, Innermost DEF Followed
<1>3. /\ Held(Doors(T), s, Len(scopes), view) /\ Shape(blocks, s)
      /\ Front(scopes) \in Seq(ScopeRecords) /\ Len(Front(scopes)) = Len(scopes) - 1
  BY Innermost
<1>4. /\ after \in DOMAIN blocks /\ after \in AwaitedBy(s) /\ after \in Nat /\ after # 0
      /\ after # current /\ blocks[after].term = None /\ blocks[after].insts = <<>>
      /\ other \in DOMAIN blocks /\ other \in AwaitedBy(s) /\ other # current
      /\ blocks[other].term = None /\ blocks[other].insts = <<>> /\ other # after /\ other # 0
  <2>1. other # after /\ other # 0
    BY <1>3 DEF Shape
  <2> QED
    BY <2>1, ConstructFacts
<1>5. around \in Seq(Places)
  BY <1>3, InScopesType
<1>6. current' = other /\ blocks' = code2 /\ scopes' = Append(Front(scopes), s2)
  BY DEF BeginElseIf, Nested
<1>7. PICK added : /\ EndedBy(joined, added)
                   /\ joined[current].term = IF Open THEN Jump(after) ELSE blocks[current].term
  BY <1>1, <1>4, JoinAdds DEF Followed
<1>8. /\ other \in Doors(T) => Len(scopes) \in view.before /\ Len(scopes) \notin view.cut
      /\ after \in Doors(T) => Len(scopes) \in view.before /\ Len(scopes) \notin view.shut
  BY <1>3, <1>4 DEF Held
<1> HIDE DEF joined, around, other, after
<1>9. /\ joined \in Code /\ Len(joined) = Len(blocks) /\ DOMAIN joined = DOMAIN blocks
      /\ \A b \in DOMAIN blocks \ {current} : joined[b] = blocks[b]
  BY <1>7 DEF EndedBy
<1>10. /\ s2 \in ScopeRecords /\ s2.part = "elif" /\ s2.after = after /\ s2.other = 0
       /\ AwaitedBy(s2) = {after}
  <2>1. "elif" \in Parts /\ 0 \in Nat
    BY DEF Parts
  <2>2. s2 = Scope("elif", after, 0, 0)
    OBVIOUS
  <2> HIDE DEF s2
  <2>3. /\ s2 \in ScopeRecords /\ s2.part = "elif" /\ s2.after = after /\ s2.other = 0
        /\ AwaitedBy(s2) = {after, 0} \ {0}
    BY <1>4, <2>1, <2>2, ScopeIs
  <2> QED
    BY <1>4, <2>3
<1>11. term \in Terms /\ term # None
  BY <1>4, TermTargets DEF Conds
<1>12. joined[other] = blocks[other] /\ joined[after] = blocks[after] /\ other \in DOMAIN joined
  BY <1>4, <1>9
<1>13. \A x \in Ways(h, term) : x = after
  BY BranchWays
<1> HIDE DEF s2, term
<1>14. /\ mid \in Code /\ Len(mid) = Len(joined) /\ DOMAIN mid = DOMAIN joined
       /\ \A c \in DOMAIN joined \ {other} : mid[c] = joined[c]
       /\ mid[other].insts = joined[other].insts /\ mid[other].term = term
  <2>1. mid \in Code /\ Len(mid) = Len(joined)
    BY <1>9, <1>11, <1>12, SealIs
  <2>2. DOMAIN mid = DOMAIN joined
    BY <1>9, <2>1, CodeDomain
  <2> QED
    BY <1>9, <1>11, <1>12, <2>1, <2>2, SealIs
<1> HIDE DEF mid
<1>15. /\ Len(code2) = Len(mid) /\ \A c \in DOMAIN mid \ {other} : code2[c] = mid[c]
       /\ code2[other].insts = mid[other].insts /\ code2[other].term = mid[other].term
  <2>1. other \in DOMAIN mid
    BY <1>12, <1>14
  <2> QED
    BY <1>5, <1>14, <2>1, NestIs
<1> HIDE DEF code2
<1>16. /\ blocks'[after].term = None /\ blocks'[after].insts = <<>> /\ blocks'[other].term = term
       /\ blocks'[other].insts = <<>> /\ blocks'[current].term = joined[current].term
       /\ \A b \in DOMAIN blocks \ put : blocks'[b].insts = joined[b].insts /\ blocks'[b].term = joined[b].term
  BY <1>2, <1>4, <1>6, <1>9, <1>12, <1>14, <1>15
<1>17. Goes(h, T, view, taken)
  <2>1. Open => Ways(h, blocks'[current].term) = {after}
    <3>1. Open => blocks'[current].term = Jump(after)
      BY <1>7, <1>16
    <3> QED
      BY <3>1, WaysIs
  <2>2. Ways(h, blocks'[after].term) = {}
    BY <1>16, WaysIs
  <2>3. \A b \in taken : b = after \/ (b = other /\ after \in taken)
    BY <1>4
  <2>4. Open /\ Here2(view) => after \in taken
    OBVIOUS
  <2> HIDE DEF taken
  <2> QED
    BY <1>13, <1>16, <2>1, <2>2, <2>3, <2>4 DEF Goes
<1>18. Fresh(0) = {}
  BY <1>2 DEF Fresh
<1>19. Uses(h, T, view, s, added, put \cup Fresh(0), taken)
  <2>1. /\ put \subseteq AwaitedBy(s) /\ (\A b \in put : blocks[b].term = None)
        /\ \A b \in put \cup Fresh(0) : Quietly(blocks'[b].insts)
        /\ taken \subseteq put \cup Fresh(0) /\ put \cap Doors(T) \subseteq taken
    BY <1>4, <1>16, <1>18, QuietOps
  <2>2. Len(blocks') = Len(blocks) + 0 /\ 0 \in Nat
    BY <1>2, <1>6, <1>9, <1>14, <1>15
  <2>3. ~Open => joined[current].term = blocks[current].term
    BY <1>7
  <2> HIDE DEF put, taken
  <2> QED
    BY <1>7, <1>16, <1>17, <2>1, <2>2, <2>3, UsesIs
<1>20. Held(Doors(T) \cup taken, s2, Len(scopes), view2)
  <2>1. after \in Doors(T) \cup taken => after \in Doors(T) \/ other \in Doors(T) \/ (Open /\ Here2(view))
    BY <1>4
  <2>2. after \in Doors(T) \cup taken => Len(scopes) \in view2.before /\ Len(scopes) \notin view2.shut
    BY <1>8, <2>1
  <2> QED
    BY <1>10, <2>2 DEF Held
<1>21. Arrives(view, view2, put \cup Fresh(0), taken)
  BY <1>6, <1>11, <1>16 DEF Arrives
<1>22. AwaitedBy(s2) \subseteq put \cup Fresh(0) /\ s2.part # "loop"
  BY <1>10
<1> HIDE DEF put, taken
<1> QED
  BY <1>6, <1>10, <1>19, <1>20, <1>21, <1>22, TurnsKept

\* Where the branch on a case leads.
LEMMA CaseWays ==
    ASSUME NEW old \in Code, NEW merge, NEW left, NEW has_default \in BOOLEAN, NEW h,
           NEW z \in Ways(h, CaseTerm(old, merge, left, has_default))
    PROVE  z = Len(old) + 1 \/ (z = NextCase(old, merge, left) /\ ~(left = 1 /\ has_default))
<1> DEFINE term == CaseTerm(old, merge, left, has_default)
           body == Len(old) + 1
           next == NextCase(old, merge, left)
<1>0. z \in Ways(h, term)
  OBVIOUS
<1>1. CASE left = 1 /\ has_default
  <2>1. term = Jump(body)
    BY <1>1 DEF CaseTerm
  <2> HIDE DEF term, body
  <2>2. Ways(h, term) = {body}
    BY <2>1, WaysIs
  <2> QED
    BY <1>0, <2>2 DEF body
<1>2. CASE ~(left = 1 /\ has_default)
  <2>1. term = Branch("opaque", body, next)
    BY <1>2 DEF CaseTerm
  <2> HIDE DEF term, body, next
  <2>2. z \in {body, next}
    BY <1>0, <2>1, BranchWays
  <2> QED
    BY <1>2, <2>2 DEF body, next
<1> QED
  BY <1>1, <1>2

\* The next case.
LEMMA CaseKeeps ==
    ASSUME NEW h, NEW T, NEW view, Followed(h, T, view), NEW s, s = Last(scopes),
           s.part \in {"case", "open"}, s.left > 0,
           NEW view2, Looser(Len(scopes) - 1, view, view2), NEW frames, NEW waits,
           BeginCase(FallInto(EndBlock, current, s.after), s.other, s.after, s.left, s.part = "case",
                     Front(scopes), frames, waits),
           Here2(view) => Len(scopes) \in view2.before,
           Len(scopes) \in view.before => Len(scopes) \in view2.before /\ Len(scopes) + 1 \in view2.before,
           Len(scopes) \in view2.shut =>
             /\ Len(scopes) \in view.shut /\ (Open => ~Here2(view))
             /\ s.left = 1 => s.part = "case",
           Len(scopes) \notin view2.cut
    PROVE  \E T2 : Kept(h, T2, view2)'
<1> DEFINE joined == FallInto(EndBlock, current, s.after)
           around == InScopes(Front(scopes))
           other == s.other
           after == s.after
           rest == s.left
           flag == s.part = "case"
           code == Cased(joined, other, after, rest, flag, around)
           opens == CaseScope(joined, after, rest, flag)
           to == NextCase(joined, after, rest)
           term == CaseTerm(joined, after, rest, flag)
           N == Len(blocks)
           n == IF rest = 1 THEN 1 ELSE 2
           body == N + 1
           s2 == ScopeAt(opens, EntryOf(code, body))
           code2 == Begun(code, body, around)
           put == {other, after}
           taken == (put \cap Doors(T)) \cup (IF Open /\ Here2(view) THEN {after} ELSE {})
                      \cup (IF other \in Doors(T) THEN Ways(h, term) ELSE {})
<1>0. s.part # "body"
  OBVIOUS
<1>1. PICK want, live, base : Lowered(want, live, base)
  BY DEF Followed, Lowers
<1>2. /\ N \in Nat /\ current \in DOMAIN blocks /\ Len(scopes) \in Nat /\ Len(scopes) >= 2
      /\ DOMAIN blocks = 1..N
  BY <1>1, LoweredFacts, Innermost DEF Followed
<1>3. /\ Held(Doors(T), s, Len(scopes), view) /\ Shape(blocks, s) /\ s \in ScopeRecords
      /\ Front(scopes) \in Seq(ScopeRecords) /\ Len(Front(scopes)) = Len(scopes) - 1
  BY Innermost
<1>4. /\ after \in DOMAIN blocks /\ after \in AwaitedBy(s) /\ after \in Nat /\ after # 0
      /\ after # current /\ blocks[after].term = None /\ blocks[after].insts = <<>>
      /\ other \in DOMAIN blocks /\ other \in AwaitedBy(s) /\ other # current
      /\ blocks[other].term = None /\ blocks[other].insts = <<>> /\ other # after /\ other # 0
  <2>1. other # after /\ other # 0
    BY <1>3 DEF Shape
  <2> QED
    BY <2>1, ConstructFacts
<1>5. around \in Seq(Places) /\ rest \in Nat \ {0} /\ flag \in BOOLEAN
  <2>1. rest \in Nat \ {0}
    BY <1>3 DEF ScopeRecords
  <2> QED
    BY <1>3, <2>1, InScopesType
<1>6. /\ BeginCase(joined, other, after, rest, flag, Front(scopes), frames, waits)
      /\ around = InScopes(Front(scopes))
  OBVIOUS
<1>7. PICK added : /\ EndedBy(joined, added)
                   /\ joined[current].term = IF Open THEN Jump(after) ELSE blocks[current].term
  BY <1>1, <1>4, JoinAdds DEF Followed
<1>8. /\ other \in Doors(T) => Len(scopes) \in view.before
      /\ after \in Doors(T) => Len(scopes) \in view.before /\ Len(scopes) \notin view.shut
  BY <1>3, <1>4 DEF Held
<1>9. Len(scopes) \in view2.shut =>
        Len(scopes) \in view.shut /\ (Open => ~Here2(view)) /\ (rest = 1 => flag)
  OBVIOUS
<1> HIDE DEF joined, around, other, after, rest, flag, N
<1>10. /\ joined \in Code /\ Len(joined) = N /\ DOMAIN joined = DOMAIN blocks
       /\ \A b \in DOMAIN blocks \ {current} : joined[b] = blocks[b]
  BY <1>7 DEF EndedBy, N
<1>11. /\ joined[other] = blocks[other] /\ joined[after] = blocks[after]
       /\ other \in DOMAIN joined /\ after \in DOMAIN joined
  BY <1>4, <1>10
<1>12. BeginBlock(code, body, opens, Front(scopes), frames, waits)
  <2> DEFINE outer == Front(scopes)
  <2>1. around = (IF other = current THEN joined[other].nest ELSE InScopes(outer))
    BY <1>4, <1>6
  <2>2. BeginCase(joined, other, after, rest, flag, outer, frames, waits)
    BY <1>6
  <2> HIDE DEF outer
  <2>3. BeginBlock(Cased(joined, other, after, rest, flag, around), Len(joined) + 1,
                   CaseScope(joined, after, rest, flag), outer, frames, waits)
    BY <1>5, <1>10, <1>11, <2>1, <2>2, BeginsCase
  <2> QED
    BY <1>10, <2>3 DEF outer
<1>13. /\ opens \in ScopeRecords /\ opens.part \in {"case", "open"} /\ opens.after = after
       /\ opens.other = to /\ AwaitedBy(opens) = {after, to} /\ to # body
  <2>1. opens = CaseScope(joined, after, rest, flag) /\ to = NextCase(joined, after, rest)
    OBVIOUS
  <2> HIDE DEF opens, to
  <2>2. joined \in Code /\ after \in DOMAIN joined /\ rest \in Nat \ {0} /\ flag \in BOOLEAN
    BY <1>5, <1>10, <1>11
  <2>3. /\ opens \in ScopeRecords /\ opens.part \in {"case", "open"} /\ opens.after = after
        /\ opens.other = to /\ AwaitedBy(opens) = {after, to} /\ to # Len(joined) + 1
    BY <2>1, <2>2, CaseScopeIs
  <2> QED
    BY <1>10, <2>3
<1>14. IsCased(code, joined, other, after, rest, around) /\ code[other].term = term
  BY <1>5, <1>10, <1>11, CasedIs, CaseTermIs
<1>15. \A z \in Ways(h, term) : z = body \/ (z = to /\ ~(rest = 1 /\ flag))
  BY <1>5, <1>10, CaseWays
<1>16. (rest = 1 /\ to = after /\ n = 1) \/ (rest # 1 /\ to = N + 2 /\ n = 2)
  BY <1>10 DEF NextCase
<1>17. Fresh(n) = (IF rest = 1 THEN {body} ELSE {body, N + 2}) /\ n \in Nat
  <2>1. Fresh(n) = (N + 1)..(N + n)
    BY DEF Fresh, N
  <2>2. (N + 1)..(N + 1) = {N + 1} /\ (N + 1)..(N + 2) = {N + 1, N + 2}
    BY <1>2
  <2> HIDE DEF n
  <2>3. CASE rest = 1
    BY <1>16, <2>1, <2>2, <2>3
  <2>4. CASE rest # 1
    BY <1>16, <2>1, <2>2, <2>4
  <2> QED
    BY <2>3, <2>4
<1>18. /\ body \notin DOMAIN blocks /\ body # current /\ N + 2 \notin DOMAIN blocks /\ N + 2 # body
       /\ body # after /\ body # other /\ N + 2 # after /\ N + 2 # other
  BY <1>2, <1>4
<1> HIDE DEF code, opens, to, term, n, body
<1>19. /\ code \in Code /\ Len(code) = N + n /\ body \in DOMAIN code
       /\ \A b \in DOMAIN blocks : b \in DOMAIN code
       /\ \A b \in DOMAIN blocks \ {other} : code[b] = joined[b]
       /\ code[other].insts = <<>> /\ code[other].term = term
       /\ \A b \in Fresh(n) : b \in DOMAIN code /\ code[b].insts = <<>> /\ code[b].term = None
  <2>1. /\ code \in Code /\ Len(code) = (IF rest = 1 THEN N + 1 ELSE N + 2)
        /\ DOMAIN code = 1..Len(code)
        /\ \A b \in DOMAIN joined \ {other} : code[b] = joined[b]
        /\ code[other].insts = joined[other].insts
        /\ \A b \in (N + 1)..Len(code) : code[b] = newBlock
    BY <1>10, <1>14 DEF IsCased
  <2>2. Len(code) = N + n /\ DOMAIN code = 1..(N + n)
    BY <1>16, <2>1
  <2>3. n \in {1, 2} /\ body = N + 1
    BY <1>16 DEF body
  <2>4. body \in DOMAIN code /\ \A b \in DOMAIN blocks : b \in DOMAIN code
    BY <1>2, <2>2, <2>3
  <2>5. Fresh(n) = (N + 1)..Len(code)
    BY <2>2 DEF Fresh, N
  <2>6. \A b \in Fresh(n) : b \in DOMAIN code /\ code[b] = newBlock
    BY <1>2, <2>1, <2>5
  <2> QED
    BY <1>4, <1>10, <1>11, <1>14, <2>1, <2>2, <2>4, <2>6, NewBlock
<1>20. body \in Fresh(n) /\ code[body].insts = <<>> /\ code[body].term = None
  <2>1. body \in Fresh(n)
    BY <1>17
  <2> QED
    BY <1>19, <2>1
<1>21. /\ current' = body /\ blocks' = code2 /\ scopes' = Append(Front(scopes), s2)
  <2> DEFINE outer == Front(scopes)
  <2>1. BeginBlock(code, body, opens, outer, frames, waits) /\ around = InScopes(outer)
    BY <1>6, <1>12
  <2> HIDE DEF outer
  <2>2. /\ current' = body /\ scopes' = Append(outer, ScopeAt(opens, EntryOf(code, body)))
        /\ blocks' = Begun(code, body, IF body = current THEN code[body].nest ELSE InScopes(outer))
    BY <1>19, <2>1, BeginIs
  <2> QED
    BY <1>18, <2>1, <2>2 DEF outer
<1>22. /\ Len(code2) = Len(code)
       /\ \A c \in DOMAIN code \ {body} : code2[c] = code[c]
       /\ \A c \in DOMAIN code : code2[c].term = code[c].term
       /\ Quietly(code2[body].insts) /\ EntryOf(code, body) \in Places
  BY <1>5, <1>19, <1>20, BegunQuiet
<1>23. /\ s2 \in ScopeRecords /\ s2.part = opens.part /\ AwaitedBy(s2) = {after, to}
       /\ s2.after = after /\ s2.other = to
  BY <1>13, <1>22, ScopeAtIs
<1> HIDE DEF code2, s2
<1>24. /\ blocks'[after].term = None /\ blocks'[after].insts = <<>> /\ blocks'[other].term = term
       /\ blocks'[other].insts = <<>> /\ blocks'[current].term = joined[current].term
       /\ \A b \in DOMAIN blocks \ put : blocks'[b].insts = joined[b].insts /\ blocks'[b].term = joined[b].term
       /\ \A b \in Fresh(n) : Quietly(blocks'[b].insts) /\ blocks'[b].term = None
  <2>1. \A b \in DOMAIN blocks : b \in DOMAIN code /\ b # body
    BY <1>18, <1>19
  <2>2. \A b \in DOMAIN blocks : blocks'[b] = code[b]
    BY <1>21, <1>22, <2>1
  <2>3. \A b \in Fresh(n) : Quietly(blocks'[b].insts) /\ blocks'[b].term = None
    BY <1>19, <1>21, <1>22, QuietOps
  <2> QED
    BY <1>2, <1>4, <1>11, <1>19, <2>2, <2>3
<1>25. taken \subseteq put \cup Fresh(n) /\ put \cap Doors(T) \subseteq taken
  <2>1. body \in Fresh(n) /\ to \in put \cup Fresh(n)
    BY <1>16, <1>17
  <2> QED
    BY <1>15, <2>1
<1>26. Goes(h, T, view, taken)
  <2>1. Open => Ways(h, blocks'[current].term) = {after}
    <3>1. Open => blocks'[current].term = Jump(after)
      BY <1>7, <1>24
    <3> QED
      BY <3>1, WaysIs
  <2>2. Open /\ Here2(view) => after \in taken
    OBVIOUS
  <2>3. other \in taken => other \in Doors(T)
    <3>1. other \notin Ways(h, term)
      BY <1>4, <1>15, <1>16, <1>18
    <3> QED
      BY <1>4, <3>1
  <2>4. other \in taken => Ways(h, term) \subseteq taken
    BY <2>3
  <2>5. Ways(h, None) = {}
    BY WaysIs
  <2>6. \A b \in taken : b \in {other, after} \/ b \in Fresh(n)
    BY <1>25
  <2> HIDE DEF taken
  <2> QED
    BY <1>24, <2>1, <2>2, <2>4, <2>5, <2>6 DEF Goes
<1>27. Uses(h, T, view, s, added, put \cup Fresh(n), taken)
  <2>1. /\ put \subseteq AwaitedBy(s) /\ (\A b \in put : blocks[b].term = None)
        /\ \A b \in put \cup Fresh(n) : Quietly(blocks'[b].insts)
    BY <1>4, <1>24, QuietOps
  <2>2. Len(blocks') = Len(blocks) + n
    BY <1>19, <1>21, <1>22 DEF N
  <2>3. ~Open => joined[current].term = blocks[current].term
    BY <1>7
  <2> HIDE DEF put, taken
  <2>4. n \in Nat
    BY <1>17
  <2> QED
    BY <1>0, <1>7, <1>24, <1>25, <1>26, <2>1, <2>2, <2>3, <2>4, UsesIs
<1>28. Held(Doors(T) \cup taken, s2, Len(scopes), view2)
  <2>1. /\ after \in Doors(T) \cup taken =>
             \/ after \in Doors(T) \/ (Open /\ Here2(view))
             \/ other \in Doors(T) /\ rest = 1 /\ ~flag
        /\ to # after /\ to \in Doors(T) \cup taken => other \in Doors(T)
    <3>1. after \in Ways(h, term) => rest = 1 /\ ~flag
      BY <1>5, <1>15, <1>16, <1>18
    <3>2. to # after => to \notin Doors(T)
      <4>1. to # after => to \notin DOMAIN blocks
        BY <1>16, <1>18
      <4>2. Flowing(h, T, blocks) /\ blocks \in Code
        BY <1>1, LoweredFacts DEF Followed, Kept
      <4>3. \A b : b \in Doors(T) => b \in DOMAIN blocks
        BY <4>2, PointIs DEF Doors, Flowing
      <4> QED
        BY <4>1, <4>3
    <3>3. to # after => to # other
      BY <1>16, <1>18
    <3> QED
      BY <1>4, <3>1, <3>2, <3>3
  <2> HIDE DEF taken
  <2>2. after \in Doors(T) \cup taken => Len(scopes) \in view2.before /\ Len(scopes) \notin view2.shut
    BY <1>8, <1>9, <2>1
  <2>3. to # after /\ to \in Doors(T) \cup taken => Len(scopes) \in view2.before
    BY <1>8, <2>1
  <2> QED
    BY <1>13, <1>23, <2>2, <2>3 DEF Held
<1>29. Arrives(view, view2, put \cup Fresh(n), taken)
  <2>1. body \in taken => other \in Doors(T)
    BY <1>18
  <2>2. body \in taken => Len(scopes) + 1 \in view2.before
    BY <1>8, <2>1
  <2>3. Len(scopes') = Len(scopes)
    <3> DEFINE outer == Front(scopes)
    <3>1. outer \in Seq(ScopeRecords) /\ Len(outer) = Len(scopes) - 1
      BY <1>3
    <3> HIDE DEF outer
    <3>2. Len(Append(outer, s2)) = Len(outer) + 1
      BY <1>23, <3>1
    <3> QED
      BY <1>2, <1>21, <3>1, <3>2 DEF outer
  <2> QED
    BY <1>20, <1>21, <2>2, <2>3 DEF Arrives
<1>30. AwaitedBy(s2) \subseteq put \cup Fresh(n) /\ s2.part # "loop"
  <2>1. to \in put \cup Fresh(n)
    BY <1>16, <1>17
  <2> QED
    BY <1>13, <1>23, <2>1
<1> HIDE DEF put, taken
<1> QED
  BY <1>0, <1>21, <1>23, <1>27, <1>28, <1>29, <1>30, TurnsKept

(***************************************************************************)
(* The closing brace, whatever it closes.                                  *)
(***************************************************************************)
\* The construct is over, or has one more branch.
Concludes(s) == s.part = "block" \/ (s.left = 0 /\ (s.part = "then" => s.other = 0))

Concluding(view, view2, s) ==
  /\ s.part = "loop" /\ Here2(view) => Len(scopes) \in view.before
  /\ s.part # "loop" /\ Here2(view) => Len(scopes) \in view2.before
  /\ s.part # "block" =>
       (Len(scopes) \in view.before /\ Len(scopes) \notin view.shut => Len(scopes) \in view2.before)

Branching(view, view2, s) ==
  /\ Here2(view) \/ Len(scopes) \in view.before => Len(scopes) \in view2.before
  /\ Len(scopes) \in view2.shut => Len(scopes) \in view.shut /\ (Open => ~Here2(view))
  /\ s.part = "then" /\ s.left = 0 =>
       (Len(scopes) \in view.before /\ Len(scopes) \notin view.cut => Len(scopes) + 1 \in view2.before)
  /\ s.part = "then" /\ s.left > 0 /\ Len(scopes) \in view2.shut =>
       Len(scopes) \in view.cut \/ Len(scopes) \notin view.before
  /\ s.part # "then" =>
       /\ Len(scopes) \in view.before => Len(scopes) + 1 \in view2.before
       /\ Len(scopes) \in view2.shut /\ s.left = 1 => s.part = "case"
       /\ Len(scopes) \notin view2.cut

LEMMA CloseKeeps ==
    ASSUME NEW h, NEW T, NEW view, Followed(h, T, view), NEW s, s = Last(scopes), CloseBlock,
           NEW view2, Looser(Len(scopes) - 1, view, view2),
           Concludes(s) => Concluding(view, view2, s), ~Concludes(s) => Branching(view, view2, s)
    PROVE  \E T2 : Kept(h, T2, view2)'
<1> DEFINE n == Len(scopes)
           outer == Front(scopes)
           frames == SubSeq(cleanups, 1, Len(cleanups) - 1 - OwnFrame(s.part))
           waits == Front(pending)
           code == FallInto(EndBlock, current, IF s.part = "loop" THEN s.other ELSE s.after)
<1>1. /\ s.part # "body"
      /\ \/ /\ s.part = "block"
            /\ blocks' = EndBlock /\ current' = current /\ scopes' = outer
         \/ /\ s.part = "then" /\ s.other # 0 /\ s.left = 0
            /\ BeginBlock(code, s.other, Scope("else", s.after, 0, 0), outer, frames, waits)
         \/ /\ s.part = "then" /\ s.left > 0
            /\ BeginElseIf(code, s, outer, frames, waits)
         \/ /\ s.part \in {"case", "open"} /\ s.left > 0
            /\ BeginCase(code, s.other, s.after, s.left, s.part = "case", outer, frames, waits)
         \/ /\ s.part # "block" /\ s.left = 0 /\ (s.part = "then" => s.other = 0)
            /\ SetCurrent(code, s.after, outer) /\ scopes' = outer
  BY DEF CloseBlock
<1>2. s.left \in Nat
  <2>1. s \in ScopeRecords
    BY <1>1, Innermost
  <2> QED
    BY <2>1 DEF ScopeRecords
<1>3. s.part # "loop" => code = FallInto(EndBlock, current, s.after)
  OBVIOUS
<1>4. code = FallInto(EndBlock, current, IF s.part = "loop" THEN s.other ELSE s.after)
  OBVIOUS
<1> HIDE DEF code, frames, waits
<1>5. CASE s.part = "block" /\ blocks' = EndBlock /\ current' = current /\ scopes' = outer
  <2>1. Here2(view) => n \in view2.before
    BY <1>5 DEF Concludes, Concluding
  <2> QED
    BY <1>5, <2>1, CloseBlockKeeps
<1>6. CASE /\ s.part = "then" /\ s.other # 0 /\ s.left = 0
           /\ BeginBlock(code, s.other, Scope("else", s.after, 0, 0), outer, frames, waits)
  <2>1. /\ Here2(view) => n \in view2.before
        /\ n \in view.before => n \in view2.before
        /\ n \in view2.shut => n \in view.shut /\ (Open => ~Here2(view))
        /\ n \in view.before /\ n \notin view.cut => n + 1 \in view2.before
    BY <1>6 DEF Concludes, Branching
  <2>2. BeginBlock(FallInto(EndBlock, current, s.after), s.other, Scope("else", s.after, 0, 0),
                   outer, frames, waits)
    BY <1>3, <1>6
  <2> QED
    BY <1>6, <2>1, <2>2, ElseKeeps
<1>7. CASE s.part = "then" /\ s.left > 0 /\ BeginElseIf(code, s, outer, frames, waits)
  <2>1. /\ Here2(view) => n \in view2.before
        /\ n \in view.before => n \in view2.before
        /\ n \in view2.shut => /\ n \in view.shut /\ (Open => ~Here2(view))
                               /\ n \in view.cut \/ n \notin view.before
    BY <1>2, <1>7 DEF Concludes, Branching
  <2>2. BeginElseIf(FallInto(EndBlock, current, s.after), s, outer, frames, waits)
    BY <1>3, <1>7
  <2> QED
    BY <1>7, <2>1, <2>2, ElseIfKeeps
<1>8. CASE /\ s.part \in {"case", "open"} /\ s.left > 0
           /\ BeginCase(code, s.other, s.after, s.left, s.part = "case", outer, frames, waits)
  <2>1. /\ Here2(view) => n \in view2.before
        /\ n \in view.before => n \in view2.before /\ n + 1 \in view2.before
        /\ n \in view2.shut => /\ n \in view.shut /\ (Open => ~Here2(view))
                               /\ s.left = 1 => s.part = "case"
        /\ n \notin view2.cut
    BY <1>2, <1>8 DEF Concludes, Branching
  <2>2. BeginCase(FallInto(EndBlock, current, s.after), s.other, s.after, s.left, s.part = "case",
                  outer, frames, waits)
    BY <1>3, <1>8
  <2> QED
    BY <1>8, <2>1, <2>2, CaseKeeps
<1>9. CASE /\ s.part # "block" /\ s.left = 0 /\ (s.part = "then" => s.other = 0)
           /\ SetCurrent(code, s.after, outer) /\ scopes' = outer
  <2>1. /\ s.part = "loop" /\ Open /\ Here2(view) => n \in view.before
        /\ s.part # "loop" /\ Open /\ Here2(view) => n \in view2.before
        /\ n \in view.before /\ n \notin view.shut => n \in view2.before
    BY <1>9 DEF Concludes, Concluding
  <2>2. SetCurrent(FallInto(EndBlock, current, IF s.part = "loop" THEN s.other ELSE s.after),
                   s.after, outer)
    BY <1>4, <1>9
  <2>3. s.part \notin {"body", "block"}
    BY <1>1, <1>9
  <2> QED
    BY <1>9, <2>1, <2>2, <2>3, EndKeeps
<1> QED
  BY <1>1, <1>5, <1>6, <1>7, <1>8, <1>9

(***************************************************************************)
(* The first block, the end of the function, and the execution.            *)
(***************************************************************************)
LEMMA InitKeeps ==
    ASSUME NEW h, Hazard(h), InitLowering, NEW view, h.first => 2 \in view.before
    PROVE  \E T : Kept(h, T, view)
<1> DEFINE e == <<1, 1>>
           inst == Mark("enter", e)
           T == IF h.first THEN {<<1, 1>>, <<1, 2>>} ELSE {}
<1>1. InitLowering /\ e \in Places
  BY DEF Places
<1>2. PICK want, live, base : Lowered(want, live, base)
  BY InitLowers DEF Lowers
<1>3. scopes # <<>>
  BY InitLowers
<1>4. blocks \in Code /\ inst \in Insts /\ Quietly(<<inst>>) /\ <<inst>> \in Seq(Insts)
  <2>1. "enter" \in Quiet /\ "enter" \in Ops /\ e \in Nat \cup Places
    BY <1>1 DEF Quiet, Ops
  <2> HIDE DEF e
  <2> QED
    BY <1>2, <1>3, <2>1, LoweredFacts, QuietOps, MarkIs
<1>5. /\ current = 1 /\ DOMAIN blocks = {1} /\ Len(scopes) = 1
      /\ blocks[1].insts = <<inst>> /\ blocks[1].term = None
  <2> DEFINE blk == [newBlock EXCEPT !.insts = <<inst>>]
             s == [Scope("body", 0, 0, 0) EXCEPT !.at = e]
  <2>1. current = 1 /\ blocks = <<blk>> /\ scopes = <<s>>
    BY DEF InitLowering
  <2>2. blk.insts = <<inst>> /\ blk.term = None
    BY DEF newBlock
  <2> HIDE DEF blk, s
  <2>3. DOMAIN <<blk>> = {1} /\ <<blk>>[1] = blk /\ Len(<<s>>) = 1
    OBVIOUS
  <2> QED
    BY <2>1, <2>2, <2>3
<1> HIDE DEF inst
<1>6. Len(<<inst>>) = 1
  OBVIOUS
<1>7. \A b, i : <<b, i>> \in T <=> h.first /\ b = 1 /\ i \in {1, 2}
  OBVIOUS
<1>8. T \subseteq Points(blocks)
  <2>1. \A b, i : <<b, i>> \in Points(blocks) <=> b \in DOMAIN blocks /\ i \in 1..(Len(blocks[b].insts) + 1)
    BY <1>4, PointIs
  <2>2. \A i \in {1, 2} : i \in 1..(1 + 1)
    OBVIOUS
  <2>3. <<1, 1>> \in Points(blocks) /\ <<1, 2>> \in Points(blocks)
    BY <1>5, <1>6, <2>1, <2>2
  <2> QED
    BY <2>3
<1>9. Flowing(h, T, blocks)
  <2>1. \A i \in 1..(Len(<<inst>>) + 1) : <<1, i>> \in T <=> h.first
    BY <1>6, <1>7
  <2> HIDE DEF T
  <2>2. h.first \in BOOLEAN
    BY DEF Hazard, Hazards
  <2>3. Carried(h, T, 1, blocks[1].insts)
    BY <1>4, <1>5, <2>1, <2>2, CarriedWhole
  <2>4. Ways(h, None) = {}
    BY WaysIs
  <2> QED
    BY <1>5, <1>8, <2>3, <2>4 DEF Flowing, Passed
<1>10. Tip(blocks, current) \in T => h.first
  BY <1>7
<1>11. \A i \in 2..Len(scopes) : FALSE
  BY <1>5
<1>12. h.first => <<1, 1>> \in T
  BY <1>7
<1> HIDE DEF T
<1> QED
  BY <1>5, <1>9, <1>10, <1>11, <1>12 DEF Kept

LEMMA FunctionKeeps ==
    ASSUME Lowers, scopes # <<>>, CloseFunction, NEW h, Hazard(h), NEW T, NEW view, Kept(h, T, view),
           Here2(view) => "fall" \notin h.bad
    PROVE  \E T2 : Flowing(h, T2, blocks') /\ (h.first => <<1, 1>> \in T2)
<1>1. Flowing(h, T, blocks) /\ (h.first => <<1, 1>> \in T)
  BY DEF Kept
<1>2. CASE ~Open
  BY <1>1, <1>2 DEF CloseFunction
<1>3. CASE Open
  <2> DEFINE inst == Mark("fall", 0)
             end == EndBlock
             mid == Emit(end, current, <<inst>>)
             code == Seal(mid, current, Ret)
  <2>1. blocks' = code
    BY <1>3 DEF CloseFunction
  <2>2. PICK want, live, base : Lowered(want, live, base)
    BY DEF Lowers
  <2>3. blocks \in Code /\ current \in DOMAIN blocks /\ blocks[current].insts \in Seq(Insts)
    BY <2>2, LoweredFacts
  <2>4. PICK added : EndedBy(end, added) /\ end[current].term = blocks[current].term
    BY <2>2, EndAdds
  <2>5. inst \in Insts /\ inst.op = "fall" /\ <<inst>> \in Seq(Insts)
    <3>1. "fall" \in Ops
      BY DEF Ops
    <3> QED
      BY <3>1, MarkIs
  <2> HIDE DEF inst, end
  <2>6. /\ end \in Code /\ current \in DOMAIN end /\ end[current].term = None /\ DOMAIN end = DOMAIN blocks
        /\ added \in Seq(Insts) /\ Len(end) = Len(blocks)
    BY <1>3, <2>3, <2>4 DEF EndedBy, Open
  <2>7. PICK T1 : Spread(h, T, blocks, current, end, T1, {}, {})
    <3>1. Moves(blocks, current, end, added, {})
      <4>1. Len(blocks) \in Nat
        BY <2>3, CodeDomain
      <4> QED
        BY <1>3, <2>4, <2>6, <4>1 DEF Moves, EndedBy, Alike, Open
    <3>2. Takes(h, T, blocks, current, end, {}, {})
      BY <2>6, WaysIs DEF Takes
    <3> QED
      BY <1>1, <2>3, <2>6, <3>1, <3>2, Spreads
  <2>8. Flowing(h, T1, end) /\ (Tip(end, current) \in T1 => Here2(view)) /\ (h.first => <<1, 1>> \in T1)
    BY <1>1, <1>3, <2>7 DEF Spread, Kept, Open, Here2
  <2>9. /\ mid \in Code /\ Len(mid) = Len(end) /\ DOMAIN mid = DOMAIN end
        /\ \A b \in DOMAIN end \ {current} : mid[b] = end[b]
        /\ mid[current].insts = end[current].insts \o <<inst>>
    <3>1. /\ mid \in Code /\ Len(mid) = Len(end)
          /\ \A b \in DOMAIN end \ {current} : mid[b] = end[b]
          /\ mid[current].insts = end[current].insts \o <<inst>>
      BY <2>5, <2>6, EmitIs
    <3> HIDE DEF mid
    <3>2. DOMAIN mid = DOMAIN end
      BY <2>6, <3>1, CodeDomain
    <3> QED
      BY <3>1, <3>2
  <2> HIDE DEF mid
  <2>10. Ret \in Terms
    BY TermTargets
  <2>11. /\ code \in Code /\ Len(code) = Len(end)
         /\ \A b \in DOMAIN end \ {current} : Alike(code[b], end[b])
         /\ code[current].insts = end[current].insts \o <<inst>> /\ code[current].term = Ret
    BY <2>6, <2>9, <2>10, SealIs DEF Alike
  <2> HIDE DEF code
  <2>12. Ways(h, code[current].term) = {}
    BY <2>11, WaysIs
  <2>13. Tip(end, current) \in T1 => inst.op \notin h.bad
    BY <2>5, <2>8
  <2>14. PICK T2 : Flowing(h, T2, code) /\ \A x : <<x, 1>> \in T2 <=> <<x, 1>> \in T1
    <3>1. TRUE \in BOOLEAN
      OBVIOUS
    <3> QED
      BY <2>5, <2>6, <2>8, <2>11, <2>12, <2>13, <3>1, OneMore
  <2> QED
    BY <2>1, <2>8, <2>14
<1> QED
  BY <1>2, <1>3

\* The hazard, when it holds, is followed.
Chased(h, hold) == \E T : Flowing(h, T, blocks) /\ (hold => at \in T)

LEMMA Meets ==
    ASSUME NEW h, NEW hold, Chased(h, hold), blocks \in Code, AtInst, hold
    PROVE  Inst.op \notin h.bad
<1>1. PICK T : Flowing(h, T, blocks) /\ at \in T
  BY DEF Chased
<1>2. at = <<at[1], at[2]>> /\ at \in Points(blocks)
  BY <1>1, PointIs DEF Flowing
<1>3. at[1] \in DOMAIN blocks /\ at[2] \in 1..(Len(Block.insts) + 1)
  BY <1>2, PointIs DEF Block
<1>4. Len(Block.insts) \in Nat
  BY <1>3, PointIs DEF Block
<1>5. at[2] \in 1..Len(Block.insts)
  BY <1>3, <1>4 DEF AtInst
<1>6. Carried(h, T, at[1], Block.insts)
  BY <1>1, <1>3 DEF Flowing, Passed, Block
<1> QED
  BY <1>1, <1>2, <1>5, <1>6 DEF Carried, Inst

LEMMA ExecuteChased ==
    ASSUME NEW h, NEW hold, Chased(h, hold), blocks \in Code, Execute, NEW hold2,
           at[1] \in DOMAIN blocks, at[2] \in 1..(Len(Block.insts) + 1),
           hold2 => (hold /\ Inst.op \notin h.ends) \/ Inst.op \in h.starts
    PROVE  \E T : Flowing(h, T, blocks') /\ (hold2 => at' \in T)
<1>1. PICK T : Flowing(h, T, blocks) /\ (hold => at \in T)
  BY DEF Chased
<1>2. blocks' = blocks /\ at' = <<at[1], at[2] + 1>> /\ AtInst
  BY DEF Execute, lowering
<1>3. Len(Block.insts) \in Nat
  BY PointIs DEF Block
<1>4. at[2] \in 1..Len(Block.insts)
  BY <1>2, <1>3 DEF AtInst
<1>5. hold => <<at[1], at[2]>> \in T
  BY <1>1, PointIs DEF Flowing
<1>6. Carried(h, T, at[1], Block.insts)
  BY <1>1 DEF Flowing, Passed, Block
<1>7. hold2 => at' \in T
  BY <1>2, <1>4, <1>5, <1>6 DEF Carried, Inst
<1> QED
  BY <1>1, <1>2, <1>7

LEMMA TransferChased ==
    ASSUME NEW h, NEW hold, Chased(h, hold), blocks \in Code, Transfer,
           hold => \A cond \in Conds, yes \in BOOLEAN : yes \in Taken(cond) => <<cond, yes>> \notin h.bars,
           phase' = "run"
    PROVE  \E T : Flowing(h, T, blocks') /\ (hold => at' \in T)
<1>1. PICK T : Flowing(h, T, blocks) /\ (hold => at \in T)
  BY DEF Chased
<1>2. blocks' = blocks /\ AtEnd
  BY DEF Transfer, lowering
<1> SUFFICES ASSUME hold
             PROVE  at' \in T
  BY <1>1, <1>2
<1>3. at = <<at[1], at[2]>> /\ at \in Points(blocks)
  BY <1>1, PointIs DEF Flowing
<1>4. at[1] \in DOMAIN blocks /\ at[2] \in 1..(Len(Block.insts) + 1) /\ Len(Block.insts) \in Nat
  BY <1>3, PointIs DEF Block
<1>5. at[2] = Len(Block.insts) + 1
  BY <1>2, <1>4 DEF AtEnd
<1>6. \A x \in Ways(h, Block.term) : <<x, 1>> \in T
  BY <1>1, <1>3, <1>4, <1>5 DEF Flowing, Passed, Block
<1>7. CASE Block.term.kind = "jump" /\ at' = <<Block.term.to, 1>>
  <2>1. Block.term.to \in Ways(h, Block.term)
    BY <1>7 DEF Ways
  <2> QED
    BY <1>6, <1>7, <2>1
<1>8. CASE /\ Block.term.kind = "branch"
           /\ \E yes \in Taken(Block.term.cond) :
                at' = <<IF yes THEN Block.term.yes ELSE Block.term.no, 1>>
  <2>1. Block.term \in Terms
    BY <1>4, CodeDomain DEF Block, Code, BlockRecords
  <2>2. Block.term.cond \in Conds
    BY <1>8, <2>1 DEF Terms, None, Ret, Panic
  <2>3. PICK yes \in Taken(Block.term.cond) :
          at' = <<IF yes THEN Block.term.yes ELSE Block.term.no, 1>>
    BY <1>8
  <2>4. yes \in BOOLEAN
    BY <2>2, <2>3 DEF Taken, Conds
  <2>5. <<Block.term.cond, yes>> \notin h.bars
    BY <2>2, <2>3, <2>4
  <2>6. (IF yes THEN Block.term.yes ELSE Block.term.no) \in Ways(h, Block.term)
    <3>1. Ways(h, Block.term) =
            {x \in {Block.term.yes, Block.term.no} :
               \/ x = Block.term.yes /\ <<Block.term.cond, TRUE>> \notin h.bars
               \/ x = Block.term.no /\ <<Block.term.cond, FALSE>> \notin h.bars}
      BY <1>8 DEF Ways
    <3> QED
      BY <2>4, <2>5, <3>1
  <2> QED
    BY <1>6, <2>3, <2>6
<1>9. phase = "run" /\ phase' # "done"
  BY <1>2 DEF AtEnd
<1> QED
  BY <1>7, <1>8, <1>9 DEF Transfer

(***************************************************************************)
(* The statements, whatever the hazard.                                    *)
(***************************************************************************)
LEMMA SkipKept ==
    ASSUME NEW h, NEW T, NEW view, Followed(h, T, view), NEW view2, Looser(Len(scopes), view, view2), Skip
    PROVE  \E T2 : Kept(h, T2, view2)'
<1>1. PICK want, live, base : Lowered(want, live, base)
  BY DEF Followed, Lowers
<1> QED
  BY <1>1, Skipped DEF Followed, Looser

LEMMA ReturnKept ==
    ASSUME NEW h, NEW T, NEW view, Followed(h, T, view), NEW view2, Looser(Len(scopes), view, view2),
           ReadReturn \/ ReadReturnProp
    PROVE  \E T2 : Kept(h, T2, view2)'
  BY SkipKept, ReturnKeeps, ReturnPropKeeps DEF ReadReturn, ReadReturnProp

\* Statements of which the checker notes nothing, and that do not leave a loop.
ReadSteady == ReadProp \/ ReadAssert \/ ReadMust \/ ReadIndex \/ ReadDefer

LEMMA SteadyKept ==
    ASSUME NEW h, NEW T, NEW view, Followed(h, T, view), NEW view2, Looser(Len(scopes), view, view2),
           Here2(view) => Here2(view2), ReadSteady
    PROVE  \E T2 : Kept(h, T2, view2)'
<1>1. PICK want, live, base : Lowered(want, live, base)
  BY DEF Followed, Lowers
<1>2. CASE ReadDefer
  <2>1. CASE Defer
    BY <1>1, <2>1, DeferKeeps DEF Followed, Looser, Here2
  <2> QED
    BY <1>2, <2>1, SkipKept DEF ReadDefer
<1>3. CASE ReadProp
  BY <1>3, PropKeeps DEF ReadProp
<1>4. CASE ReadAssert
  BY <1>4, AssertKeeps DEF ReadAssert
<1>5. CASE ReadMust
  BY <1>5, MustKeeps DEF ReadMust
<1>6. CASE ReadIndex
  BY <1>6, IndexKeeps DEF ReadIndex
<1> QED
  BY <1>2, <1>3, <1>4, <1>5, <1>6 DEF ReadSteady

LEMMA LeaveKept ==
    ASSUME NEW h, NEW T, NEW view, Followed(h, T, view), NEW view2, Looser(Len(scopes), view, view2),
           Here2(view) => \A i \in 2..Len(scopes) : i \in view.before,
           ReadBreak => \A i \in 2..Len(scopes) : scopes[i].part = "loop" => i \notin view2.shut,
           ReadBreak \/ ReadContinue
    PROVE  \E T2 : Kept(h, T2, view2)'
<1>1. \A k \in 0..1 : k \in Nat
  OBVIOUS
<1>2. CASE ReadBreak
  <2>1. PICK k \in 0..1 : LeaveLoop(k, "break_block") \/ Skip
    BY <1>2 DEF ReadBreak, Break
  <2>2. CASE LeaveLoop(k, "break_block")
    BY <1>1, <1>2, <2>2, LeaveKeeps
  <2> QED
    BY <2>1, <2>2, SkipKept
<1>3. CASE ReadContinue
  <2>1. PICK k \in 0..1 : LeaveLoop(k, "continue_block") \/ Skip
    BY <1>3 DEF ReadContinue, Continue
  <2>2. CASE LeaveLoop(k, "continue_block")
    <3>1. "continue_block" # "break_block"
      OBVIOUS
    <3> QED
      BY <1>1, <2>2, <3>1, LeaveKeeps
  <2> QED
    BY <2>1, <2>2, SkipKept
<1> QED
  BY <1>2, <1>3

LEMMA PlainKept ==
    ASSUME NEW h, NEW T, NEW view, Followed(h, T, view), NEW view2, Looser(Len(scopes), view, view2),
           NEW op \in Ops, Plain(op) \/ Skip,
           Here2(view) => op \notin h.bad /\ (op \notin h.ends => Here2(view2)),
           op \in h.starts => Here2(view2)
    PROVE  \E T2 : Kept(h, T2, view2)'
  BY SkipKept, PlainKeeps

(***************************************************************************)
(* The local.  Where it may be moved away or without a value, it is in one *)
(* of the checker's two sets, unless the program has one of the constructs *)
(* the property names: the sets follow the source order.                   *)
(***************************************************************************)
LocalHazard(first) ==
  [first |-> first, ends |-> {"assign", "update"}, starts |-> {"move"},
   bad |-> {"read", "move", "update"}, bars |-> {}]
LocalView(dead) == [before |-> IF dead THEN Nat ELSE {}, shut |-> {}, cut |-> {}]
Ordered == {"nested assign", "looped move", "update"} \cap uses = {}
LocalKept ==
  \E first \in BOOLEAN, dead \in BOOLEAN :
    /\ first <=> local = "unset"
    /\ dead <=> moved \/ unset
    /\ \E T : Kept(LocalHazard(first), T, LocalView(dead))

LocalInv ==
  Ordered =>
    /\ phase = "read" => local \in {"unset", "live"} /\ LocalKept
    /\ phase = "run" => \E first \in BOOLEAN : Chased(LocalHazard(first), local # "live")

LEMMA LocalIs ==
    ASSUME NEW first \in BOOLEAN
    PROVE  Hazard(LocalHazard(first))
  BY DEF Hazard, Hazards, LocalHazard, Ops, Conds, Quiet

LEMMA LocalViewIs ==
    ASSUME NEW dead \in BOOLEAN, Lowers, scopes # <<>>
    PROVE  /\ LocalView(dead).shut = {} /\ LocalView(dead).cut = {}
           /\ \A i \in Nat : i \in LocalView(dead).before <=> dead
           /\ Len(scopes) \in Nat /\ Len(scopes) + 1 \in Nat /\ Len(scopes) + 2 \in Nat
           /\ \A n : Looser(n, LocalView(dead), LocalView(dead))
<1>1. Len(scopes) \in Nat
  BY LoweredFacts DEF Lowers
<1>2. \A i \in Nat : i \in LocalView(dead).before <=> dead
  BY DEF LocalView
<1>3. \A n : Looser(n, LocalView(dead), LocalView(dead))
  BY DEF Looser, Relaxed
<1>4. LocalView(dead).shut = {} /\ LocalView(dead).cut = {} /\ Len(scopes) + 1 \in Nat /\ Len(scopes) + 2 \in Nat
  BY <1>1 DEF LocalView
<1> QED
  BY <1>1, <1>2, <1>3, <1>4

\* A construct begins or ends, or has a further branch.
LEMMA LocalOpens ==
    ASSUME NEW h, NEW T, NEW dead \in BOOLEAN, NEW view, view = LocalView(dead),
           Followed(h, T, view), ReadOpening
    PROVE  \E T2 : Kept(h, T2, view)'
<1>1. Lowers /\ scopes # <<>>
  BY DEF Followed
<1>2. /\ view.shut = {} /\ view.cut = {} /\ \A i \in Nat : i \in view.before <=> dead
      /\ Len(scopes) \in Nat /\ Len(scopes) + 1 \in Nat /\ Len(scopes) + 2 \in Nat
      /\ \A n : Looser(n, view, view)
  BY <1>1, LocalViewIs
<1>3. /\ Looser(Len(scopes), view, view)
      /\ Here2(view) => Len(scopes) + 2 \in view.before
      /\ Len(scopes) + 1 \notin view.shut /\ Len(scopes) + 1 \notin view.cut
  BY <1>2 DEF Here2
<1>4. LoopConditions \subseteq Conds /\ Conditions \subseteq Conds /\ "opaque" \in Conds
  BY DEF LoopConditions, Conditions, Conds
<1>5. ASSUME NEW cond \in Conds, NEW has_step \in BOOLEAN, lowerLoop(cond, has_step)
      PROVE  \E T2 : Kept(h, T2, view)'
  BY <1>3, <1>5, LoopKeeps
<1>6. CASE ReadBlock
  BY <1>3, <1>6, OpenBlockKeeps DEF ReadBlock
<1>7. CASE ReadIf
  <2>1. PICK cond \in Conditions, other \in {"none", "else"} \cup ({"elif"} \cap Kinds) : lowerIf(cond, other)
    BY <1>7 DEF ReadIf
  <2>2. cond \in Conds /\ other \in {"none", "else", "elif"}
    BY <1>4
  <2> QED
    BY <1>3, <2>1, <2>2, IfKeeps
<1>8. CASE ReadWhile
  BY <1>4, <1>5, <1>8 DEF ReadWhile, lowerWhile
<1>9. CASE ReadFor
  BY <1>4, <1>5, <1>9 DEF ReadFor, lowerFor
<1>10. CASE ReadForIn
  BY <1>4, <1>5, <1>10 DEF ReadForIn, lowerForIn
<1>11. CASE ReadWhen
  <2>1. PICK cases \in 1..2, has_default \in BOOLEAN : lowerWhen(cases, has_default)
    BY <1>11 DEF ReadWhen
  <2>2. cases \in Nat \ {0}
    OBVIOUS
  <2> QED
    BY <1>3, <2>1, <2>2, WhenKeeps
<1> QED
  BY <1>6, <1>7, <1>8, <1>9, <1>10, <1>11 DEF ReadOpening

LEMMA LocalCloses ==
    ASSUME NEW h, NEW T, NEW dead \in BOOLEAN, NEW view, view = LocalView(dead),
           Followed(h, T, view), CloseBlock
    PROVE  \E T2 : Kept(h, T2, view)'
<1>1. Lowers /\ scopes # <<>>
  BY DEF Followed
<1>2. /\ view.shut = {} /\ view.cut = {} /\ \A i \in Nat : i \in view.before <=> dead
      /\ Len(scopes) \in Nat /\ Len(scopes) + 1 \in Nat
      /\ Looser(Len(scopes) - 1, view, view)
  BY <1>1, LocalViewIs
<1>3. PICK s : s = Last(scopes)
  OBVIOUS
<1>4. Concluding(view, view, s) /\ Branching(view, view, s)
  BY <1>2 DEF Concluding, Branching, Here2
<1> QED
  BY <1>2, <1>3, <1>4, CloseKeeps

LEMMA LocalLooser ==
    ASSUME Lowers, scopes # <<>>, NEW dead \in BOOLEAN, NEW dead2 \in BOOLEAN,
           Len(scopes) > 1 => (dead => dead2), dead2 /\ ~dead => loops = <<>>
    PROVE  Looser(Len(scopes), LocalView(dead), LocalView(dead2))
<1>1. PICK want, live, base : Lowered(want, live, base)
  BY DEF Lowers
<1>2. scopes \in Seq(ScopeRecords) /\ DOMAIN scopes = 1..Len(scopes) /\ Len(scopes) \in Nat
  <2>1. scopes \in Seq(ScopeRecords)
    BY <1>1, LoweredFacts
  <2> QED
    BY <2>1
<1>3. LoopsFit(loops, scopes, base)
  <2>1. Around(blocks, want, live, base, scopes, loops, cleanups, pending, {current})
    BY <1>1, LoweredFacts
  <2> QED
    BY <2>1 DEF Around
<1> SUFFICES ASSUME NEW i \in 2..Len(scopes)
             PROVE  Relaxed(scopes[i], i, LocalView(dead), LocalView(dead2))
  BY DEF Looser
<1>4. i \in Nat /\ Len(scopes) > 1 /\ i \in DOMAIN scopes
  BY <1>2
<1>5. loops = <<>> => scopes[i].part # "loop"
  <2>1. loops = <<>> => DOMAIN loops = {}
    OBVIOUS
  <2> QED
    BY <1>3, <1>4, <2>1 DEF LoopsFit
<1> QED
  BY <1>4, <1>5, LocalViewIs DEF Relaxed

LEMMA LocalPlain ==
    ASSUME NEW h, NEW T, NEW view, NEW view2, Followed(h, T, view),
           NEW first \in BOOLEAN, NEW dead \in BOOLEAN, NEW dead2 \in BOOLEAN,
           h = LocalHazard(first), view = LocalView(dead), view2 = LocalView(dead2),
           dead <=> moved \/ unset, dead2 <=> moved' \/ unset',
           Ordered', NEW op \in Ops, Plain(op) \/ Skip,
           \/ op \in {"null", "set", "deref"} /\ UNCHANGED flags
           \/ op = "read" /\ CheckRead
           \/ op = "move" /\ CheckMove /\ (loops # <<>> => "looped move" \in uses')
           \/ op = "assign" /\ CheckAssign /\ (Len(scopes) > 1 => "nested assign" \in uses')
    PROVE  \E T2 : Kept(h, T2, view2)'
<1>5. /\ view2.shut = {} /\ view.shut = {} /\ view2.cut = {} /\ view.cut = {}
      /\ \A i \in Nat : (i \in view.before <=> dead) /\ (i \in view2.before <=> dead2)
      /\ Len(scopes) \in Nat /\ Len(scopes) + 1 \in Nat
  BY LocalViewIs DEF Followed
<1>6. /\ op \in {"null", "set", "deref"} => (dead2 <=> dead)
      /\ op = "read" => ~dead /\ ~dead2
      /\ op = "move" => ~dead /\ dead2 /\ loops = <<>>
      /\ op = "assign" => ~dead2 /\ ~(Len(scopes) > 1)
      /\ op \in {"null", "set", "deref", "read", "move", "assign"}
  BY DEF CheckRead, CheckMove, CheckAssign, flags, checker, Ordered
<1>7. Looser(Len(scopes), view, view2)
  BY <1>6, LocalLooser DEF Followed
<1>9. /\ h.bad = {"read", "move", "update"} /\ h.ends = {"assign", "update"} /\ h.starts = {"move"}
      /\ (Here2(view) <=> dead) /\ (Here2(view2) <=> dead2)
  <2>1. (Here2(view) <=> dead) /\ (Here2(view2) <=> dead2)
    BY <1>5 DEF Here2
  <2> QED
    BY <2>1 DEF LocalHazard
<1>10. /\ Here2(view) => op \notin h.bad /\ (op \notin h.ends => Here2(view2))
       /\ op \in h.starts => Here2(view2)
  BY <1>6, <1>9
<1> QED
  BY <1>7, <1>10, PlainKept

\* What the checker concludes is right of what is lowered so far.
LEMMA LocalReads ==
    ASSUME Lowers, scopes # <<>>, Lowers', LocalKept, Ordered',
           ReadStatement \/ ReadOpening \/ ReadClose
    PROVE  LocalKept'
<1>1. PICK first \in BOOLEAN, dead \in BOOLEAN :
        /\ first <=> local = "unset"
        /\ dead <=> moved \/ unset
        /\ \E T : Kept(LocalHazard(first), T, LocalView(dead))
  BY DEF LocalKept
<1> PICK T : Kept(LocalHazard(first), T, LocalView(dead))
  BY <1>1
<1>2. PICK dead2 \in BOOLEAN : dead2 <=> moved' \/ unset'
  OBVIOUS
<1>3. PICK h, view, view2 : h = LocalHazard(first) /\ view = LocalView(dead) /\ view2 = LocalView(dead2)
  OBVIOUS
<1>4. local' = local
  BY DEF ReadStatement, ReadOpening, ReadClose, ReadReturnProp, ReadProp, ReadAssert, ReadMust, ReadIndex,
         ReadDefer, ReadReturn, ReadBreak, ReadContinue, ReadSetNull, ReadSet, ReadDeref,
         ReadRead, ReadMove, ReadAssign, ReadUpdate, ReadBlock, ReadIf, ReadWhile, ReadFor,
         ReadForIn, ReadWhen, Opens, Reads, machine
<1>5. Followed(h, T, view)
  BY <1>3, LocalIs DEF Followed
<1>6. /\ Looser(Len(scopes), view, view)
      /\ Here2(view) => \A i \in 2..Len(scopes) : i \in view.before
      /\ view.shut = {}
  BY <1>3, LocalViewIs DEF Here2
<1>7. ASSUME UNCHANGED flags
      PROVE  view2 = view
  BY <1>1, <1>2, <1>3, <1>7 DEF flags
<1> SUFFICES \E T2 : Kept(h, T2, view2)'
  <2>1. PICK T2 : Kept(h, T2, view2)'
    OBVIOUS
  <2>2. Kept(LocalHazard(first), T2, LocalView(dead2))'
    BY <1>3, <2>1 DEF Kept
  <2>3. (first <=> local = "unset")'
    BY <1>1, <1>4
  <2>4. (dead2 <=> moved \/ unset)'
    BY <1>2
  <2> QED
    BY <2>2, <2>3, <2>4 DEF LocalKept
<1>8. CASE ReadReturn \/ ReadReturnProp
  <2>1. view2 = view
    BY <1>7, <1>8 DEF ReadReturn, ReadReturnProp, CheckReturn
  <2> QED
    BY <1>5, <1>6, <1>8, <2>1, ReturnKept
<1>9. CASE ReadSteady
  <2>1. view2 = view
    BY <1>7, <1>9 DEF ReadSteady, ReadProp, ReadAssert, ReadMust, ReadIndex, ReadDefer, CheckOther, checker
  <2> QED
    BY <1>5, <1>6, <1>9, <2>1, SteadyKept
<1>10. CASE ReadBreak \/ ReadContinue
  <2>1. view2 = view
    BY <1>7, <1>10 DEF ReadBreak, ReadContinue, CheckBreak, CheckOther, checker
  <2> QED
    BY <1>5, <1>6, <1>10, <2>1, LeaveKept
<1>11. CASE ReadOpening
  <2>1. UNCHANGED flags
    BY <1>11 DEF ReadOpening, ReadBlock, ReadIf, ReadWhile, ReadFor, ReadForIn, ReadWhen,
                 CheckBlock, inferIf, inferLoop, inferForIn, inferWhen
  <2> QED
    BY <1>3, <1>5, <1>7, <1>11, <2>1, LocalOpens
<1>12. CASE ReadClose
  <2>1. UNCHANGED flags /\ CloseBlock
    BY <1>12 DEF ReadClose, NextBranch, EndConstruct
  <2> QED
    BY <1>3, <1>5, <1>7, <2>1, LocalCloses
<1>13. CASE ReadSetNull \/ ReadSet \/ ReadDeref
  <2>1. PICK op \in {"null", "set", "deref"} : Plain(op) \/ Skip
    BY <1>13 DEF ReadSetNull, ReadSet, ReadDeref
  <2>2. UNCHANGED flags
    BY <1>13 DEF ReadSetNull, ReadSet, ReadDeref, CheckWrite, CheckDeref, checker
  <2>3. op \in Ops
    BY DEF Ops
  <2> QED
    BY <1>1, <1>2, <1>3, <1>5, <2>1, <2>2, <2>3, LocalPlain
<1>14. CASE ReadRead
  <2>1. Plain("read") \/ Skip
    BY <1>14 DEF ReadRead
  <2>2. CheckRead /\ "read" \in Ops
    BY <1>14 DEF ReadRead, Ops
  <2> QED
    BY <1>1, <1>2, <1>3, <1>5, <2>1, <2>2, LocalPlain
<1>15. CASE ReadMove
  <2>1. Plain("move") /\ CheckMove /\ "move" \in Ops
    BY <1>15 DEF ReadMove, Ops
  <2>2. loops # <<>> => "looped move" \in uses'
    BY <1>15 DEF ReadMove, Reads
  <2> QED
    BY <1>1, <1>2, <1>3, <1>5, <2>1, <2>2, LocalPlain
<1>16. CASE ReadAssign
  <2>1. Plain("assign") /\ CheckAssign /\ "assign" \in Ops
    BY <1>16 DEF ReadAssign, Ops
  <2>2. Len(scopes) > 1 => "nested assign" \in uses'
    BY <1>16 DEF ReadAssign, Reads
  <2> QED
    BY <1>1, <1>2, <1>3, <1>5, <2>1, <2>2, LocalPlain
<1>17. CASE ReadUpdate
  BY <1>17 DEF ReadUpdate, Reads, Ordered
<1> QED
  BY <1>8, <1>9, <1>10, <1>11, <1>12, <1>13, <1>14, <1>15, <1>16, <1>17
     DEF ReadStatement, ReadSteady

LEMMA RunFacts == ASSUME FlowInv, phase = "run"
                  PROVE  /\ blocks \in Code /\ at[1] \in DOMAIN blocks
                         /\ at[2] \in 1..(Len(Block.insts) + 1)
  BY DEF FlowInv, Whole, Annotated, Underway

LEMMA ReadsOn ==
    ASSUME ReadStatement \/ ReadOpening \/ ReadClose
    PROVE  /\ phase = "read" /\ phase' = "read" /\ uses \subseteq uses'
           /\ UNCHANGED <<family, value, machine>>
<1>1. CASE ReadStatement
  BY <1>1 DEF ReadStatement, ReadReturnProp, ReadProp, ReadAssert, ReadMust, ReadIndex,
              ReadDefer, ReadReturn, ReadBreak, ReadContinue, ReadSetNull, ReadSet, ReadDeref,
              ReadRead, ReadMove, ReadAssign, ReadUpdate, Reads
<1>2. CASE ReadOpening
  BY <1>2 DEF ReadOpening, ReadBlock, ReadIf, ReadWhile, ReadFor, ReadForIn, ReadWhen, Opens, Reads
<1>3. CASE ReadClose
  BY <1>3 DEF ReadClose
<1> QED
  BY <1>1, <1>2, <1>3

LEMMA LocalInit == Init => LocalInv
<1> SUFFICES ASSUME Init
             PROVE  LocalInv
  OBVIOUS
<1>1. /\ InitLowering /\ phase = "read" /\ moved = FALSE /\ unset \in BOOLEAN
      /\ local = IF unset THEN "unset" ELSE "live"
  BY DEF Init, InitChecker
<1>2. PICK first \in BOOLEAN : first <=> unset
  BY <1>1
<1>3. \E T : Kept(LocalHazard(first), T, LocalView(first))
  <2>1. LocalHazard(first).first => 2 \in LocalView(first).before
    BY DEF LocalHazard, LocalView
  <2> QED
    BY <1>1, <2>1, LocalIs, InitKeeps
<1>4. local \in {"unset", "live"} /\ (first <=> local = "unset") /\ (first <=> moved \/ unset)
  BY <1>1, <1>2
<1> QED
  BY <1>1, <1>3, <1>4 DEF LocalInv, LocalKept

LEMMA LocalStep == FlowInv /\ FlowInv' /\ LocalInv /\ [Next]_vars => LocalInv'
<1> SUFFICES ASSUME FlowInv, FlowInv', LocalInv, [Next]_vars, Ordered'
             PROVE  LocalInv'
  BY DEF LocalInv
<1>1. CASE UNCHANGED vars
  BY <1>1 DEF vars, lowering, checker, flags, machine, LocalInv, LocalKept, Ordered, Kept, Chased, Open, Tip
<1>2. CASE ReadStatement \/ ReadOpening \/ ReadClose
  <2>1. phase = "read" /\ phase' = "read" /\ uses \subseteq uses' /\ local' = local
    BY <1>2, ReadsOn DEF machine
  <2>2. Ordered
    BY <2>1 DEF Ordered
  <2>3. Lowers /\ scopes # <<>> /\ Lowers' /\ local \in {"unset", "live"} /\ LocalKept
    BY <2>1, <2>2 DEF FlowInv, LocalInv
  <2>4. LocalKept'
    BY <1>2, <2>3, LocalReads
  <2> QED
    BY <2>1, <2>3, <2>4 DEF LocalInv
<1>3. CASE ReadEnd
  <2>1. /\ phase = "read" /\ phase' = "run" /\ uses' = uses /\ local' = local /\ at' = at /\ CloseFunction
    BY <1>3 DEF ReadEnd, machine
  <2>2. Lowers /\ scopes # <<>> /\ at = <<1, 1>> /\ local \in {"unset", "live"} /\ LocalKept
    BY <2>1 DEF FlowInv, LocalInv, Ordered
  <2>3. PICK first \in BOOLEAN, dead \in BOOLEAN :
          (first <=> local = "unset") /\ \E T : Kept(LocalHazard(first), T, LocalView(dead))
    BY <2>2 DEF LocalKept
  <2>4. PICK T : Kept(LocalHazard(first), T, LocalView(dead))
    BY <2>3
  <2>5. "fall" \notin LocalHazard(first).bad /\ Hazard(LocalHazard(first))
    BY LocalIs DEF LocalHazard
  <2>6. \E T2 : Flowing(LocalHazard(first), T2, blocks') /\ (LocalHazard(first).first => <<1, 1>> \in T2)
    BY <2>1, <2>2, <2>4, <2>5, FunctionKeeps
  <2>7. (local # "live")' => LocalHazard(first).first
    BY <2>1, <2>2, <2>3 DEF LocalHazard
  <2>8. Chased(LocalHazard(first), local # "live")'
    BY <2>1, <2>2, <2>6, <2>7 DEF Chased
  <2> QED
    BY <2>1, <2>8 DEF LocalInv
<1>4. CASE Execute
  <2>1. phase = "run" /\ phase' = "run" /\ uses' = uses /\ AtInst
    BY <1>4 DEF Execute, AtInst
  <2>2. PICK first \in BOOLEAN : Chased(LocalHazard(first), local # "live")
    BY <2>1 DEF LocalInv, Ordered
  <2>3. (local # "live")' => \/ local # "live" /\ Inst.op \notin LocalHazard(first).ends
                             \/ Inst.op \in LocalHazard(first).starts
    BY <1>4 DEF Execute, LocalHazard
  <2>4. PICK hold, hold2 : hold = (local # "live") /\ hold2 = (local # "live")'
    OBVIOUS
  <2>5. \E T : Flowing(LocalHazard(first), T, blocks') /\ (hold2 => at' \in T)
    BY <1>4, <2>1, <2>2, <2>3, <2>4, RunFacts, ExecuteChased
  <2>6. Chased(LocalHazard(first), local # "live")'
    BY <2>4, <2>5 DEF Chased
  <2> QED
    BY <2>1, <2>6 DEF LocalInv
<1>5. CASE Transfer
  <2>1. phase = "run" /\ uses' = uses /\ local' = local
    BY <1>5 DEF Transfer, AtEnd
  <2> SUFFICES ASSUME phase' = "run"
               PROVE  LocalInv'
    BY <1>5, <2>1 DEF Transfer, LocalInv
  <2>2. PICK first \in BOOLEAN : Chased(LocalHazard(first), local # "live")
    BY <2>1 DEF LocalInv, Ordered
  <2>3. LocalHazard(first).bars = {}
    BY DEF LocalHazard
  <2>4. PICK hold : hold = (local # "live")
    OBVIOUS
  <2>5. \E T : Flowing(LocalHazard(first), T, blocks') /\ (hold => at' \in T)
    BY <1>5, <2>1, <2>2, <2>3, <2>4, RunFacts, TransferChased
  <2>6. Chased(LocalHazard(first), local # "live")'
    BY <2>1, <2>4, <2>5 DEF Chased
  <2> QED
    BY <2>6 DEF LocalInv
<1> QED
  BY <1>1, <1>2, <1>3, <1>4, <1>5 DEF Next, ReadStatement, ReadOpening

LEMMA LocalShows == FlowInv /\ LocalInv => ReadsLive
<1> SUFFICES ASSUME FlowInv, LocalInv, AtInst, Inst.op \in {"read", "move", "update"}, local # "live", Ordered
             PROVE  FALSE
  BY DEF ReadsLive, Ordered
<1>1. phase = "run"
  BY DEF AtInst
<1>2. PICK first \in BOOLEAN : Chased(LocalHazard(first), local # "live")
  BY <1>1 DEF LocalInv
<1>3. PICK hold : hold = (local # "live")
  OBVIOUS
<1>4. Inst.op \notin LocalHazard(first).bad
  BY <1>1, <1>2, <1>3, RunFacts, Meets
<1> QED
  BY <1>4 DEF LocalHazard

\* ReadsLive for every program: movedLocals_ and uninitializedLocals_ follow the source
\* and not the control flow, yet what inferExpr() accepts reads no local that is moved or
\* unassigned, whatever is skipped, left early or repeated, unless the program assigns
\* it inside a construct, moves it in a loop, or reads it in the value assigned to it.
THEOREM LiveReads == Spec => []ReadsLive
<1>1. Spec => []LocalInv
  BY FlowHolds, LocalInit, LocalStep, PTL DEF Spec
<1> QED
  BY <1>1, FlowHolds, LocalShows, PTL

(***************************************************************************)
(* The checker's stack beside the lowering's.                              *)
(***************************************************************************)
Answers == [ends : BOOLEAN, breaks : BOOLEAN]
OpenParts == {"body", "block", "then", "else", "loop", "forin", "case"}
OpenRecords == [part : OpenParts, cond : Conds \cup {"default"}, has_more : BOOLEAN,
                was : BOOLEAN, others : Answers, ends : BOOLEAN, breaks : BOOLEAN]

\* The same construct, the i-th that is open.
Pairs(e, s, i) ==
  /\ e.part = "body" <=> i = 1
  /\ s.part = "body" <=> i = 1
  /\ e.part = "block" <=> s.part = "block"
  /\ e.part = "then" <=> s.part = "then"
  /\ e.part = "else" <=> s.part \in {"else", "elif"}
  /\ e.part \in {"loop", "forin"} <=> s.part = "loop"
  /\ e.part = "case" <=> s.part \in {"case", "open"}
  /\ s.part = "case" => e.cond = "default"
  /\ s.part = "open" => e.cond = "opaque"
  /\ e.part = "then" => /\ e.has_more <=> s.other # 0
                        /\ s.left > 0 => e.has_more
                        /\ s.left \in {0, 1}
  /\ e.part = "case" => (e.has_more <=> s.left > 0)
  /\ e.part \notin {"then", "case"} => ~e.has_more
  /\ e.part \notin {"else", "case"} => e.others = NoBranches

Paired ==
  /\ open \in Seq(OpenRecords) /\ proven \in BOOLEAN
  /\ scopes # <<>> /\ Len(open) = Len(scopes) /\ Len(scopes) \in Nat \ {0}
  /\ \A i \in 1..Len(scopes) : Pairs(open[i], scopes[i], i)

\* Below the m-th, which becomes e and s and is then the innermost, nothing changes.
Tops(m, e, s) ==
  /\ open' \in Seq(OpenRecords) /\ scopes' # <<>> /\ Len(open') = m /\ Len(scopes') = m
  /\ open'[m] = e /\ scopes'[m] = s
  /\ \A i \in 1..(m - 1) : open'[i] = open[i] /\ scopes'[i] = scopes[i]

LEMMA StaysPaired ==
    ASSUME Paired, NEW m \in 1..(Len(scopes) + 1), NEW e \in OpenRecords, NEW s, Tops(m, e, s),
           Pairs(e, s, m), proven' \in BOOLEAN
    PROVE  Paired'
<1>1. m \in Nat \ {0} /\ m - 1 <= Len(scopes)
  BY DEF Paired
<1>2. ASSUME NEW i \in 1..m
      PROVE  Pairs(open'[i], scopes'[i], i)
  <2>1. CASE i = m
    BY <2>1 DEF Tops
  <2>2. CASE i # m
    <3>1. i \in 1..(m - 1) /\ i \in 1..Len(scopes)
      BY <1>1, <2>2 DEF Paired
    <3>2. open'[i] = open[i] /\ scopes'[i] = scopes[i]
      BY <3>1 DEF Tops
    <3> QED
      BY <3>1, <3>2 DEF Paired
  <2> QED
    BY <2>1, <2>2
<1> QED
  BY <1>1, <1>2 DEF Paired, Tops

\* The innermost construct, with more of it read.
Noted(e, ends, breaks) == [e EXCEPT !.ends = @ \/ ends, !.breaks = @ \/ breaks]
Like(e2, e) ==
  /\ e2 \in OpenRecords /\ e2.part = e.part /\ e2.cond = e.cond /\ e2.has_more = e.has_more
  /\ e2.was = e.was /\ e2.others = e.others

LEMMA NotedIs ==
    ASSUME NEW e \in OpenRecords, NEW ends \in BOOLEAN, NEW breaks \in BOOLEAN
    PROVE  /\ Like(Noted(e, ends, breaks), e)
           /\ Noted(e, ends, breaks).ends <=> e.ends \/ ends
           /\ Noted(e, ends, breaks).breaks <=> e.breaks \/ breaks
  BY DEF OpenRecords, Noted, Like

LEMMA LikePairs == ASSUME NEW e, NEW e2, Like(e2, e), NEW s, NEW i, Pairs(e, s, i)
                   PROVE  Pairs(e2, s, i)
  BY DEF Like, Pairs

LEMMA NoteIs ==
    ASSUME NEW stack \in Seq(OpenRecords), Len(stack) > 0, NEW ends \in BOOLEAN, NEW breaks \in BOOLEAN
    PROVE  LET note == Note(stack, ends, breaks) IN
           /\ note \in Seq(OpenRecords) /\ Len(note) = Len(stack)
           /\ note[Len(stack)] = Noted(stack[Len(stack)], ends, breaks)
           /\ \A i \in 1..(Len(stack) - 1) : note[i] = stack[i]
<1> DEFINE n == Len(stack)
           e == Noted(stack[n], ends, breaks)
<1>1. n \in Nat /\ n \in DOMAIN stack /\ stack[n] \in OpenRecords
  OBVIOUS
<1>2. Note(stack, ends, breaks) = [stack EXCEPT ![n] = e]
  BY <1>1 DEF Note, Noted
<1>3. e \in OpenRecords
  BY <1>1, NotedIs DEF Like
<1> HIDE DEF e
<1>4. /\ [stack EXCEPT ![n] = e] \in Seq(OpenRecords) /\ Len([stack EXCEPT ![n] = e]) = n
      /\ [stack EXCEPT ![n] = e][n] = e
      /\ \A i \in 1..(n - 1) : [stack EXCEPT ![n] = e][i] = stack[i]
  BY <1>1, <1>3
<1> QED
  BY <1>2, <1>4 DEF e

LEMMA Appended ==
    ASSUME NEW S, NEW seq \in Seq(S), NEW x
    PROVE  /\ Len(Append(seq, x)) = Len(seq) + 1 /\ Append(seq, x)[Len(seq) + 1] = x
           /\ \A i \in 1..Len(seq) : Append(seq, x)[i] = seq[i]
           /\ Append(seq, x) # <<>>
<1>1. seq \in Seq(S \cup {x}) /\ x \in S \cup {x}
  OBVIOUS
<1> QED
  BY <1>1, AppendProperties

LEMMA FrontIs ==
    ASSUME NEW S, NEW seq \in Seq(S), Len(seq) > 0
    PROVE  /\ Front(seq) \in Seq(S) /\ Len(Front(seq)) = Len(seq) - 1
           /\ \A i \in 1..(Len(seq) - 1) : Front(seq)[i] = seq[i]
           /\ Last(seq) = seq[Len(seq)]
<1>1. Front(seq) \in Seq(S)
  BY DEF Front
<1>2. Len(Front(seq)) = Len(seq) - 1 /\ \A i \in 1..(Len(seq) - 1) : Front(seq)[i] = seq[i]
  <2>1. Len(Front(seq)) = Len(seq) - 1
    <3> DEFINE n == Len(seq) - 1
    <3>1. n \in Nat /\ n \in Int /\ 1 \in Int /\ \A i \in 1..n : seq[i] \in S
      OBVIOUS
    <3> HIDE DEF n
    <3>2. Len(SubSeq(seq, 1, n)) = IF 1 <= n THEN n - 1 + 1 ELSE 0
      BY <3>1, SubSeqProperties
    <3>3. Len(SubSeq(seq, 1, n)) = n
      BY <3>1, <3>2
    <3> QED
      BY <3>3 DEF Front, n
  <2>2. ASSUME NEW i \in 1..(Len(seq) - 1)
        PROVE  Front(seq)[i] = seq[i]
    BY DEF Front
  <2> QED
    BY <2>1, <2>2
<1>3. Last(seq) = seq[Len(seq)]
  BY DEF Last
<1> QED
  BY <1>1, <1>2, <1>3

LEMMA OpenedIs ==
    ASSUME NEW part \in OpenParts, NEW cond \in Conds \cup {"default"}, NEW has_more \in BOOLEAN,
           NEW was \in BOOLEAN, NEW others \in Answers
    PROVE  LET e == Opened(part, cond, has_more, was, others) IN
           /\ e \in OpenRecords /\ e.part = part /\ e.cond = cond /\ (e.has_more <=> has_more)
           /\ (e.was <=> was) /\ e.others = others /\ ~e.ends /\ ~e.breaks
  BY DEF OpenRecords, Opened

LEMMA NoBranchesIs == NoBranches \in Answers /\ NoBranches.ends /\ ~NoBranches.breaks
  BY DEF NoBranches, Answers

\* The scopes that the constructs begin with.
LEMMA BeginScope ==
    ASSUME NEW code, NEW b, NEW part, NEW after, NEW other, NEW left, NEW outer, NEW frames, NEW waits,
           BeginBlock(code, b, Scope(part, after, other, left), outer, frames, waits)
    PROVE  \E s : /\ scopes' = Append(outer, s)
                  /\ s.part = part /\ s.after = after /\ s.other = other /\ s.left = left
<1> DEFINE place == <<b, Len(code[b].insts) + 1>>
           s == [Scope(part, after, other, left) EXCEPT !.at = place]
<1>1. scopes' = Append(outer, s)
  BY DEF BeginBlock
<1>2. s.part = part /\ s.after = after /\ s.other = other /\ s.left = left
  BY DEF Scope
<1> HIDE DEF s
<1> QED
  BY <1>1, <1>2

LEMMA CaseScopes ==
    ASSUME NEW code, NEW chain, NEW merge, NEW left, NEW has_default \in BOOLEAN, NEW outer, NEW frames,
           NEW waits, BeginCase(code, chain, merge, left, has_default, outer, frames, waits)
    PROVE  \E s : /\ scopes' = Append(outer, s)
                  /\ s.part = (IF has_default THEN "case" ELSE "open") /\ s.left = left - 1
<1> DEFINE body == Len(code) + 1
           next == IF left = 1 THEN merge ELSE body + 1
           head == Seal(Grow(code, IF left = 1 THEN 1 ELSE 2), chain,
                        IF left = 1 /\ has_default THEN Jump(body) ELSE Branch("opaque", body, next))
           base == [head EXCEPT ![chain].nest = IF chain = current THEN @ ELSE InScopes(outer)]
           part == IF has_default THEN "case" ELSE "open"
           rest == left - 1
<1>1. BeginBlock(base, body, Scope(part, merge, next, rest), outer, frames, waits)
  BY DEF BeginCase
<1> HIDE DEF base, body, next, part, rest
<1>2. PICK s : /\ scopes' = Append(outer, s) /\ s.part = part /\ s.left = rest
  BY <1>1, BeginScope
<1> QED
  BY <1>2 DEF part, rest

(***************************************************************************)
(* What reading does to the two stacks.                                    *)
(***************************************************************************)
LEMMA PairedFacts ==
    ASSUME Paired, Lowers
    PROVE  /\ Len(scopes) \in Nat \ {0} /\ scopes \in Seq(ScopeRecords) /\ Len(open) = Len(scopes)
           /\ \A i \in 1..Len(scopes) : open[i] \in OpenRecords /\ Pairs(open[i], scopes[i], i)
           /\ Inner = open[Len(scopes)] /\ Last(scopes) = scopes[Len(scopes)]
           /\ Inner \in OpenRecords /\ Len(scopes) \in 1..Len(scopes)
           /\ Pairs(Inner, Last(scopes), Len(scopes)) /\ Last(scopes) \in ScopeRecords
<1>1. scopes # <<>>
  BY DEF Paired
<1>2. scopes \in Seq(ScopeRecords)
  BY <1>1, LoweredFacts DEF Lowers
<1>3. /\ Len(scopes) \in Nat \ {0} /\ Len(open) = Len(scopes) /\ open \in Seq(OpenRecords)
      /\ Len(scopes) \in 1..Len(scopes)
  BY DEF Paired
<1>4. \A i \in 1..Len(scopes) : open[i] \in OpenRecords /\ scopes[i] \in ScopeRecords
  BY <1>2, <1>3
<1>5. Inner = open[Len(scopes)] /\ Last(scopes) = scopes[Len(scopes)]
  BY <1>3 DEF Inner, Last
<1> QED
  BY <1>2, <1>3, <1>4, <1>5 DEF Paired

\* A statement leaves the construct it is in what it is.
Stays(ends, breaks) == Tops(Len(scopes), Noted(Inner, ends, breaks), Last(scopes))

LEMMA StatementStays ==
    ASSUME Paired, Lowers, ReadStatement
    PROVE  /\ ReadReturn \/ ReadReturnProp => Stays(TRUE, FALSE)
           /\ ReadBreak => Stays(FALSE, TRUE)
           /\ ~(ReadReturn \/ ReadReturnProp \/ ReadBreak) => open' = open
           /\ scopes' = scopes /\ proven' \in BOOLEAN
<1>1. scopes' = scopes
  BY DEF ReadStatement, ReadReturnProp, ReadProp, ReadAssert, ReadMust, ReadIndex,
         ReadDefer, ReadReturn, ReadBreak, ReadContinue, ReadSetNull, ReadSet, ReadDeref,
         ReadRead, ReadMove, ReadAssign, ReadUpdate, Skip, lowering, Plain, Return, ReturnProp,
         lowerOptionalProp, lowerTestAssert, lowerOptionalPayload, lowerIndex, BranchTo, Defer,
         Break, Continue, LeaveLoop
<1>2. ASSUME NEW ends \in BOOLEAN, NEW breaks \in BOOLEAN, open' = Note(open, ends, breaks)
      PROVE  Stays(ends, breaks)
  <2>1. open \in Seq(OpenRecords) /\ Len(open) = Len(scopes) /\ Len(open) > 0 /\ scopes # <<>>
    BY DEF Paired
  <2>2. /\ open' \in Seq(OpenRecords) /\ Len(open') = Len(scopes)
        /\ open'[Len(scopes)] = Noted(open[Len(scopes)], ends, breaks)
        /\ \A i \in 1..(Len(scopes) - 1) : open'[i] = open[i]
    BY <1>2, <2>1, NoteIs
  <2> QED
    BY <1>1, <2>1, <2>2, PairedFacts DEF Stays, Tops
<1>3. ReadReturn \/ ReadReturnProp => open' = Note(open, TRUE, FALSE)
  BY DEF ReadReturn, ReadReturnProp, CheckReturn
<1>4. ReadBreak => open' = Note(open, FALSE, TRUE)
  BY DEF ReadBreak, CheckBreak
<1>5. ~(ReadReturn \/ ReadReturnProp \/ ReadBreak) => open' = open
  BY DEF ReadStatement, ReadProp, ReadAssert, ReadMust, ReadIndex, ReadDefer, ReadContinue, ReadSetNull,
         ReadSet, ReadDeref, ReadRead, ReadMove, ReadAssign, ReadUpdate, CheckOther, checker, CheckWrite,
         CheckDeref, CheckRead, CheckMove, CheckAssign
<1>6. proven' = proven \/ proven' = FALSE
  BY DEF ReadStatement, ReadProp, ReadAssert, ReadMust, ReadIndex, ReadDefer, ReadContinue, ReadSetNull,
         ReadSet, ReadDeref, ReadRead, ReadMove, ReadAssign, ReadUpdate, CheckOther, checker, CheckWrite,
         CheckDeref, CheckRead, CheckMove, CheckAssign, ReadReturn, ReadReturnProp, CheckReturn, ReadBreak,
         CheckBreak
<1>7. proven' \in BOOLEAN
  BY <1>6 DEF Paired
<1> QED
  BY <1>1, <1>2, <1>3, <1>4, <1>5, <1>7

\* An opening pushes to both.
LEMMA Grows ==
    ASSUME Paired, Lowers, NEW e \in OpenRecords, NEW s, open' = Append(open, e), scopes' = Append(scopes, s)
    PROVE  Tops(Len(scopes) + 1, e, s)
<1>1. open \in Seq(OpenRecords) /\ Len(open) = Len(scopes)
  BY DEF Paired
<1>2. /\ open' \in Seq(OpenRecords) /\ Len(open') = Len(scopes) + 1 /\ open'[Len(scopes) + 1] = e
      /\ \A i \in 1..Len(scopes) : open'[i] = open[i]
  BY <1>1, AppendProperties
<1>3. /\ Len(scopes') = Len(scopes) + 1 /\ scopes'[Len(scopes) + 1] = s /\ scopes' # <<>>
      /\ \A i \in 1..Len(scopes) : scopes'[i] = scopes[i]
  BY PairedFacts, Appended
<1>4. Len(scopes) \in Nat /\ (Len(scopes) + 1) - 1 = Len(scopes)
  BY PairedFacts
<1> QED
  BY <1>2, <1>3, <1>4 DEF Tops

\* A next branch replaces the innermost of both, and the end of a construct pops it.
LEMMA Turns ==
    ASSUME Paired, Lowers, NEW e \in OpenRecords, NEW s,
           open' = Append(Front(open), e), scopes' = Append(Front(scopes), s)
    PROVE  Tops(Len(scopes), e, s)
<1>1. open \in Seq(OpenRecords) /\ Len(open) = Len(scopes) /\ Len(scopes) > 0 /\ Len(scopes) \in Nat
  BY DEF Paired
<1>2. scopes \in Seq(ScopeRecords)
  BY PairedFacts
<1>3. /\ Front(open) \in Seq(OpenRecords) /\ Len(Front(open)) = Len(scopes) - 1
      /\ Front(scopes) \in Seq(ScopeRecords) /\ Len(Front(scopes)) = Len(scopes) - 1
      /\ \A i \in 1..(Len(scopes) - 1) : Front(open)[i] = open[i] /\ Front(scopes)[i] = scopes[i]
  BY <1>1, <1>2, FrontIs
<1>4. (Len(scopes) - 1) + 1 = Len(scopes)
  BY <1>1
<1>5. /\ open' \in Seq(OpenRecords) /\ Len(open') = Len(scopes) /\ open'[Len(scopes)] = e
      /\ \A i \in 1..(Len(scopes) - 1) : open'[i] = Front(open)[i]
  BY <1>3, <1>4, AppendProperties
<1>6. /\ Len(scopes') = Len(scopes) /\ scopes'[Len(scopes)] = s /\ scopes' # <<>>
      /\ \A i \in 1..(Len(scopes) - 1) : scopes'[i] = Front(scopes)[i]
  BY <1>3, <1>4, Appended
<1> QED
  BY <1>3, <1>5, <1>6 DEF Tops

LEMMA Shrinks ==
    ASSUME Paired, Lowers, Len(scopes) > 1, NEW ends \in BOOLEAN, NEW breaks \in BOOLEAN,
           open' = Note(Front(open), ends, breaks), scopes' = Front(scopes)
    PROVE  Tops(Len(scopes) - 1, Noted(open[Len(scopes) - 1], ends, breaks), scopes[Len(scopes) - 1])
<1> DEFINE m == Len(scopes) - 1
<1>1. open \in Seq(OpenRecords) /\ Len(open) = Len(scopes) /\ Len(scopes) > 0 /\ m \in Nat /\ m > 0 /\ m \in 1..m
  BY DEF Paired
<1>2. scopes \in Seq(ScopeRecords)
  BY PairedFacts
<1>3. /\ Front(open) \in Seq(OpenRecords) /\ Len(Front(open)) = m
      /\ Front(scopes) \in Seq(ScopeRecords) /\ Len(Front(scopes)) = m
      /\ \A i \in 1..m : Front(open)[i] = open[i] /\ Front(scopes)[i] = scopes[i]
  BY <1>1, <1>2, FrontIs
<1> HIDE DEF m
<1>4. /\ open' \in Seq(OpenRecords) /\ Len(open') = m
      /\ open'[m] = Noted(Front(open)[m], ends, breaks)
      /\ \A i \in 1..(m - 1) : open'[i] = Front(open)[i]
  <2>1. PICK front : front = Front(open)
    OBVIOUS
  <2>2. front \in Seq(OpenRecords) /\ Len(front) = m /\ Len(front) > 0
    BY <1>1, <1>3, <2>1
  <2>3. open' = Note(front, ends, breaks)
    BY <2>1
  <2>4. /\ Note(front, ends, breaks) \in Seq(OpenRecords) /\ Len(Note(front, ends, breaks)) = Len(front)
        /\ Note(front, ends, breaks)[Len(front)] = Noted(front[Len(front)], ends, breaks)
        /\ \A i \in 1..(Len(front) - 1) : Note(front, ends, breaks)[i] = front[i]
    BY <2>2, NoteIs
  <2> QED
    BY <2>1, <2>2, <2>3, <2>4
<1>5. Len(scopes') = m /\ scopes' # <<>>
  <2>1. Len(<<>>) = 0
    OBVIOUS
  <2> QED
    BY <1>1, <1>3, <2>1
<1>6. /\ open'[m] = Noted(open[m], ends, breaks) /\ scopes'[m] = scopes[m]
      /\ \A i \in 1..(m - 1) : open'[i] = open[i] /\ scopes'[i] = scopes[i]
  <2>1. \A i \in 1..(m - 1) : i \in 1..m
    BY <1>1
  <2> QED
    BY <1>1, <1>3, <1>4, <2>1
<1> QED
  BY <1>4, <1>5, <1>6 DEF Tops, m

\* Each construct begins with what its checker and its lowering push.
LEMMA PushedBits == ASSUME Paired
                    PROVE  proven \in BOOLEAN /\ NoBranches \in Answers
  BY NoBranchesIs DEF Paired

LEMMA BlockGrows ==
    ASSUME Paired, Lowers, OpenBlock, CheckBlock
    PROVE  \E s : /\ Tops(Len(scopes) + 1, Opened("block", "opaque", FALSE, proven, NoBranches), s)
                  /\ s.part = "block"
<1> DEFINE e == Opened("block", "opaque", FALSE, proven, NoBranches)
<1>1. e \in OpenRecords
  <2>1. "block" \in OpenParts /\ "opaque" \in Conds \cup {"default"} /\ FALSE \in BOOLEAN
    BY DEF OpenParts, Conds
  <2> QED
    BY <2>1, PushedBits DEF Opened, OpenRecords
<1>2. open' = Append(open, e)
  BY DEF CheckBlock
<1> HIDE DEF e
<1>3. PICK s : scopes' = Append(scopes, s) /\ s.part = "block"
  BY BeginScope DEF OpenBlock
<1>4. Tops(Len(scopes) + 1, e, s)
  BY <1>1, <1>2, <1>3, Grows
<1> QED
  BY <1>3, <1>4 DEF e

LEMMA IfGrows ==
    ASSUME Paired, Lowers, NEW cond \in Conds, NEW other \in {"none", "else", "elif"},
           lowerIf(cond, other), inferIf(cond, other # "none")
    PROVE  \E s : /\ Tops(Len(scopes) + 1, Opened("then", cond, other # "none", proven, NoBranches), s)
                  /\ s.part = "then" /\ (other # "none" <=> s.other # 0)
                  /\ s.left = IF other = "elif" THEN 1 ELSE 0
<1> DEFINE e == Opened("then", cond, other # "none", proven, NoBranches)
           more == IF other = "none" THEN 0 ELSE Len(blocks) + 2
           left == IF other = "elif" THEN 1 ELSE 0
           merge == Len(blocks) + 3
           then == Len(blocks) + 1
           code == Seal(Grow(blocks, 3), current,
                        Branch(cond, then, IF other = "none" THEN merge ELSE Len(blocks) + 2))
<1>1. e \in OpenRecords
  <2>1. "then" \in OpenParts /\ cond \in Conds \cup {"default"} /\ (other # "none") \in BOOLEAN
    BY DEF OpenParts
  <2> QED
    BY <2>1, PushedBits DEF Opened, OpenRecords
<1>2. open' = Append(open, e)
  BY DEF inferIf
<1>3. BeginBlock(code, then, Scope("then", merge, more, left), scopes, cleanups, pending)
  BY DEF lowerIf
<1>4. other # "none" <=> more # 0
  <2>1. Len(blocks) \in Nat
    BY LoweredFacts DEF Lowers, Paired
  <2> QED
    BY <2>1
<1> HIDE DEF e, code, then, more, left, merge
<1>5. PICK s : scopes' = Append(scopes, s) /\ s.part = "then" /\ s.other = more /\ s.left = left
  BY <1>3, BeginScope
<1>6. Tops(Len(scopes) + 1, e, s)
  BY <1>1, <1>2, <1>5, Grows
<1> QED
  BY <1>4, <1>5, <1>6 DEF e, left

LEMMA LoopGrows ==
    ASSUME Paired, Lowers, NEW cond \in Conds, NEW has_step, lowerLoop(cond, has_step),
           NEW part \in {"loop", "forin"}, open' = Append(open, Opened(part, cond, FALSE, proven, NoBranches))
    PROVE  \E s : /\ Tops(Len(scopes) + 1, Opened(part, cond, FALSE, proven, NoBranches), s)
                  /\ s.part = "loop"
<1> DEFINE e == Opened(part, cond, FALSE, proven, NoBranches)
<1>1. e \in OpenRecords
  <2>1. part \in OpenParts /\ cond \in Conds \cup {"default"} /\ FALSE \in BOOLEAN
    BY DEF OpenParts
  <2> QED
    BY <2>1, PushedBits DEF Opened, OpenRecords
<1> HIDE DEF e
<1>2. PICK code, body, exit, back :
        BeginBlock(code, body, Scope("loop", exit, back, 0), scopes, cleanups, pending)
  BY DEF lowerLoop
<1>3. PICK s : scopes' = Append(scopes, s) /\ s.part = "loop"
  BY <1>2, BeginScope
<1>4. Tops(Len(scopes) + 1, e, s)
  BY <1>1, <1>3, Grows DEF e
<1> QED
  BY <1>3, <1>4 DEF e

LEMMA WhenGrows ==
    ASSUME Paired, Lowers, NEW cases \in Nat \ {0}, NEW has_default \in BOOLEAN,
           lowerWhen(cases, has_default), inferWhen(cases, has_default)
    PROVE  LET cond == IF has_default THEN "default" ELSE "opaque" IN
           \E s : /\ Tops(Len(scopes) + 1, Opened("case", cond, cases > 1, proven, NoBranches), s)
                  /\ s.part = (IF has_default THEN "case" ELSE "open") /\ s.left = cases - 1
<1> DEFINE cond == IF has_default THEN "default" ELSE "opaque"
           e == Opened("case", cond, cases > 1, proven, NoBranches)
<1>1. e \in OpenRecords
  <2>1. "case" \in OpenParts /\ cond \in Conds \cup {"default"} /\ (cases > 1) \in BOOLEAN
    BY DEF Conds, OpenParts
  <2> HIDE DEF cond
  <2> QED
    BY <2>1, PushedBits DEF Opened, OpenRecords
<1>2. open' = Append(open, e)
  BY DEF inferWhen
<1> HIDE DEF e, cond
<1>3. PICK code : BeginCase(code, current, Len(blocks) + 1, cases, has_default, scopes, cleanups, pending)
  BY DEF lowerWhen
<1>4. PICK s : /\ scopes' = Append(scopes, s)
               /\ s.part = (IF has_default THEN "case" ELSE "open") /\ s.left = cases - 1
  BY <1>3, CaseScopes
<1>5. Tops(Len(scopes) + 1, e, s)
  BY <1>1, <1>2, <1>4, Grows
<1> QED
  BY <1>4, <1>5 DEF e, cond

\* What was opened pairs with its scope, from then on and in the primed state.
LEMMA GrownPaired ==
    ASSUME Paired, Lowers, NEW e \in OpenRecords, NEW s, Tops(Len(scopes) + 1, e, s),
           \A i \in Nat : i > 1 => Pairs(e, s, i), proven' \in BOOLEAN
    PROVE  Paired'
<1>1. Len(scopes) + 1 \in 1..(Len(scopes) + 1) /\ Len(scopes) + 1 \in Nat /\ Len(scopes) + 1 > 1
  BY PairedFacts
<1> QED
  BY <1>1, StaysPaired

LEMMA OpeningPaired == ASSUME Paired, Lowers, ReadOpening
                       PROVE  Paired'
<1>1. CASE ReadBlock
  <2> DEFINE e == Opened("block", "opaque", FALSE, proven, NoBranches)
  <2>1. PICK s : Tops(Len(scopes) + 1, e, s) /\ s.part = "block"
    BY <1>1, BlockGrows DEF ReadBlock
  <2>2. e \in OpenRecords /\ e.part = "block" /\ ~e.has_more /\ e.others = NoBranches
    <3>1. "block" \in OpenParts /\ "opaque" \in Conds \cup {"default"} /\ FALSE \in BOOLEAN
      BY DEF OpenParts, Conds
    <3> QED
      BY <3>1, PushedBits DEF Opened, OpenRecords
  <2> HIDE DEF e
  <2>3. \A i \in Nat : i > 1 => Pairs(e, s, i)
    BY <2>1, <2>2 DEF Pairs
  <2>4. proven' \in BOOLEAN
    BY <1>1 DEF ReadBlock, CheckBlock, Paired
  <2> QED
    BY <2>1, <2>2, <2>3, <2>4, GrownPaired
<1>2. CASE ReadIf
  <2>1. PICK cond \in Conditions, other \in {"none", "else"} \cup ({"elif"} \cap Kinds) :
          lowerIf(cond, other) /\ inferIf(cond, other # "none")
    BY <1>2 DEF ReadIf
  <2>2. cond \in Conds /\ other \in {"none", "else", "elif"}
    BY DEF Conditions, Conds
  <2> DEFINE e == Opened("then", cond, other # "none", proven, NoBranches)
  <2>3. PICK s : /\ Tops(Len(scopes) + 1, e, s) /\ s.part = "then" /\ (other # "none" <=> s.other # 0)
                 /\ s.left = IF other = "elif" THEN 1 ELSE 0
    BY <2>1, <2>2, IfGrows
  <2>4. /\ e \in OpenRecords /\ e.part = "then" /\ (e.has_more <=> other # "none")
        /\ e.others = NoBranches
    <3>1. "then" \in OpenParts /\ cond \in Conds \cup {"default"} /\ (other # "none") \in BOOLEAN
      BY <2>2 DEF OpenParts
    <3> QED
      BY <3>1, PushedBits DEF Opened, OpenRecords
  <2> HIDE DEF e
  <2>5. \A i \in Nat : i > 1 => Pairs(e, s, i)
    BY <2>2, <2>3, <2>4 DEF Pairs
  <2>6. proven' \in BOOLEAN
    BY <2>1 DEF inferIf, Paired
  <2> QED
    BY <2>3, <2>4, <2>5, <2>6, GrownPaired
<1>3. ASSUME NEW cond \in Conds, NEW has_step, lowerLoop(cond, has_step),
             NEW part \in {"loop", "forin"}, open' = Append(open, Opened(part, cond, FALSE, proven, NoBranches)),
             proven' \in BOOLEAN
      PROVE  Paired'
  <2> DEFINE e == Opened(part, cond, FALSE, proven, NoBranches)
  <2>1. PICK s : Tops(Len(scopes) + 1, e, s) /\ s.part = "loop"
    BY <1>3, LoopGrows
  <2>2. e \in OpenRecords /\ e.part = part /\ ~e.has_more /\ e.others = NoBranches
    <3>1. part \in OpenParts /\ cond \in Conds \cup {"default"} /\ FALSE \in BOOLEAN
      BY DEF OpenParts
    <3> QED
      BY <3>1, PushedBits DEF Opened, OpenRecords
  <2> HIDE DEF e
  <2>3. \A i \in Nat : i > 1 => Pairs(e, s, i)
    BY <2>1, <2>2 DEF Pairs
  <2> QED
    BY <1>3, <2>1, <2>2, <2>3, GrownPaired
<1>4. CASE ReadWhile \/ ReadFor
  <2>1. PICK cond \in LoopConditions, has_step \in BOOLEAN : lowerLoop(cond, has_step) /\ inferLoop(cond)
    BY <1>4 DEF ReadWhile, ReadFor, lowerWhile, lowerFor
  <2>2. cond \in Conds
    BY DEF LoopConditions, Conditions, Conds
  <2>3. open' = Append(open, Opened("loop", cond, FALSE, proven, NoBranches)) /\ proven' \in BOOLEAN
    BY <2>1 DEF inferLoop, Paired
  <2> QED
    BY <1>3, <2>1, <2>2, <2>3
<1>5. CASE ReadForIn
  <2>1. PICK range \in BOOLEAN : lowerLoop("opaque", range) /\ inferForIn
    BY <1>5 DEF ReadForIn, lowerForIn
  <2>2. "opaque" \in Conds
    BY DEF Conds
  <2>3. open' = Append(open, Opened("forin", "opaque", FALSE, proven, NoBranches)) /\ proven' \in BOOLEAN
    BY <2>1 DEF inferForIn, Paired
  <2> QED
    BY <1>3, <2>1, <2>2, <2>3
<1>6. CASE ReadWhen
  <2>1. PICK cases \in 1..2, has_default \in BOOLEAN :
          lowerWhen(cases, has_default) /\ inferWhen(cases, has_default)
    BY <1>6 DEF ReadWhen
  <2>2. cases \in Nat \ {0}
    OBVIOUS
  <2>3. PICK cond : cond = IF has_default THEN "default" ELSE "opaque"
    OBVIOUS
  <2> DEFINE e == Opened("case", cond, cases > 1, proven, NoBranches)
  <2>4. PICK s : /\ Tops(Len(scopes) + 1, e, s)
                 /\ s.part = (IF has_default THEN "case" ELSE "open") /\ s.left = cases - 1
    BY <2>1, <2>2, <2>3, WhenGrows
  <2>5. /\ e \in OpenRecords /\ e.part = "case" /\ (e.has_more <=> cases > 1) /\ e.cond = cond
        /\ e.others = NoBranches
    <3>1. "case" \in OpenParts /\ cond \in Conds \cup {"default"} /\ (cases > 1) \in BOOLEAN
      BY <2>3 DEF Conds, OpenParts
    <3> QED
      BY <3>1, PushedBits DEF Opened, OpenRecords
  <2> HIDE DEF e
  <2>6. cases > 1 <=> s.left > 0
    BY <2>2, <2>4
  <2>7. \A i \in Nat : i > 1 => Pairs(e, s, i)
    BY <2>3, <2>4, <2>5, <2>6 DEF Pairs
  <2>8. proven' \in BOOLEAN
    BY <2>1 DEF inferWhen, Paired
  <2> QED
    BY <2>4, <2>5, <2>7, <2>8, GrownPaired
<1> QED
  BY <1>1, <1>2, <1>4, <1>5, <1>6 DEF ReadOpening

(***************************************************************************)
(* The closing brace, of both.                                             *)
(***************************************************************************)
\* The construct that closes, as ReadClose finds it.
LEMMA ClosingFacts ==
    ASSUME Paired, Lowers, ReadClose
    PROVE  /\ Len(scopes) > 1 /\ Len(scopes) - 1 \in 1..Len(scopes) /\ Last(scopes).left \in Nat
           /\ Last(scopes).part \notin {"body"} /\ Inner.part # "body" /\ CloseBlock
           /\ Inner.has_more <=> ~Concludes(Last(scopes))
           /\ Last(scopes).part \in {"else", "elif", "loop"} => Last(scopes).left = 0
<1> DEFINE n == Len(scopes)
           s == Last(scopes)
           e == Inner
<1>1. n \in Nat \ {0} /\ Pairs(e, s, n) /\ s \in ScopeRecords /\ e \in OpenRecords /\ s = scopes[n] /\ n \in 1..n
  BY PairedFacts
<1>2. CloseBlock /\ s.part # "body"
  BY DEF ReadClose, CloseBlock
<1>3. PICK want, live, base : Lowered(want, live, base)
  BY DEF Lowers
<1>4. Shape(blocks, s)
  <2>1. scopes # <<>>
    BY DEF Paired
  <2> QED
    BY <1>1, <1>3, <2>1, ScopeFacts
<1> HIDE DEF n, s, e
<1>5. n # 1 /\ e.part # "body"
  BY <1>1, <1>2 DEF Pairs
<1>6. n > 1 /\ n - 1 \in 1..n
  BY <1>1, <1>5
<1>7. s.left \in Nat
  BY <1>1 DEF ScopeRecords
<1>8. s.part \in {"else", "elif", "loop"} => s.left = 0
  BY <1>4, <1>7 DEF Shape
<1>9. s.part \in Parts /\ e.part \in OpenParts /\ e.has_more \in BOOLEAN
  BY <1>1 DEF ScopeRecords, OpenRecords
<1>10. e.has_more <=> ~Concludes(s)
  <2>1. CASE s.part = "block"
    BY <1>1, <1>9, <2>1 DEF Pairs, Concludes
  <2>2. CASE s.part = "then"
    BY <1>1, <1>7, <1>9, <2>2 DEF Pairs, Concludes
  <2>3. CASE s.part \in {"case", "open"}
    BY <1>1, <1>7, <1>9, <2>3 DEF Pairs, Concludes
  <2>4. CASE s.part \in {"else", "elif", "loop"}
    BY <1>1, <1>8, <1>9, <2>4 DEF Pairs, Concludes
  <2> QED
    BY <1>2, <1>9, <2>1, <2>2, <2>3, <2>4 DEF Parts
<1> QED
  BY <1>2, <1>5, <1>6, <1>7, <1>8, <1>10 DEF n, s, e

LEMMA SofarIs ==
    ASSUME NEW e \in OpenRecords
    PROVE  /\ Sofar(e) \in Answers
           /\ Sofar(e).ends <=> e.ends /\ e.others.ends
           /\ Sofar(e).breaks <=> e.breaks \/ e.others.breaks
  BY DEF OpenRecords, Answers, Sofar, exprContainsBreak

\* The scope of the next branch.
Follows2(s2, s) ==
  \/ s.part = "then" /\ s.left = 0 /\ s2.part = "else"
  \/ s.part = "then" /\ s.left = 1 /\ s2.part = "elif"
  \/ s.part \in {"case", "open"} /\ s.left > 0 /\ s2.part = s.part /\ s2.left = s.left - 1

LEMMA CloseTurns ==
    ASSUME Paired, Lowers, ReadClose, Inner.has_more
    PROVE  \E e, s : /\ Tops(Len(scopes), e, s) /\ Follows2(s, Last(scopes))
                     /\ Inner.part = "then" <=> Last(scopes).part = "then"
                     /\ e \in OpenRecords /\ e.part = (IF Inner.part = "then" THEN "else" ELSE "case")
                     /\ e.cond = Inner.cond /\ (e.has_more <=> Last(scopes).left > 1)
                     /\ (e.was <=> Inner.was) /\ e.others = Sofar(Inner) /\ ~e.ends /\ ~e.breaks
                     /\ proven' = IF Narrows(Inner.cond) THEN Inner.cond = "isnull" ELSE proven
<1> DEFINE n == Len(scopes)
           t == Last(scopes)
           part == IF Inner.part = "then" THEN "else" ELSE "case"
           more == t.left > 1
           e == Opened(part, Inner.cond, more, Inner.was, Sofar(Inner))
           around == Front(scopes)
<1>1. NextBranch(part, more)
  BY DEF ReadClose
<1>2. /\ open' = Append(Front(open), e)
      /\ proven' = IF Narrows(Inner.cond) THEN Inner.cond = "isnull" ELSE proven
  BY <1>1 DEF NextBranch
<1>3. Inner \in OpenRecords /\ Pairs(Inner, t, n) /\ t.left \in Nat /\ t.part # "body" /\ CloseBlock
  BY PairedFacts, ClosingFacts
<1>4. Sofar(Inner) \in Answers
  BY <1>3, SofarIs
<1>5. /\ e \in OpenRecords /\ e.part = part /\ e.cond = Inner.cond /\ (e.has_more <=> more)
      /\ (e.was <=> Inner.was) /\ e.others = Sofar(Inner) /\ ~e.ends /\ ~e.breaks
  <2>1. part \in OpenParts /\ more \in BOOLEAN
    BY DEF OpenParts
  <2> HIDE DEF part, more
  <2> QED
    BY <1>3, <1>4, <2>1 DEF Opened, OpenRecords
<1>6. ~Concludes(t)
  BY ClosingFacts
<1>7. PICK code, frames, waits :
        \/ /\ t.part = "then" /\ t.other # 0 /\ t.left = 0
           /\ BeginBlock(code, t.other, Scope("else", t.after, 0, 0), around, frames, waits)
        \/ /\ t.part = "then" /\ t.left > 0
           /\ BeginElseIf(code, t, around, frames, waits)
        \/ /\ t.part \in {"case", "open"} /\ t.left > 0
           /\ BeginCase(code, t.other, t.after, t.left, t.part = "case", around, frames, waits)
  BY <1>3, <1>6 DEF CloseBlock, Concludes
<1>8. PICK s : scopes' = Append(around, s) /\ Follows2(s, t)
  <2>1. CASE /\ t.part = "then" /\ t.other # 0 /\ t.left = 0
             /\ BeginBlock(code, t.other, Scope("else", t.after, 0, 0), around, frames, waits)
    <3>1. PICK s : scopes' = Append(around, s) /\ s.part = "else"
      BY <2>1, BeginScope
    <3> QED
      BY <2>1, <3>1 DEF Follows2
  <2>2. CASE t.part = "then" /\ t.left > 0 /\ BeginElseIf(code, t, around, frames, waits)
    <3> DEFINE s == Scope("elif", t.after, 0, 0)
    <3>1. scopes' = Append(around, s) /\ s.part = "elif"
      BY <2>2 DEF BeginElseIf, Scope
    <3>2. t.left = 1
      BY <1>3, <2>2 DEF Pairs
    <3> HIDE DEF s
    <3> QED
      BY <2>2, <3>1, <3>2 DEF Follows2
  <2>3. CASE /\ t.part \in {"case", "open"} /\ t.left > 0
             /\ BeginCase(code, t.other, t.after, t.left, t.part = "case", around, frames, waits)
    <3>1. PICK default \in BOOLEAN : default = (t.part = "case")
      OBVIOUS
    <3>2. BeginCase(code, t.other, t.after, t.left, default, around, frames, waits)
      BY <2>3, <3>1
    <3>4. PICK from, to, more2, outside :
            from = t.other /\ to = t.after /\ more2 = t.left /\ outside = around
      OBVIOUS
    <3>5. BeginCase(code, from, to, more2, default, outside, frames, waits)
      BY <3>2, <3>4
    <3>6. PICK s : /\ scopes' = Append(outside, s)
                   /\ s.part = (IF default THEN "case" ELSE "open") /\ s.left = more2 - 1
      BY <3>5, CaseScopes
    <3>3. /\ scopes' = Append(around, s)
          /\ s.part = (IF default THEN "case" ELSE "open") /\ s.left = t.left - 1
      BY <3>4, <3>6
    <3> QED
      BY <2>3, <3>1, <3>3 DEF Follows2
  <2> QED
    BY <1>7, <2>1, <2>2, <2>3
<1> HIDE DEF part, more, e, around, t, n
<1>9. Tops(n, e, s)
  BY <1>2, <1>5, <1>8, Turns DEF around, n
<1>10. Inner.part = "then" <=> t.part = "then"
  BY <1>3 DEF Pairs
<1> QED
  BY <1>2, <1>5, <1>8, <1>9, <1>10 DEF part, more, t, n

LEMMA TerminatesIs ==
    ASSUME NEW e \in OpenRecords, e.part # "body"
    PROVE  exprAlwaysTerminates(e) \in BOOLEAN /\ exprContainsBreak(e) \in BOOLEAN
  BY DEF OpenRecords, OpenParts, exprAlwaysTerminates, exprContainsBreak

LEMMA CloseShrinks ==
    ASSUME Paired, Lowers, ReadClose, ~Inner.has_more
    PROVE  /\ Tops(Len(scopes) - 1,
                   Noted(open[Len(scopes) - 1], exprAlwaysTerminates(Inner), exprContainsBreak(Inner)),
                   scopes[Len(scopes) - 1])
           /\ exprAlwaysTerminates(Inner) \in BOOLEAN /\ exprContainsBreak(Inner) \in BOOLEAN
           /\ EndConstruct
<1>1. /\ Inner \in OpenRecords /\ Inner.part # "body" /\ Len(scopes) > 1
      /\ CloseBlock /\ Concludes(Last(scopes))
  BY PairedFacts, ClosingFacts
<1>2. exprAlwaysTerminates(Inner) \in BOOLEAN /\ exprContainsBreak(Inner) \in BOOLEAN
  BY <1>1, TerminatesIs
<1>3. EndConstruct
  BY DEF ReadClose
<1>4. scopes' = Front(scopes)
  <2>1. Last(scopes).left \in Nat
    BY ClosingFacts
  <2> QED
    BY <1>1, <2>1 DEF CloseBlock, Concludes
<1>5. PICK ends \in BOOLEAN, breaks \in BOOLEAN :
        ends = exprAlwaysTerminates(Inner) /\ breaks = exprContainsBreak(Inner)
  BY <1>2
<1>6. open' = Note(Front(open), ends, breaks)
  BY <1>3, <1>5 DEF EndConstruct
<1>7. Tops(Len(scopes) - 1, Noted(open[Len(scopes) - 1], ends, breaks), scopes[Len(scopes) - 1])
  BY <1>1, <1>4, <1>6, Shrinks
<1> QED
  BY <1>2, <1>3, <1>5, <1>7

LEMMA ReadPaired == ASSUME Paired, Lowers, ReadStatement \/ ReadOpening \/ ReadClose
                    PROVE  Paired'
<1>1. /\ Len(scopes) \in Nat \ {0} /\ Len(scopes) \in 1..(Len(scopes) + 1)
      /\ Inner \in OpenRecords /\ Pairs(Inner, Last(scopes), Len(scopes))
  BY PairedFacts
<1>2. CASE ReadStatement
  <2>1. CASE ReadReturn \/ ReadReturnProp \/ ReadBreak
    <3>1. PICK ends \in BOOLEAN, breaks \in BOOLEAN : Stays(ends, breaks)
      BY <1>2, <2>1, StatementStays
    <3>2. PICK e : e = Noted(Inner, ends, breaks)
      OBVIOUS
    <3>3. e \in OpenRecords /\ Pairs(e, Last(scopes), Len(scopes))
      BY <1>1, <3>2, NotedIs, LikePairs DEF Like
    <3>4. Tops(Len(scopes), e, Last(scopes))
      BY <3>1, <3>2 DEF Stays
    <3> QED
      BY <1>1, <1>2, <3>3, <3>4, StatementStays, StaysPaired
  <2>2. CASE ~(ReadReturn \/ ReadReturnProp \/ ReadBreak)
    <3>1. open' = open /\ scopes' = scopes /\ proven' \in BOOLEAN
      BY <1>2, <2>2, StatementStays
    <3> QED
      BY <3>1 DEF Paired
  <2> QED
    BY <2>1, <2>2
<1>3. CASE ReadOpening
  BY <1>3, OpeningPaired
<1>4. CASE ReadClose /\ Inner.has_more
  <2>1. PICK e, s : /\ Tops(Len(scopes), e, s) /\ Follows2(s, Last(scopes))
                    /\ e \in OpenRecords /\ e.part = (IF Inner.part = "then" THEN "else" ELSE "case")
                    /\ e.cond = Inner.cond /\ (e.has_more <=> Last(scopes).left > 1)
                    /\ proven' = IF Narrows(Inner.cond) THEN Inner.cond = "isnull" ELSE proven
    BY <1>4, CloseTurns
  <2>2. Len(scopes) > 1 /\ Last(scopes).left \in Nat
    BY <1>4, ClosingFacts
  <2>3. Pairs(e, s, Len(scopes))
    <3>2. PICK n, t : n = Len(scopes) /\ t = Last(scopes)
      OBVIOUS
    <3>1. n \in Nat /\ n > 1
      BY <1>1, <2>2, <3>2
    <3>3. n # 1 /\ Follows2(s, t) /\ Pairs(Inner, t, n) /\ t.left \in Nat /\ (e.has_more <=> t.left > 1)
      <4>1. n # 1
        BY <3>1
      <4> QED
        BY <1>1, <2>1, <2>2, <3>2, <4>1, Zenon
    <3>4. CASE t.part = "then"
      <4>1. e.part = "else" /\ s.part \in {"else", "elif"} /\ ~e.has_more
        BY <2>1, <3>3, <3>4 DEF Follows2, Pairs
      <4> QED
        BY <3>2, <3>3, <4>1 DEF Pairs
    <3>5. CASE t.part \in {"case", "open"}
      <4>1. e.part = "case" /\ s.part = t.part /\ (e.has_more <=> s.left > 0)
        BY <2>1, <3>3, <3>5 DEF Follows2, Pairs
      <4> QED
        BY <2>1, <3>2, <3>3, <3>5, <4>1 DEF Pairs
    <3> QED
      BY <3>3, <3>4, <3>5 DEF Follows2
  <2>4. proven' \in BOOLEAN
    BY <2>1 DEF Paired
  <2> QED
    BY <1>1, <2>1, <2>3, <2>4, StaysPaired
<1>5. CASE ReadClose /\ ~Inner.has_more
  <2>1. PICK ends \in BOOLEAN, breaks \in BOOLEAN :
          Tops(Len(scopes) - 1, Noted(open[Len(scopes) - 1], ends, breaks), scopes[Len(scopes) - 1])
    BY <1>5, CloseShrinks
  <2>2. EndConstruct /\ Len(scopes) - 1 \in 1..Len(scopes)
    BY <1>5, CloseShrinks, ClosingFacts
  <2>3. PICK m, old, s, e : /\ m = Len(scopes) - 1 /\ old = open[m] /\ s = scopes[m]
                            /\ e = Noted(old, ends, breaks)
    OBVIOUS
  <2>4. old \in OpenRecords /\ Pairs(old, s, m)
    BY <2>2, <2>3, PairedFacts
  <2>5. e \in OpenRecords /\ Pairs(e, s, m)
    BY <2>3, <2>4, NotedIs, LikePairs DEF Like
  <2>6. proven' \in BOOLEAN
    <3>1. proven \in BOOLEAN /\ Inner.was \in BOOLEAN
      BY <1>1 DEF Paired, OpenRecords
    <3>2. (Inner.was \/ KeepsProof(Inner)) \in BOOLEAN
      OBVIOUS
    <3> QED
      BY <2>2, <3>1, <3>2 DEF EndConstruct
  <2>7. m \in 1..(Len(scopes) + 1)
    BY <1>1, <2>2, <2>3
  <2>8. Tops(m, e, s)
    BY <2>1, <2>3
  <2> QED
    BY <2>5, <2>6, <2>7, <2>8, StaysPaired
<1> QED
  BY <1>2, <1>3, <1>4, <1>5

(***************************************************************************)
(* Where control does not come behind a construct that is open.            *)
(***************************************************************************)
\* An endless loop that has no break so far.
Endless(o, i) ==
  o[i].part = "loop" /\ o[i].cond = "true" /\ \A k \in i..Len(o) : ~exprContainsBreak(o[k])
\* Control comes behind the construct only out of the branch that is read, or
\* out of those that follow.
Shut(o, scs, i) ==
  \/ o[i].part = "then" /\ o[i].has_more
  \/ scs[i].part = "else" /\ o[i].others.ends
  \/ o[i].part = "case" /\ o[i].cond = "default" /\ o[i].others.ends
  \/ Endless(o, i)
\* Of the innermost.
ShutBy(e, s) ==
  \/ e.part = "then" /\ e.has_more
  \/ s.part = "else" /\ e.others.ends
  \/ e.part = "case" /\ e.cond = "default" /\ e.others.ends
  \/ e.part = "loop" /\ e.cond = "true" /\ ~exprContainsBreak(e)

\* A step of both stacks: a break in what was read counts.
Steps(m, e, s) ==
  Tops(m, e, s) /\ (~exprContainsBreak(e) => \A k \in m..Len(scopes) : ~exprContainsBreak(open[k]))

LEMMA ShutTops ==
    ASSUME Paired, Lowers, NEW m \in 1..(Len(scopes) + 1), NEW e, NEW s, Steps(m, e, s)
    PROVE  /\ \A i \in 1..(m - 1) : Shut(open', scopes', i) => Shut(open, scopes, i)
           /\ m <= Len(scopes) /\ Like(e, open[m]) /\ s = scopes[m] =>
                (Shut(open', scopes', m) => Shut(open, scopes, m))
           /\ Shut(open', scopes', m) <=> ShutBy(e, s)
<1> DEFINE n == Len(scopes)
<1>1. n \in Nat \ {0} /\ Len(open) = n /\ m \in Nat \ {0}
  BY PairedFacts
<1> PICK o, scs, o2, scs2 : o = open /\ scs = scopes /\ o2 = open' /\ scs2 = scopes'
  OBVIOUS
<1>2. /\ Len(o2) = m /\ o2[m] = e /\ scs2[m] = s /\ Len(o) = n
      /\ \A i \in 1..(m - 1) : o2[i] = o[i] /\ scs2[i] = scs[i]
      /\ ~exprContainsBreak(e) => \A k \in m..n : ~exprContainsBreak(o[k])
  BY <1>1 DEF Steps, Tops
<1>3. m \in 1..m /\ m \in 1..(n + 1) /\ \A i \in 1..(m - 1) : i \in 1..m /\ i \in 1..n
  BY <1>1
<1> HIDE DEF n
<1>4. ASSUME NEW i \in 1..m, i \in 1..n, Endless(o2, i), o2[i].part = o[i].part, o2[i].cond = o[i].cond
      PROVE  Endless(o, i)
  <2>1. ~exprContainsBreak(e)
    <3>1. m \in i..m
      BY <1>1
    <3> QED
      BY <1>2, <1>4, <3>1 DEF Endless
  <2>2. ASSUME NEW k \in i..n
        PROVE  ~exprContainsBreak(o[k])
    <3>1. CASE k \in m..n
      BY <1>2, <2>1, <3>1
    <3>2. CASE k \notin m..n
      <4>1. k \in 1..(m - 1) /\ k \in i..m
        BY <1>1, <1>4, <3>2
      <4> QED
        BY <1>2, <1>4, <4>1 DEF Endless
    <3> QED
      BY <3>1, <3>2
  <2> QED
    BY <1>2, <1>4, <2>2 DEF Endless
<1>5. ASSUME NEW i \in 1..(m - 1), Shut(o2, scs2, i)
      PROVE  Shut(o, scs, i)
  BY <1>2, <1>3, <1>4, <1>5 DEF Shut
<1>6. ASSUME m <= n, Like(e, o[m]), s = scs[m], Shut(o2, scs2, m)
      PROVE  Shut(o, scs, m)
  <2>1. m \in 1..n
    BY <1>1, <1>6
  <2>2. /\ scs2[m].part = scs[m].part
        /\ o2[m].part = o[m].part /\ o2[m].cond = o[m].cond /\ o2[m].has_more = o[m].has_more
        /\ o2[m].others = o[m].others
    BY <1>2, <1>6 DEF Like
  <2> QED
    BY <1>3, <1>4, <1>6, <2>1, <2>2 DEF Shut
<1>7. Shut(o2, scs2, m) <=> ShutBy(e, s)
  <2>1. \A k : k \in m..m <=> k = m
    BY <1>1
  <2>2. Endless(o2, m) <=> e.part = "loop" /\ e.cond = "true" /\ ~exprContainsBreak(e)
    BY <1>2, <2>1 DEF Endless
  <2> QED
    BY <1>2, <2>2 DEF Shut, ShutBy
<1> QED
  BY <1>5, <1>6, <1>7 DEF n

\* The steps that reading takes.
LEMMA StaySteps ==
    ASSUME Paired, Lowers, NEW ends \in BOOLEAN, NEW breaks \in BOOLEAN, Stays(ends, breaks)
    PROVE  LET e == Noted(Inner, ends, breaks) IN
           /\ Steps(Len(scopes), e, Last(scopes)) /\ Like(e, open[Len(scopes)])
           /\ e.ends <=> open[Len(scopes)].ends \/ ends
           /\ e.breaks <=> open[Len(scopes)].breaks \/ breaks
<1> PICK n, e : n = Len(scopes) /\ e = Noted(Inner, ends, breaks)
  OBVIOUS
<1>1. n \in Nat \ {0} /\ Inner = open[n] /\ Inner \in OpenRecords /\ \A k : k \in n..n <=> k = n
  BY PairedFacts
<1>2. Like(e, Inner) /\ (e.ends <=> Inner.ends \/ ends) /\ (e.breaks <=> Inner.breaks \/ breaks)
  BY <1>1, NotedIs
<1>3. ~exprContainsBreak(e) => \A k \in n..n : ~exprContainsBreak(open[k])
  BY <1>1, <1>2 DEF exprContainsBreak, Like
<1> QED
  BY <1>1, <1>2, <1>3 DEF Steps, Stays

LEMMA OpenSteps ==
    ASSUME Paired, Lowers, NEW e, NEW s, Tops(Len(scopes) + 1, e, s)
    PROVE  Steps(Len(scopes) + 1, e, s)
<1>1. Len(scopes) \in Nat
  BY PairedFacts
<1>2. \A k : k \notin (Len(scopes) + 1)..Len(scopes)
  BY <1>1
<1> QED
  BY <1>2 DEF Steps

LEMMA TurnSteps ==
    ASSUME Paired, Lowers, NEW e, NEW s, Tops(Len(scopes), e, s), e.others = Sofar(Inner)
    PROVE  Steps(Len(scopes), e, s)
<1> PICK n : n = Len(scopes)
  OBVIOUS
<1>1. n \in Nat \ {0} /\ Inner = open[n] /\ Inner \in OpenRecords /\ \A k : k \in n..n <=> k = n
  BY PairedFacts
<1>2. Sofar(Inner).breaks <=> Inner.breaks \/ Inner.others.breaks
  BY <1>1, SofarIs
<1>3. ~exprContainsBreak(e) => \A k \in n..n : ~exprContainsBreak(open[k])
  BY <1>1, <1>2 DEF exprContainsBreak
<1> QED
  BY <1>3 DEF Steps

LEMMA ShrinkSteps ==
    ASSUME Paired, Lowers, ReadClose, ~Inner.has_more
    PROVE  LET m == Len(scopes) - 1
               e == Noted(open[m], exprAlwaysTerminates(Inner), exprContainsBreak(Inner)) IN
           /\ Steps(m, e, scopes[m]) /\ Like(e, open[m])
           /\ e.ends <=> open[m].ends \/ exprAlwaysTerminates(Inner)
<1> PICK ends \in BOOLEAN, breaks \in BOOLEAN :
         ends = exprAlwaysTerminates(Inner) /\ breaks = exprContainsBreak(Inner)
  BY CloseShrinks
<1> PICK n, m : n = Len(scopes) /\ m = Len(scopes) - 1
  OBVIOUS
<1> PICK e : e = Noted(open[m], ends, breaks)
  OBVIOUS
<1>1. /\ n \in Nat /\ n > 1 /\ Inner = open[n] /\ m \in 1..n
      /\ \A k : k \in m..n <=> k = m \/ k = n
  BY PairedFacts, ClosingFacts
<1>2. Tops(m, e, scopes[m])
  BY CloseShrinks
<1>3. Like(e, open[m]) /\ (e.ends <=> open[m].ends \/ ends) /\ (e.breaks <=> open[m].breaks \/ breaks)
  <2>1. open[m] \in OpenRecords
    BY <1>1, PairedFacts
  <2> QED
    BY <2>1, NotedIs
<1>4. ~exprContainsBreak(e) => \A k \in m..n : ~exprContainsBreak(open[k])
  BY <1>1, <1>3 DEF exprContainsBreak, Like
<1> QED
  BY <1>2, <1>3, <1>4 DEF Steps

(***************************************************************************)
(* The end of a function that returns a value.  The hazard is that control *)
(* comes there at all: it holds from the start and nothing ends it.  A     *)
(* point is out of its reach where exprAlwaysTerminates says so.           *)
(***************************************************************************)
FallHazard(on) ==
  [first |-> TRUE, ends |-> {}, starts |-> {}, bad |-> IF on THEN {"fall"} ELSE {},
   bars |-> {<<"true", FALSE>>}]

\* Control may come behind what was read of each of the first i constructs.
Alive(o, i) == \A j \in 1..i : ~o[j].ends
FallView(o, scs) ==
  [before |-> {i \in 1..(Len(o) + 1) : Alive(o, i - 1)},
   shut |-> {i \in 1..Len(o) : Shut(o, scs, i)}, cut |-> {}]

LEMMA EdgeIs == ASSUME NEW cond \in Conds, NEW yes \in BOOLEAN
                PROVE  <<cond, yes>> \in Conds \X BOOLEAN
  OBVIOUS

LEMMA FallIs ==
    ASSUME NEW on \in BOOLEAN
    PROVE  Hazard(FallHazard(on))
<1> PICK bad, bars : bad = (IF on THEN {"fall"} ELSE {}) /\ bars = {<<"true", FALSE>>}
  OBVIOUS
<1>1. bars \subseteq Conds \X BOOLEAN
  <2>1. "true" \in Conds /\ FALSE \in BOOLEAN
    BY DEF Conds
  <2>2. <<"true", FALSE>> \in Conds \X BOOLEAN
    BY <2>1, EdgeIs
  <2> QED
    BY <2>2, Zenon
<1>2. bad \subseteq {"fall"}
  OBVIOUS
<1>3. FallHazard(on) = [first |-> TRUE, ends |-> {}, starts |-> {}, bad |-> bad, bars |-> bars]
  BY DEF FallHazard
<1>4. [first |-> TRUE, ends |-> {}, starts |-> {}, bad |-> bad, bars |-> bars] \in Hazards
  BY <1>1, <1>2 DEF Hazards, Ops
<1>5. bad \cap Quiet = {}
  BY <1>2 DEF Quiet
<1> QED
  BY <1>3, <1>4, <1>5 DEF Hazard

\* Where the hazard may come, innermost and further out.
LEMMA AliveFacts ==
    ASSUME NEW o, NEW scs, NEW n \in Nat \ {0}, n = Len(o), NEW view, view = FallView(o, scs)
    PROVE  /\ view.cut = {} /\ \A i \in 1..n : i \in view.shut <=> Shut(o, scs, i)
           /\ \A i \in 1..(n + 1) : i \in view.before <=> Alive(o, i - 1)
           /\ 1 \in view.before
           /\ \A i \in 1..n : i + 1 \in view.before <=> i \in view.before /\ ~o[i].ends
           /\ \A i \in 1..(n + 1) : \A j \in 1..i : i \in view.before => j \in view.before
<1>1. /\ view.cut = {} /\ \A i \in 1..n : i \in view.shut <=> Shut(o, scs, i)
  BY DEF FallView
<1>2. \A i \in 1..(n + 1) : i \in view.before <=> Alive(o, i - 1)
  BY DEF FallView
<1>3. ASSUME NEW i \in 1..n
      PROVE  Alive(o, (i + 1) - 1) <=> Alive(o, i - 1) /\ ~o[i].ends
  <2>1. 1..((i + 1) - 1) = (1..(i - 1)) \cup {i}
    OBVIOUS
  <2> QED
    BY <2>1 DEF Alive
<1>4. ASSUME NEW i \in 1..(n + 1), NEW j \in 1..i, Alive(o, i - 1)
      PROVE  Alive(o, j - 1)
  <2>1. 1..(j - 1) \subseteq 1..(i - 1)
    OBVIOUS
  <2> QED
    BY <1>4, <2>1 DEF Alive
<1>5. Alive(o, 1 - 1)
  BY DEF Alive
<1>6. \A i \in 1..n : i \in 1..(n + 1) /\ i + 1 \in 1..(n + 1)
  OBVIOUS
<1>7. 1 \in 1..(n + 1) /\ \A i \in 1..(n + 1) : \A j \in 1..i : j \in 1..(n + 1)
  OBVIOUS
<1>8. \A i \in 1..n : i + 1 \in view.before <=> i \in view.before /\ ~o[i].ends
  BY <1>2, <1>3, <1>6
<1>9. \A i \in 1..(n + 1) : \A j \in 1..i : i \in view.before => j \in view.before
  BY <1>2, <1>4, <1>7
<1>10. 1 \in view.before
  BY <1>2, <1>5, <1>7
<1> QED
  BY <1>1, <1>2, <1>8, <1>9, <1>10

\* A step of both stacks, and the views before and after it.
Views(m, e, s, view, view2) ==
  Steps(m, e, s) /\ view = FallView(open, scopes) /\ view2 = FallView(open', scopes')

LEMMA FallTops ==
    ASSUME Paired, Lowers, NEW m \in 1..(Len(scopes) + 1), NEW e, NEW s, NEW view, NEW view2,
           Views(m, e, s, view, view2)
    PROVE  /\ \A i \in 1..m : i \in view2.before <=> i \in view.before
           /\ m + 1 \in view2.before <=> m \in view.before /\ ~e.ends
           /\ view.cut = {} /\ view2.cut = {} /\ (m \in view2.shut <=> ShutBy(e, s))
           /\ \A i \in 1..(m - 1) : i \in view2.shut => i \in view.shut
           /\ m <= Len(scopes) /\ Like(e, open[m]) /\ s = scopes[m] =>
                (m \in view2.shut => m \in view.shut)
<1> DEFINE n == Len(scopes)
<1>1. n \in Nat \ {0} /\ Len(open) = n /\ m \in Nat \ {0}
  BY PairedFacts
<1>2. /\ Len(open') = m /\ open'[m] = e /\ scopes'[m] = s
      /\ \A i \in 1..(m - 1) : open'[i] = open[i] /\ scopes'[i] = scopes[i]
      /\ view = FallView(open, scopes) /\ view2 = FallView(open', scopes')
  BY DEF Views, Steps, Tops
<1>3. /\ \A i \in 1..(m - 1) : Shut(open', scopes', i) => Shut(open, scopes, i)
      /\ m <= n /\ Like(e, open[m]) /\ s = scopes[m] =>
           (Shut(open', scopes', m) => Shut(open, scopes, m))
      /\ Shut(open', scopes', m) <=> ShutBy(e, s)
  BY ShutTops DEF Views
<1> PICK o, scs, o2, scs2 : o = open /\ scs = scopes /\ o2 = open' /\ scs2 = scopes'
  OBVIOUS
<1>4. /\ view.cut = {} /\ \A i \in 1..n : i \in view.shut <=> Shut(o, scs, i)
      /\ \A i \in 1..(n + 1) : i \in view.before <=> Alive(o, i - 1)
  BY <1>1, <1>2, AliveFacts
<1>5. /\ view2.cut = {} /\ \A i \in 1..m : i \in view2.shut <=> Shut(o2, scs2, i)
      /\ \A i \in 1..(m + 1) : i \in view2.before <=> Alive(o2, i - 1)
      /\ \A i \in 1..m : i + 1 \in view2.before <=> i \in view2.before /\ ~o2[i].ends
  BY <1>1, <1>2, AliveFacts
<1>6. o2[m] = e /\ \A i \in 1..(m - 1) : o2[i] = o[i]
  BY <1>2
<1>7. m \in 1..(n + 1) /\ m \in 1..m /\ \A i \in 1..(m - 1) : i \in 1..m /\ i \in 1..n
  BY <1>1
<1> HIDE DEF n
<1>8. ASSUME NEW i \in 1..m
      PROVE  i \in view2.before <=> i \in view.before
  <2>1. i \in 1..(m + 1) /\ i \in 1..(n + 1) /\ \A j \in 1..(i - 1) : j \in 1..(m - 1)
    BY <1>1, <1>7
  <2>2. Alive(o2, i - 1) <=> Alive(o, i - 1)
    BY <1>6, <2>1 DEF Alive
  <2> QED
    BY <1>4, <1>5, <2>1, <2>2
<1>9. m + 1 \in view2.before <=> m \in view.before /\ ~e.ends
  BY <1>5, <1>6, <1>7, <1>8
<1>10. /\ m \in view2.shut <=> ShutBy(e, s)
       /\ \A i \in 1..(m - 1) : i \in view2.shut => i \in view.shut
  BY <1>3, <1>4, <1>5, <1>7
<1>11. ASSUME m <= n, Like(e, open[m]), s = scopes[m], m \in view2.shut
       PROVE  m \in view.shut
  <2>1. m \in 1..n
    BY <1>1, <1>11
  <2> QED
    BY <1>3, <1>4, <1>5, <1>7, <1>11, <2>1
<1> QED
  BY <1>4, <1>5, <1>8, <1>9, <1>10, <1>11 DEF n

LEMMA FallLooser ==
    ASSUME Paired, Lowers, NEW m \in 1..(Len(scopes) + 1), NEW e, NEW s, NEW view, NEW view2,
           Views(m, e, s, view, view2)
    PROVE  /\ Looser(m - 1, view, view2)
           /\ m <= Len(scopes) /\ Like(e, open[m]) /\ s = scopes[m] => Looser(m, view, view2)
<1>1. m \in Nat \ {0}
  BY PairedFacts
<1>2. ASSUME NEW i \in 1..m, i \in view2.shut => i \in view.shut
      PROVE  Relaxed(scopes[i], i, view, view2)
  BY <1>2, FallTops DEF Relaxed
<1>3. ASSUME NEW i \in 2..(m - 1)
      PROVE  Relaxed(scopes[i], i, view, view2)
  <2>1. i \in 1..m /\ i \in 1..(m - 1)
    BY <1>1
  <2> QED
    BY <1>2, <2>1, FallTops
<1>4. ASSUME m <= Len(scopes), Like(e, open[m]), s = scopes[m], NEW i \in 2..m
      PROVE  Relaxed(scopes[i], i, view, view2)
  <2>1. i \in 1..m
    BY <1>1
  <2>2. CASE i = m
    BY <1>2, <1>4, <2>1, <2>2, FallTops
  <2>3. CASE i # m
    <3>1. i \in 2..(m - 1)
      BY <1>1, <2>3
    <3> QED
      BY <1>3, <3>1
  <2> QED
    BY <2>2, <2>3
<1> QED
  BY <1>3, <1>4 DEF Looser

\* What a statement notes of the construct it is in, and where control comes then.
LEMMA FallStays ==
    ASSUME Paired, Lowers, NEW ends \in BOOLEAN, NEW breaks \in BOOLEAN, Stays(ends, breaks),
           NEW view, NEW view2, view = FallView(open, scopes), view2 = FallView(open', scopes')
    PROVE  Looser(Len(scopes), view, view2)
<1> PICK n, e, s : n = Len(scopes) /\ e = Noted(Inner, ends, breaks) /\ s = Last(scopes)
  OBVIOUS
<1>1. n \in Nat \ {0} /\ n \in 1..(n + 1) /\ s = scopes[n]
  BY PairedFacts
<1>2. Steps(n, e, s) /\ Like(e, open[n])
  BY StaySteps
<1>3. Views(n, e, s, view, view2)
  BY <1>2 DEF Views
<1> QED
  BY <1>1, <1>2, <1>3, FallLooser

\* The instructions that only the other hazards are about.
ReadPlain ==
  ReadSetNull \/ ReadSet \/ ReadDeref \/ ReadRead \/ ReadMove \/ ReadAssign \/ ReadUpdate

LEMMA PlainOps ==
    ASSUME ReadPlain
    PROVE  \E op \in {"null", "set", "deref", "read", "move", "assign", "update"} : Plain(op) \/ Skip
  BY DEF ReadPlain, ReadSetNull, ReadSet, ReadDeref, ReadRead, ReadMove, ReadAssign, ReadUpdate

LEMMA FallStatement ==
    ASSUME NEW on \in BOOLEAN, NEW h, h = FallHazard(on), NEW T, NEW view, Followed(h, T, view),
           Paired, Paired', ReadStatement, NEW view2,
           view = FallView(open, scopes), view2 = FallView(open', scopes')
    PROVE  \E T2 : Kept(h, T2, view2)'
<1>1. Lowers
  BY DEF Followed
<1>2. /\ Len(scopes) \in Nat \ {0} /\ Len(open) = Len(scopes) /\ Len(scopes) + 1 \in 1..(Len(scopes) + 1)
      /\ \A i \in 2..Len(scopes) : i \in 1..Len(scopes) /\ i \in 1..(Len(scopes) + 1)
  BY <1>1, PairedFacts
<1>3. Here2(view) => \A i \in 2..Len(scopes) : i \in view.before
  <2> SUFFICES ASSUME Len(scopes) + 1 \in view.before, NEW i \in 2..Len(scopes)
               PROVE  i \in view.before
    BY DEF Here2
  <2>1. \A k \in 1..(Len(scopes) + 1) : \A j \in 1..k : k \in view.before => j \in view.before
    BY <1>2, AliveFacts
  <2> QED
    BY <1>2, <2>1
<1>4. Looser(Len(scopes), view, view)
  BY DEF Looser, Relaxed
<1>5. scopes' = scopes
  BY <1>1, StatementStays
<1>6. ASSUME open' = open
      PROVE  view2 = view
  BY <1>5, <1>6
<1>7. CASE ReadReturn \/ ReadReturnProp
  <2>1. Stays(TRUE, FALSE)
    BY <1>1, <1>7, StatementStays
  <2>2. PICK ends \in BOOLEAN, breaks \in BOOLEAN : ends = TRUE /\ breaks = FALSE
    OBVIOUS
  <2>3. Stays(ends, breaks)
    BY <2>1, <2>2
  <2>4. Looser(Len(scopes), view, view2)
    BY <1>1, <2>3, FallStays
  <2> QED
    BY <1>7, <2>4, ReturnKept
<1>8. CASE ReadBreak
  <2>1. Stays(FALSE, TRUE)
    BY <1>1, <1>8, StatementStays
  <2>2. PICK ends \in BOOLEAN, breaks \in BOOLEAN : ends = FALSE /\ breaks = TRUE /\ breaks
    OBVIOUS
  <2>3. Stays(ends, breaks)
    BY <2>1, <2>2
  <2>4. Looser(Len(scopes), view, view2)
    BY <1>1, <2>3, FallStays
  <2>5. ASSUME NEW i \in 2..Len(scopes), scopes[i].part = "loop"
        PROVE  i \notin view2.shut
    <3>1. PICK n, o, scs : n = Len(scopes) /\ o = open' /\ scs = scopes'
      OBVIOUS
    <3>2. n \in Nat \ {0} /\ Len(o) = n /\ i \in 1..n /\ n \in i..n /\ scs[i].part = "loop"
      BY <1>2, <1>5, <2>3, <2>5, <3>1 DEF Stays, Tops
    <3>3. i \in view2.shut <=> Shut(o, scs, i)
      BY <3>1, <3>2, AliveFacts
    <3>4. Pairs(o[i], scs[i], i)
      BY <1>5, <3>1, <3>2 DEF Paired
    <3>5. o[n].breaks
      <4>1. o[n] = Noted(Inner, ends, breaks)
        BY <2>3, <3>1 DEF Stays, Tops
      <4> QED
        BY <1>1, <2>2, <2>3, <4>1, StaySteps
    <3>6. ~Endless(o, i)
      BY <3>2, <3>5 DEF Endless, exprContainsBreak
    <3> QED
      BY <3>2, <3>3, <3>4, <3>6 DEF Shut, Pairs
  <2> QED
    BY <1>3, <1>8, <2>4, <2>5, LeaveKept
<1>9. CASE ReadContinue
  <2>1. open' = open
    BY <1>9 DEF ReadContinue, CheckOther, checker
  <2>2. view2 = view
    BY <1>6, <2>1
  <2>3. Looser(Len(scopes), view, view2)
    BY <1>4, <2>2
  <2>4. ASSUME ReadBreak
        PROVE  \E T2 : Kept(h, T2, view2)'
    BY <1>8, <2>4
  <2>5. CASE ~ReadBreak
    BY <1>3, <1>9, <2>3, <2>5, LeaveKept
  <2> QED
    BY <2>4, <2>5
<1>10. CASE ReadSteady
  <2>1. open' = open
    BY <1>10 DEF ReadSteady, ReadProp, ReadAssert, ReadMust, ReadIndex, ReadDefer, CheckOther, checker
  <2>2. view2 = view
    BY <1>6, <2>1
  <2> QED
    BY <1>4, <1>10, <2>2, SteadyKept
<1>11. CASE ReadPlain
  <2>1. open' = open
    BY <1>11 DEF ReadPlain, ReadSetNull, ReadSet, ReadDeref, ReadRead, ReadMove, ReadAssign, ReadUpdate,
                 CheckWrite, CheckDeref, CheckRead, CheckMove, CheckAssign, checker
  <2>2. view2 = view
    BY <1>6, <2>1
  <2>3. PICK op \in {"null", "set", "deref", "read", "move", "assign", "update"} : Plain(op) \/ Skip
    BY <1>11, PlainOps
  <2>4. op \in Ops /\ op \notin h.bad /\ op \notin h.starts
    BY DEF Ops, FallHazard
  <2> QED
    BY <1>4, <2>2, <2>3, <2>4, PlainKept
<1> QED
  BY <1>7, <1>8, <1>9, <1>10, <1>11 DEF ReadStatement, ReadSteady, ReadPlain

\* A construct begins, and what has to hold of the views then.
OpensAs(part, cond, more, s) ==
  /\ Tops(Len(scopes) + 1, Opened(part, cond, more, proven, NoBranches), s)
  /\ part # "else" /\ s.part # "else"
  /\ proven' <=> proven \/ (part \in {"then", "loop"} /\ cond = "notnull")

OpenFits(h, view, view2, part, cond, more) ==
  /\ Looser(Len(scopes), view, view2) /\ (Here2(view) <=> Here2(view2))
  /\ Here2(view) /\ (part \in {"then", "loop"} => <<cond, TRUE>> \notin h.bars) =>
       Len(scopes) + 2 \in view2.before
  /\ Len(scopes) + 1 \in view2.shut /\ (part = "then" => ~more) =>
       \/ part \in {"then", "loop"} /\ <<cond, FALSE>> \in h.bars
       \/ part = "case" /\ cond = "default"
  /\ Len(scopes) + 1 \in view2.cut => part = "then" /\ more /\ <<cond, FALSE>> \in h.bars

LEMMA ConstructOpens ==
    ASSUME NEW h, NEW T, NEW view, Followed(h, T, view), Paired, ReadOpening, NEW view2,
           \A part \in OpenParts, cond \in Conds \cup {"default"}, more \in BOOLEAN : \A s :
             OpensAs(part, cond, more, s) => OpenFits(h, view, view2, part, cond, more)
    PROVE  \E T2 : Kept(h, T2, view2)'
<1>1. Lowers
  BY DEF Followed
<1>2. LoopConditions \subseteq Conds /\ Conditions \subseteq Conds /\ "opaque" \in Conds
  BY DEF LoopConditions, Conditions, Conds
<1>3. {"block", "then", "loop", "forin", "case"} \subseteq OpenParts
  BY DEF OpenParts
<1> PICK no \in BOOLEAN : no = FALSE
  OBVIOUS
<1>4. CASE ReadBlock
  <2>1. OpenBlock /\ CheckBlock
    BY <1>4 DEF ReadBlock
  <2>2. PICK s : Tops(Len(scopes) + 1, Opened("block", "opaque", no, proven, NoBranches), s) /\ s.part = "block"
    BY <1>1, <2>1, BlockGrows
  <2>3. OpensAs("block", "opaque", no, s)
    BY <2>1, <2>2 DEF OpensAs, CheckBlock
  <2>4. OpenFits(h, view, view2, "block", "opaque", no)
    BY <1>2, <1>3, <2>3
  <2>5. Looser(Len(scopes), view, view2) /\ (Here2(view) => Len(scopes) + 2 \in view2.before)
    BY <2>4 DEF OpenFits
  <2> QED
    BY <2>1, <2>5, OpenBlockKeeps
<1>5. CASE ReadIf
  <2>1. PICK cond \in Conditions, other \in {"none", "else"} \cup ({"elif"} \cap Kinds) :
               lowerIf(cond, other) /\ inferIf(cond, other # "none")
    BY <1>5 DEF ReadIf
  <2>2. cond \in Conds /\ other \in {"none", "else", "elif"}
    BY <1>2
  <2>3. PICK more \in BOOLEAN : more = (other # "none")
    OBVIOUS
  <2>4. PICK s : Tops(Len(scopes) + 1, Opened("then", cond, more, proven, NoBranches), s) /\ s.part = "then"
    BY <1>1, <2>1, <2>2, <2>3, IfGrows
  <2>5. OpensAs("then", cond, more, s)
    BY <2>1, <2>4 DEF OpensAs, inferIf
  <2>6. OpenFits(h, view, view2, "then", cond, more)
    BY <1>3, <2>2, <2>5
  <2>7. /\ Looser(Len(scopes), view, view2) /\ (Here2(view) => Here2(view2))
        /\ Here2(view) /\ <<cond, TRUE>> \notin h.bars => Len(scopes) + 2 \in view2.before
        /\ other = "none" /\ Len(scopes) + 1 \in view2.shut => <<cond, FALSE>> \in h.bars
        /\ Len(scopes) + 1 \in view2.cut => <<cond, FALSE>> \in h.bars
    BY <2>3, <2>6 DEF OpenFits
  <2> QED
    BY <2>1, <2>2, <2>7, IfKeeps
<1>6. ASSUME NEW part \in {"loop", "forin"}, NEW cond \in Conds, NEW has_step \in BOOLEAN,
             lowerLoop(cond, has_step), open' = Append(open, Opened(part, cond, FALSE, proven, NoBranches)),
             proven' <=> proven \/ (part \in {"then", "loop"} /\ cond = "notnull")
      PROVE  \E T2 : Kept(h, T2, view2)'
  <2>1. PICK s : Tops(Len(scopes) + 1, Opened(part, cond, no, proven, NoBranches), s) /\ s.part = "loop"
    BY <1>1, <1>6, LoopGrows
  <2>2. OpensAs(part, cond, no, s) /\ part \in OpenParts
    BY <1>3, <1>6, <2>1 DEF OpensAs
  <2>3. OpenFits(h, view, view2, part, cond, no)
    BY <2>2
  <2>4. /\ Looser(Len(scopes), view, view2) /\ (Here2(view) <=> Here2(view2))
        /\ Here2(view) /\ <<cond, TRUE>> \notin h.bars => Len(scopes) + 2 \in view2.before
        /\ Len(scopes) + 1 \in view2.shut => <<cond, FALSE>> \in h.bars
    BY <2>3 DEF OpenFits
  <2> QED
    BY <1>6, <2>4, LoopKeeps
<1>7. CASE ReadWhile
  <2>1. PICK cond \in LoopConditions : lowerLoop(cond, no) /\ inferLoop(cond)
    BY <1>7 DEF ReadWhile, lowerWhile
  <2>2. cond \in Conds /\ open' = Append(open, Opened("loop", cond, FALSE, proven, NoBranches))
    BY <1>2, <2>1 DEF inferLoop
  <2>3. proven' <=> proven \/ ("loop" \in {"then", "loop"} /\ cond = "notnull")
    BY <2>1 DEF inferLoop
  <2> QED
    BY <1>6, <2>1, <2>2, <2>3
<1>8. CASE ReadFor
  <2>1. PICK yes \in BOOLEAN : yes = TRUE
    OBVIOUS
  <2>2. PICK cond \in LoopConditions : lowerLoop(cond, yes) /\ inferLoop(cond)
    BY <1>8, <2>1 DEF ReadFor, lowerFor
  <2>3. cond \in Conds /\ open' = Append(open, Opened("loop", cond, FALSE, proven, NoBranches))
    BY <1>2, <2>2 DEF inferLoop
  <2>4. proven' <=> proven \/ ("loop" \in {"then", "loop"} /\ cond = "notnull")
    BY <2>2 DEF inferLoop
  <2> QED
    BY <1>6, <2>2, <2>3, <2>4
<1>9. CASE ReadForIn
  <2>1. PICK range \in BOOLEAN : lowerLoop("opaque", range) /\ inferForIn
    BY <1>9 DEF ReadForIn, lowerForIn
  <2>2. open' = Append(open, Opened("forin", "opaque", FALSE, proven, NoBranches))
    BY <2>1 DEF inferForIn
  <2>3. proven' <=> proven \/ ("forin" \in {"then", "loop"} /\ "opaque" = "notnull")
    BY <2>1 DEF inferForIn
  <2> QED
    BY <1>2, <1>6, <2>1, <2>2, <2>3
<1>10. CASE ReadWhen
  <2>1. PICK cases \in 1..2, has_default \in BOOLEAN :
               lowerWhen(cases, has_default) /\ inferWhen(cases, has_default)
    BY <1>10 DEF ReadWhen
  <2>2. cases \in Nat \ {0}
    OBVIOUS
  <2>3. PICK cond : cond = IF has_default THEN "default" ELSE "opaque"
    OBVIOUS
  <2>4. PICK more : more = (cases > 1)
    OBVIOUS
  <2>5. PICK s : /\ Tops(Len(scopes) + 1, Opened("case", cond, more, proven, NoBranches), s)
                 /\ s.part = (IF has_default THEN "case" ELSE "open")
    <3>1. \E s : /\ Tops(Len(scopes) + 1, Opened("case", IF has_default THEN "default" ELSE "opaque",
                                                  cases > 1, proven, NoBranches), s)
                 /\ s.part = (IF has_default THEN "case" ELSE "open")
      BY <1>1, <2>1, <2>2, WhenGrows
    <3> QED
      BY <2>3, <2>4, <3>1
  <2>6. OpensAs("case", cond, more, s) /\ more \in BOOLEAN
    BY <2>1, <2>4, <2>5 DEF OpensAs, inferWhen
  <2>7. cond \in Conds \cup {"default"} /\ (cond = "default" => has_default)
    BY <1>2, <2>3
  <2>8. OpenFits(h, view, view2, "case", cond, more)
    BY <1>3, <2>6, <2>7
  <2>9. /\ Looser(Len(scopes), view, view2)
        /\ Here2(view) => Here2(view2) /\ Len(scopes) + 2 \in view2.before
        /\ Len(scopes) + 1 \in view2.shut => has_default
        /\ Len(scopes) + 1 \notin view2.cut
    BY <2>7, <2>8 DEF OpenFits
  <2> QED
    BY <2>1, <2>2, <2>9, WhenKeeps
<1> QED
  BY <1>4, <1>5, <1>7, <1>8, <1>9, <1>10 DEF ReadOpening

LEMMA FallOpens ==
    ASSUME NEW on \in BOOLEAN, NEW h, h = FallHazard(on), NEW T, NEW view, Followed(h, T, view),
           Paired, ReadOpening, NEW view2,
           view = FallView(open, scopes), view2 = FallView(open', scopes')
    PROVE  \E T2 : Kept(h, T2, view2)'
<1>1. Lowers
  BY DEF Followed
<1>2. ASSUME NEW part \in OpenParts, NEW cond \in Conds \cup {"default"}, NEW more \in BOOLEAN, NEW s,
             OpensAs(part, cond, more, s)
      PROVE  OpenFits(h, view, view2, part, cond, more)
  <2>1. PICK e, m : e = Opened(part, cond, more, proven, NoBranches) /\ m = Len(scopes) + 1
    OBVIOUS
  <2>2. e.part = part /\ e.cond = cond /\ (e.has_more <=> more) /\ ~e.ends
    BY <2>1, PushedBits, OpenedIs
  <2>3. Steps(m, e, s) /\ s.part # "else"
    BY <1>1, <1>2, <2>1, OpenSteps DEF OpensAs
  <2>4. Views(m, e, s, view, view2)
    BY <2>3 DEF Views
  <2>5. /\ Len(scopes) \in Nat /\ m \in 1..(Len(scopes) + 1) /\ m \in 1..m
        /\ m - 1 = Len(scopes) /\ m + 1 = Len(scopes) + 2
    BY <1>1, <2>1, PairedFacts
  <2>6. Looser(m - 1, view, view2)
    BY <1>1, <2>4, <2>5, FallLooser
  <2>7. /\ \A i \in 1..m : i \in view2.before <=> i \in view.before
        /\ m + 1 \in view2.before <=> m \in view.before /\ ~e.ends
        /\ view2.cut = {} /\ (m \in view2.shut <=> ShutBy(e, s))
    BY <1>1, <2>4, <2>5, FallTops
  <2>8. (Here2(view) <=> m \in view.before) /\ (Here2(view2) <=> m \in view2.before)
    BY <2>1 DEF Here2
  <2>9. ShutBy(e, s) /\ (part = "then" => ~more) =>
          (part = "loop" /\ <<cond, FALSE>> \in h.bars) \/ (part = "case" /\ cond = "default")
    BY <2>2, <2>3 DEF ShutBy, FallHazard
  <2> QED
    BY <2>1, <2>2, <2>5, <2>6, <2>7, <2>8, <2>9 DEF OpenFits
<1> QED
  BY <1>2, ConstructOpens

\* A further branch: control comes behind the construct only out of what is left of it.
LEMMA FallTurns ==
    ASSUME Paired, Lowers, ReadClose, Inner.has_more, NEW view, NEW view2,
           view = FallView(open, scopes), view2 = FallView(open', scopes')
    PROVE  Looser(Len(scopes) - 1, view, view2) /\ Branching(view, view2, Last(scopes))
<1> PICK n, in, s : n = Len(scopes) /\ in = Inner /\ s = Last(scopes)
  OBVIOUS
<1>1. /\ n \in Nat \ {0} /\ Len(open) = n /\ in = open[n] /\ s = scopes[n] /\ in \in OpenRecords
      /\ n \in 1..n /\ n \in 1..(n + 1) /\ n + 1 \in 1..(n + 1) /\ Pairs(in, s, n)
      /\ \A k : k \in n..n <=> k = n
  BY PairedFacts
<1>2. PICK e, s2 : /\ Tops(n, e, s2) /\ Follows2(s2, s)
                   /\ in.part = "then" <=> s.part = "then"
                   /\ e.part = (IF in.part = "then" THEN "else" ELSE "case")
                   /\ e.cond = in.cond /\ e.others = Sofar(in) /\ ~e.ends
  BY CloseTurns
<1>3. /\ Sofar(in).ends <=> in.ends /\ in.others.ends
      /\ Sofar(in).breaks <=> in.breaks \/ in.others.breaks
  BY <1>1, SofarIs
<1>4. Steps(n, e, s2)
  BY <1>2, TurnSteps
<1>5. Views(n, e, s2, view, view2)
  BY <1>4 DEF Views
<1>6. n \in 1..(Len(scopes) + 1) /\ n = Len(scopes)
  BY <1>1
<1>7. Looser(n - 1, view, view2)
  BY <1>5, <1>6, FallLooser
<1>8. /\ n \in view2.before <=> n \in view.before
      /\ n + 1 \in view2.before <=> n \in view.before /\ ~e.ends
      /\ view.cut = {} /\ view2.cut = {}
      /\ n \in view2.shut <=> ShutBy(e, s2)
  BY <1>1, <1>5, <1>6, FallTops
<1>9. /\ n \in view.shut <=> Shut(open, scopes, n)
      /\ n + 1 \in view.before <=> n \in view.before /\ ~in.ends
  BY <1>1, AliveFacts
<1>10. Here2(view) <=> n + 1 \in view.before
  BY DEF Here2
<1>11. ASSUME n \in view2.shut
       PROVE  /\ in.ends /\ in.others.ends /\ (s.part = "then" => s.left = 0)
              /\ n \in view.shut /\ (s.part # "then" => s.part = "case")
  <2>1. CASE s.part = "then"
    <3>1. in.part = "then" /\ e.part = "else" /\ s2.part = "else"
      BY <1>2, <1>8, <1>11, <2>1 DEF ShutBy, Follows2
    <3>2. in.ends /\ in.others.ends /\ s.left = 0
      BY <1>2, <1>3, <1>8, <1>11, <2>1, <3>1 DEF Follows2, ShutBy
    <3>3. n \in view.shut
      BY <1>1, <1>9, <3>1 DEF Shut
    <3> QED
      BY <2>1, <3>2, <3>3
  <2>2. CASE s.part # "then"
    <3>1. s.part \in {"case", "open"} /\ e.part = "case" /\ s2.part = s.part
      BY <1>2, <2>2 DEF Follows2
    <3>2. in.part = "case" /\ e.others.ends /\ e.cond = "default"
      BY <1>1, <1>8, <1>11, <3>1 DEF Pairs, ShutBy
    <3>3. s.part = "case" /\ in.ends /\ in.others.ends /\ in.cond = "default"
      BY <1>1, <1>2, <1>3, <3>1, <3>2 DEF Pairs
    <3>4. n \in view.shut
      BY <1>1, <1>9, <3>2, <3>3 DEF Shut
    <3> QED
      BY <2>2, <3>3, <3>4
  <2> QED
    BY <2>1, <2>2
<1> QED
  BY <1>2, <1>7, <1>8, <1>9, <1>10, <1>11 DEF Branching

\* A construct that counts as terminating, and was not miscounted.
LEMMA EndedShut ==
    ASSUME Paired, Lowers, ReadClose, ~Inner.has_more, "miscounted" \notin uses',
           NEW ends \in BOOLEAN, ends = exprAlwaysTerminates(Inner)
    PROVE  /\ ends => Last(scopes).part = "loop" \/ Inner.ends
           /\ ends /\ Last(scopes).part # "block" => Shut(open, scopes, Len(scopes))
<1> PICK n, in, s : n = Len(scopes) /\ in = Inner /\ s = Last(scopes)
  OBVIOUS
<1>1. /\ n \in Nat \ {0} /\ n > 1 /\ Len(open) = n /\ in = open[n] /\ s = scopes[n] /\ in \in OpenRecords
      /\ \A k \in n..n : k = n
      /\ Pairs(in, s, n) /\ in.part # "body"
  BY PairedFacts, ClosingFacts
<1>12. in.part \in {"block", "then", "else", "case", "loop", "forin"}
  BY <1>1 DEF OpenRecords, OpenParts
<1>13. ~(ends /\ (in.part = "forin" \/ s.part = "elif"))
  BY DEF ReadClose, Miscounts
<1>14. ends => s.part = "loop" \/ in.ends
  BY <1>1, <1>12 DEF exprAlwaysTerminates, Pairs
<1>15. ASSUME ends, s.part # "block"
       PROVE  Shut(open, scopes, n)
  <2>1. CASE in.part = "else"
    <3>1. in.others.ends
      BY <1>15, <2>1 DEF exprAlwaysTerminates
    <3>2. s.part = "else"
      BY <1>1, <1>13, <1>15, <2>1 DEF Pairs
    <3> QED
      BY <1>1, <3>1, <3>2 DEF Shut
  <2>2. CASE in.part = "case"
    <3>1. in.others.ends /\ in.cond = "default"
      BY <1>15, <2>2 DEF exprAlwaysTerminates
    <3> QED
      BY <1>1, <2>2, <3>1 DEF Shut
  <2>3. CASE in.part = "loop"
    <3>1. in.cond = "true" /\ ~in.breaks
      BY <1>15, <2>3 DEF exprAlwaysTerminates
    <3>2. ~exprContainsBreak(in)
      BY <1>1, <2>3, <3>1 DEF exprContainsBreak, Pairs, NoBranches
    <3>3. Endless(open, n)
      BY <1>1, <2>3, <3>1, <3>2 DEF Endless
    <3> QED
      BY <3>3 DEF Shut
  <2>4. in.part \notin {"block", "then", "forin"}
    <3>1. in.part # "then"
      BY <1>15 DEF exprAlwaysTerminates
    <3>2. in.part \notin {"block", "forin"}
      BY <1>1, <1>13, <1>15 DEF Pairs
    <3> QED
      BY <3>1, <3>2
  <2> QED
    BY <1>12, <2>1, <2>2, <2>3, <2>4
<1> QED
  BY <1>1, <1>14, <1>15

\* The end of a construct: where it does not count as terminating, control may come
\* behind it, and where it does, none comes, unless it was miscounted.
LEMMA FallShrinks ==
    ASSUME Paired, Lowers, ReadClose, ~Inner.has_more, "miscounted" \notin uses', NEW view, NEW view2,
           view = FallView(open, scopes), view2 = FallView(open', scopes')
    PROVE  Looser(Len(scopes) - 1, view, view2) /\ Concluding(view, view2, Last(scopes))
<1> PICK ends \in BOOLEAN, breaks \in BOOLEAN :
         ends = exprAlwaysTerminates(Inner) /\ breaks = exprContainsBreak(Inner)
  BY CloseShrinks
<1> PICK n, in, s : n = Len(scopes) /\ in = Inner /\ s = Last(scopes)
  OBVIOUS
<1>1. /\ n \in Nat \ {0} /\ n > 1 /\ Len(open) = n /\ in = open[n] /\ s = scopes[n] /\ in \in OpenRecords
      /\ n - 1 \in 1..n /\ n \in 1..n /\ n \in 1..(n + 1) /\ n + 1 \in 1..(n + 1) /\ n - 1 \in 1..(n + 1)
      /\ Pairs(in, s, n) /\ in.part # "body"
  BY PairedFacts, ClosingFacts
<1> PICK m, e : m = n - 1 /\ e = Noted(open[m], ends, breaks)
  OBVIOUS
<1>3. Steps(m, e, scopes[m]) /\ Like(e, open[m]) /\ (e.ends <=> open[m].ends \/ ends)
  BY ShrinkSteps
<1>5. Views(m, e, scopes[m], view, view2)
  BY <1>3 DEF Views
<1>6. m \in 1..(Len(scopes) + 1) /\ m <= Len(scopes) /\ m = Len(scopes) - 1
  BY <1>1
<1>7. Looser(Len(scopes) - 1, view, view2)
  <2>1. PICK s2 : s2 = scopes[m]
    OBVIOUS
  <2>2. Looser(m, view, view2)
    BY <1>3, <1>5, <1>6, <2>1, FallLooser
  <2> QED
    BY <1>6, <2>2
<1>8. m + 1 = n /\ m \in 1..m /\ m \in 1..n
  BY <1>1
<1>9. n \in view2.before <=> n \in view.before /\ ~ends
  <2>1. m + 1 \in view2.before <=> m \in view.before /\ ~e.ends
    BY <1>5, <1>6, FallTops
  <2>2. m + 1 \in view.before <=> m \in view.before /\ ~open[m].ends
    BY <1>1, <1>8, AliveFacts
  <2> QED
    BY <1>3, <1>8, <2>1, <2>2
<1>10. /\ n \in view.shut <=> Shut(open, scopes, n)
       /\ n + 1 \in view.before <=> n \in view.before /\ ~in.ends
  BY <1>1, AliveFacts
<1>11. Here2(view) <=> n + 1 \in view.before
  BY DEF Here2
<1>12. /\ ends => s.part = "loop" \/ in.ends
       /\ ends /\ s.part # "block" => Shut(open, scopes, n)
  BY EndedShut
<1>13. Concluding(view, view2, s)
  BY <1>9, <1>10, <1>11, <1>12 DEF Concluding
<1> QED
  BY <1>7, <1>13

LEMMA FallCloses ==
    ASSUME NEW on \in BOOLEAN, NEW h, h = FallHazard(on), NEW T, NEW view, Followed(h, T, view),
           Paired, ReadClose, "miscounted" \notin uses', NEW view2,
           view = FallView(open, scopes), view2 = FallView(open', scopes')
    PROVE  \E T2 : Kept(h, T2, view2)'
<1>1. Lowers
  BY DEF Followed
<1>2. CloseBlock /\ (Inner.has_more <=> ~Concludes(Last(scopes)))
  BY <1>1, ClosingFacts
<1>3. PICK s : s = Last(scopes)
  OBVIOUS
<1>4. CASE Inner.has_more
  <2>1. Looser(Len(scopes) - 1, view, view2) /\ Branching(view, view2, s)
    BY <1>1, <1>3, <1>4, FallTurns
  <2>2. ~Concludes(s)
    BY <1>2, <1>3, <1>4
  <2> QED
    BY <1>2, <1>3, <2>1, <2>2, CloseKeeps
<1>5. CASE ~Inner.has_more
  <2>1. Looser(Len(scopes) - 1, view, view2) /\ Concluding(view, view2, s)
    BY <1>1, <1>3, <1>5, FallShrinks
  <2>2. Concludes(s)
    BY <1>2, <1>3, <1>5
  <2> QED
    BY <1>2, <1>3, <2>1, <2>2, CloseKeeps
<1> QED
  BY <1>4, <1>5

FallKept ==
  \E on \in BOOLEAN : /\ on <=> "true" \in Kinds
                      /\ \E T : Kept(FallHazard(on), T, FallView(open, scopes))

\* What reading does, whatever is read.
LEMMA FallReads ==
    ASSUME Lowers, scopes # <<>>, Lowers', Paired, FallKept, "miscounted" \notin uses',
           ReadStatement \/ ReadOpening \/ ReadClose
    PROVE  FallKept'
<1>1. PICK on, T : on \in BOOLEAN /\ (on <=> "true" \in Kinds) /\ Kept(FallHazard(on), T, FallView(open, scopes))
  BY DEF FallKept
<1>2. PICK h, view, view2 : h = FallHazard(on) /\ view = FallView(open, scopes) /\ view2 = FallView(open', scopes')
  OBVIOUS
<1>3. Followed(h, T, view)
  BY <1>1, <1>2, FallIs DEF Followed
<1>4. Paired' /\ family' = family
  BY ReadPaired, ReadsOn
<1>5. \E T2 : Kept(h, T2, view2)'
  <2>1. CASE ReadStatement
    BY <1>1, <1>2, <1>3, <1>4, <2>1, FallStatement
  <2>2. CASE ReadOpening
    BY <1>1, <1>2, <1>3, <2>2, FallOpens
  <2>3. CASE ReadClose
    BY <1>1, <1>2, <1>3, <2>3, FallCloses
  <2> QED
    BY <2>1, <2>2, <2>3
<1>6. PICK T2 : Kept(h, T2, view2)'
  BY <1>5
<1>7. Kept(FallHazard(on), T2, FallView(open, scopes))'
  BY <1>2, <1>6 DEF Kept
<1> QED
  BY <1>1, <1>4, <1>7 DEF FallKept, Kinds

PairInv == phase = "read" => Paired

LEMMA PairInit == Init => PairInv
<1> SUFFICES ASSUME Init
             PROVE  Paired
  BY DEF PairInv
<1>1. InitLowering /\ InitChecker
  BY DEF Init
<1>2. PICK e : e = Opened("body", "opaque", FALSE, FALSE, NoBranches)
  OBVIOUS
<1>3. e \in OpenRecords /\ e.part = "body" /\ ~e.has_more /\ e.others = NoBranches
  BY <1>2, NoBranchesIs DEF OpenRecords, OpenParts, Conds, Opened
<1>4. open = <<e>> /\ proven = FALSE
  BY <1>1, <1>2 DEF InitChecker
<1>5. PICK s : scopes = <<s>> /\ s.part = "body"
  BY <1>1 DEF InitLowering, Scope
<1>6. Pairs(e, s, 1)
  BY <1>3, <1>5 DEF Pairs
<1>7. Len(open) = 1 /\ open[1] = e /\ Len(scopes) = 1 /\ scopes[1] = s /\ scopes # <<>>
  BY <1>4, <1>5
<1>8. open \in Seq(OpenRecords) /\ proven \in BOOLEAN
  <2>1. <<e>> \in Seq(OpenRecords)
    BY <1>3
  <2> QED
    BY <1>4, <2>1
<1>9. \A i \in 1..1 : i = 1
  OBVIOUS
<1> QED
  BY <1>6, <1>7, <1>8, <1>9 DEF Paired

LEMMA PairStep == FlowInv /\ PairInv /\ [Next]_vars => PairInv'
<1> SUFFICES ASSUME FlowInv, PairInv, [Next]_vars, phase' = "read"
             PROVE  Paired'
  BY DEF PairInv
<1>1. CASE UNCHANGED vars
  BY <1>1 DEF vars, lowering, checker, PairInv, Paired
<1>2. CASE ReadStatement \/ ReadOpening \/ ReadClose
  BY <1>2, ReadsOn, ReadPaired DEF FlowInv, PairInv
<1>3. CASE ReadEnd
  BY <1>3 DEF ReadEnd
<1>4. CASE Execute \/ Transfer
  BY <1>4 DEF Execute, Transfer, AtInst, AtEnd
<1> QED
  BY <1>1, <1>2, <1>3, <1>4 DEF Next, ReadStatement, ReadOpening

FallInv ==
  "miscounted" \notin uses =>
    /\ phase = "read" => FallKept
    /\ phase = "run" => \E on \in BOOLEAN : (value => on) /\ Chased(FallHazard(on), TRUE)

LEMMA FallInit == Init => FallInv
<1> SUFFICES ASSUME Init
             PROVE  FallKept
  BY DEF FallInv, Init
<1>1. InitLowering /\ PairInv /\ phase = "read" /\ InitChecker
  BY PairInit DEF Init
<1>2. PICK on \in BOOLEAN : on <=> "true" \in Kinds
  OBVIOUS
<1>3. PICK h, view, o, scs : h = FallHazard(on) /\ view = FallView(open, scopes) /\ o = open /\ scs = scopes
  OBVIOUS
<1>4. Len(o) = 1 /\ 1 \in Nat \ {0} /\ ~o[1].ends /\ 1 \in 1..1
  BY <1>1, <1>3 DEF InitChecker, Opened
<1>5. 1 + 1 \in view.before
  BY <1>3, <1>4, AliveFacts
<1>6. 2 \in view.before
  BY <1>5
<1>7. \E T : Kept(h, T, view)
  BY <1>1, <1>3, <1>6, FallIs, InitKeeps
<1> QED
  BY <1>2, <1>3, <1>7 DEF FallKept

LEMMA FallStep == FlowInv /\ FlowInv' /\ PairInv /\ FallInv /\ [Next]_vars => FallInv'
<1> SUFFICES ASSUME FlowInv, FlowInv', PairInv, FallInv, [Next]_vars, "miscounted" \notin uses'
             PROVE  FallInv'
  BY DEF FallInv
<1>1. CASE UNCHANGED vars
  BY <1>1 DEF vars, lowering, checker, machine, FallInv, FallKept, Kept, Chased, Kinds, Open, Tip
<1>2. CASE ReadStatement \/ ReadOpening \/ ReadClose
  <2>1. phase = "read" /\ phase' = "read" /\ uses \subseteq uses'
    BY <1>2, ReadsOn
  <2>2. Lowers /\ scopes # <<>> /\ Lowers' /\ Paired /\ FallKept
    BY <2>1 DEF FlowInv, PairInv, FallInv
  <2>3. FallKept'
    BY <1>2, <2>2, FallReads
  <2> QED
    BY <2>1, <2>3 DEF FallInv
<1>3. CASE ReadEnd
  <2>1. /\ phase = "read" /\ phase' = "run" /\ uses' = uses /\ at' = at /\ CloseFunction
        /\ value' = ("true" \in Kinds) /\ CheckFunction(value')
    BY <1>3 DEF ReadEnd, machine
  <2>2. Lowers /\ scopes # <<>> /\ at = <<1, 1>> /\ Paired /\ FallKept
    BY <2>1 DEF FlowInv, PairInv, FallInv
  <2>3. PICK on, T : on \in BOOLEAN /\ (on <=> "true" \in Kinds) /\ Kept(FallHazard(on), T, FallView(open, scopes))
    BY <2>2 DEF FallKept
  <2>4. PICK h, view : h = FallHazard(on) /\ view = FallView(open, scopes)
    OBVIOUS
  <2>5. Here2(view) => ~Inner.ends
    <3>1. PICK n, o, scs : n = Len(scopes) /\ o = open /\ scs = scopes
      OBVIOUS
    <3>2. n \in Nat \ {0} /\ Len(o) = n /\ n \in 1..n /\ Inner = o[n]
      BY <2>2, <3>1, PairedFacts
    <3>3. n + 1 \in view.before <=> n \in view.before /\ ~o[n].ends
      BY <2>4, <3>1, <3>2, AliveFacts
    <3> QED
      BY <3>1, <3>2, <3>3 DEF Here2
  <2>6. on => Inner.ends
    BY <2>1, <2>3 DEF CheckFunction
  <2>7. ~on => h.bad = {}
    BY <2>4 DEF FallHazard
  <2>8. Here2(view) => "fall" \notin h.bad
    BY <2>5, <2>6, <2>7
  <2>9. h.first /\ Hazard(h)
    BY <2>4, FallIs DEF FallHazard
  <2>10. PICK T2 : Flowing(h, T2, blocks') /\ <<1, 1>> \in T2
    BY <2>1, <2>2, <2>3, <2>4, <2>8, <2>9, FunctionKeeps
  <2>11. Chased(FallHazard(on), TRUE)'
    BY <2>1, <2>2, <2>4, <2>10 DEF Chased
  <2>12. value' => on
    BY <2>1, <2>3
  <2> QED
    BY <2>1, <2>3, <2>11, <2>12 DEF FallInv
<1>4. CASE Execute
  <2>1. phase = "run" /\ phase' = "run" /\ uses' = uses /\ AtInst /\ value' = value
    BY <1>4 DEF Execute, AtInst
  <2>2. PICK on \in BOOLEAN : (value => on) /\ Chased(FallHazard(on), TRUE)
    BY <2>1 DEF FallInv
  <2>3. PICK hold : hold = TRUE
    OBVIOUS
  <2>4. Chased(FallHazard(on), hold) /\ (hold => (hold /\ Inst.op \notin FallHazard(on).ends) \/ Inst.op \in FallHazard(on).starts)
    BY <2>2, <2>3 DEF FallHazard
  <2>5. \E T : Flowing(FallHazard(on), T, blocks') /\ (hold => at' \in T)
    BY <1>4, <2>1, <2>4, RunFacts, ExecuteChased
  <2>6. Chased(FallHazard(on), TRUE)'
    BY <2>3, <2>5 DEF Chased
  <2> QED
    BY <2>1, <2>2, <2>6 DEF FallInv
<1>5. CASE Transfer
  <2>1. phase = "run" /\ uses' = uses /\ value' = value
    BY <1>5 DEF Transfer, AtEnd
  <2> SUFFICES ASSUME phase' = "run"
               PROVE  FallInv'
    BY <1>5, <2>1 DEF Transfer, FallInv
  <2>2. PICK on \in BOOLEAN : (value => on) /\ Chased(FallHazard(on), TRUE)
    BY <2>1 DEF FallInv
  <2>3. PICK hold : hold = TRUE
    OBVIOUS
  <2>4. \A cond \in Conds, yes \in BOOLEAN : yes \in Taken(cond) => <<cond, yes>> \notin FallHazard(on).bars
    BY DEF Taken, FallHazard
  <2>5. Chased(FallHazard(on), hold)
    BY <2>2, <2>3
  <2>6. \E T : Flowing(FallHazard(on), T, blocks') /\ (hold => at' \in T)
    BY <1>5, <2>1, <2>4, <2>5, RunFacts, TransferChased
  <2>7. Chased(FallHazard(on), TRUE)'
    BY <2>3, <2>6 DEF Chased
  <2> QED
    BY <2>1, <2>2, <2>7 DEF FallInv
<1> QED
  BY <1>1, <1>2, <1>3, <1>4, <1>5 DEF Next, ReadStatement, ReadOpening

LEMMA FallShows == FlowInv /\ FallInv => FallsOnlyWhereMiscounted
<1> SUFFICES ASSUME FlowInv, FallInv, AtInst, Inst.op = "fall", value, "miscounted" \notin uses
             PROVE  FALSE
  BY DEF FallsOnlyWhereMiscounted
<1>1. phase = "run"
  BY DEF AtInst
<1>2. PICK on \in BOOLEAN : (value => on) /\ Chased(FallHazard(on), TRUE)
  BY <1>1 DEF FallInv
<1>3. PICK hold : hold = TRUE
  OBVIOUS
<1>4. Chased(FallHazard(on), hold)
  BY <1>2, <1>3
<1>5. Inst.op \notin FallHazard(on).bad
  BY <1>1, <1>3, <1>4, RunFacts, Meets
<1> QED
  BY <1>2, <1>5 DEF FallHazard

\* FallsOnlyWhereMiscounted for every program: exprAlwaysTerminates decides from the tree
\* whether control comes behind a construct, and the basic blocks say the same, unless a
\* for-in loop, or an `else (condition)` taken for an else, was counted as terminating.
THEOREM FallsAccounted == Spec => []FallsOnlyWhereMiscounted
<1>1. Spec => []PairInv
  BY FlowHolds, PairInit, PairStep, PTL DEF Spec
<1>2. Spec => []FallInv
  BY FlowHolds, <1>1, FallInit, FallStep, PTL DEF Spec
<1> QED
  BY <1>2, FlowHolds, FallShows, PTL

(***************************************************************************)
(* The pointer.  Where it may be null without the checker having a proof   *)
(* that it is not: it is null from the start, or written so, and the       *)
(* branches on it bar the hazard.                                          *)
(***************************************************************************)
NullHazard(first) ==
  [first |-> first, ends |-> {"set"}, starts |-> {"null"}, bad |-> {"deref"},
   bars |-> {<<"true", FALSE>>, <<"isnull", FALSE>>, <<"notnull", TRUE>>}]

\* The condition proves the pointer to what is read of the construct.
Narrowed(e) ==
  \/ e.part \in {"then", "loop"} /\ e.cond = "notnull"
  \/ e.part = "else" /\ e.cond = "isnull"
\* It was proven before, its condition proves it, or control does not come this far.
Calm(o, k) == o[k].was \/ Narrowed(o[k]) \/ (k >= 2 /\ o[k].ends)
Wild(o, i) == \A k \in 1..i : ~Calm(o, k)
\* The pointer is not null behind the construct unless it comes so out of the
\* branch that is read, or out of those that follow.
ShutNull(o, scs, i) ==
  \/ Shut(o, scs, i)
  \/ o[i].part = "then" /\ o[i].cond = "isnull" /\ ~o[i].has_more
  \/ o[i].part = "else" /\ o[i].cond = "isnull" /\ o[i].others.ends
  \/ scs[i].part = "else" /\ o[i].cond = "notnull"
NullView(o, scs, proof) ==
  [before |-> {i \in 1..(Len(o) + 1) : Wild(o, i - 1) /\ ~(IF i <= Len(o) THEN o[i].was ELSE proof)},
   shut |-> {i \in 1..Len(o) : ShutNull(o, scs, i)},
   cut |-> {i \in 1..Len(o) : o[i].part = "then" /\ o[i].has_more /\ o[i].cond = "isnull"}]

LEMMA NullIs ==
    ASSUME NEW first \in BOOLEAN
    PROVE  Hazard(NullHazard(first))
<1> PICK bars : bars = {<<"true", FALSE>>, <<"isnull", FALSE>>, <<"notnull", TRUE>>}
  OBVIOUS
<1>1. bars \subseteq Conds \X BOOLEAN
  <2>1. {"true", "isnull", "notnull"} \subseteq Conds /\ FALSE \in BOOLEAN /\ TRUE \in BOOLEAN
    BY DEF Conds
  <2>2. /\ <<"true", FALSE>> \in Conds \X BOOLEAN /\ <<"isnull", FALSE>> \in Conds \X BOOLEAN
        /\ <<"notnull", TRUE>> \in Conds \X BOOLEAN
    BY <2>1, EdgeIs
  <2> QED
    BY <2>2, Zenon
<1>2. NullHazard(first) = [first |-> first, ends |-> {"set"}, starts |-> {"null"}, bad |-> {"deref"}, bars |-> bars]
  BY DEF NullHazard
<1>3. [first |-> first, ends |-> {"set"}, starts |-> {"null"}, bad |-> {"deref"}, bars |-> bars] \in Hazards
  BY <1>1 DEF Hazards, Ops
<1>4. ({"set"} \cup {"null"} \cup {"deref"}) \cap Quiet = {}
  BY DEF Quiet
<1> QED
  BY <1>2, <1>3, <1>4 DEF Hazard

LEMMA NullFacts ==
    ASSUME NEW o, NEW scs, NEW proof \in BOOLEAN, NEW n \in Nat \ {0}, n = Len(o), NEW view, view = NullView(o, scs, proof)
    PROVE  /\ \A i \in 1..n : i \in view.before <=> Wild(o, i - 1) /\ ~o[i].was
           /\ n + 1 \in view.before <=> Wild(o, n) /\ ~proof
           /\ \A i \in 1..n : Wild(o, i) <=> Wild(o, i - 1) /\ ~Calm(o, i)
           /\ \A i \in 1..n : i \in view.shut <=> ShutNull(o, scs, i)
           /\ \A i \in 1..n : i \in view.cut <=>
                                o[i].part = "then" /\ o[i].has_more /\ o[i].cond = "isnull"
           /\ n + 1 \in view.before => \A i \in 1..n : i \in view.before
           /\ Wild(o, 0)
<1>1. ASSUME NEW i \in 1..n
      PROVE  i \in view.before <=> Wild(o, i - 1) /\ ~o[i].was
  <2>1. i \in 1..(n + 1) /\ i <= n
    OBVIOUS
  <2> QED
    BY <2>1 DEF NullView
<1>2. n + 1 \in view.before <=> Wild(o, n) /\ ~proof
  <2>1. n + 1 \in 1..(n + 1) /\ ~(n + 1 <= n) /\ (n + 1) - 1 = n
    OBVIOUS
  <2> QED
    BY <2>1 DEF NullView
<1>3. ASSUME NEW i \in 1..n
      PROVE  Wild(o, i) <=> Wild(o, i - 1) /\ ~Calm(o, i)
  <2>1. 1..i = (1..(i - 1)) \cup {i}
    OBVIOUS
  <2> QED
    BY <2>1 DEF Wild
<1>4. \A i \in 1..n : i \in view.shut <=> ShutNull(o, scs, i)
  BY DEF NullView
<1>5. \A i \in 1..n : i \in view.cut <=> o[i].part = "then" /\ o[i].has_more /\ o[i].cond = "isnull"
  BY DEF NullView
<1>6. ASSUME n + 1 \in view.before, NEW i \in 1..n
      PROVE  i \in view.before
  <2>1. Wild(o, n) /\ \A k \in 1..(i - 1) : k \in 1..n
    BY <1>2, <1>6
  <2>2. Wild(o, i - 1) /\ ~o[i].was
    BY <2>1 DEF Wild, Calm
  <2> QED
    BY <1>1, <2>2
<1>7. Wild(o, 0)
  BY DEF Wild
<1> QED
  BY <1>1, <1>2, <1>3, <1>4, <1>5, <1>6, <1>7

\* Of the innermost.
ShutNullBy(e, s) ==
  \/ ShutBy(e, s)
  \/ e.part = "then" /\ e.cond = "isnull" /\ ~e.has_more
  \/ e.part = "else" /\ e.cond = "isnull" /\ e.others.ends
  \/ s.part = "else" /\ e.cond = "notnull"

\* A step of both stacks, and the views before and after it.
NullViews(m, e, s, view, view2) ==
  Steps(m, e, s) /\ view = NullView(open, scopes, proven) /\ view2 = NullView(open', scopes', proven')

LEMMA NullTops ==
    ASSUME Paired, Lowers, NEW m \in 1..(Len(scopes) + 1), NEW e, NEW s, NEW view, NEW view2,
           NullViews(m, e, s, view, view2), proven' \in BOOLEAN
    PROVE  /\ \A i \in 1..(m - 1) : /\ i \in view2.before <=> i \in view.before
                                    /\ i \in view2.shut => i \in view.shut
                                    /\ i \in view2.cut => i \in view.cut
           /\ m \in view2.before <=> Wild(open, m - 1) /\ ~e.was
           /\ m + 1 \in view2.before <=> /\ Wild(open, m - 1) /\ ~e.was /\ ~Narrowed(e)
                                         /\ m >= 2 => ~e.ends
                                         /\ ~proven'
           /\ m \in view2.shut <=> ShutNullBy(e, s)
           /\ m \in view2.cut <=> e.part = "then" /\ e.has_more /\ e.cond = "isnull"
           /\ m <= Len(scopes) /\ Like(e, open[m]) /\ s = scopes[m] =>
                /\ m \in view2.before <=> m \in view.before
                /\ m \in view2.shut => m \in view.shut
                /\ m \in view2.cut => m \in view.cut
<1> DEFINE n == Len(scopes)
<1>1. n \in Nat \ {0} /\ Len(open) = n /\ m \in Nat \ {0}
  BY PairedFacts
<1>2. /\ Len(open') = m /\ open'[m] = e /\ scopes'[m] = s
      /\ \A i \in 1..(m - 1) : open'[i] = open[i] /\ scopes'[i] = scopes[i]
      /\ view = NullView(open, scopes, proven) /\ view2 = NullView(open', scopes', proven')
  BY DEF NullViews, Steps, Tops
<1>3. /\ \A i \in 1..(m - 1) : Shut(open', scopes', i) => Shut(open, scopes, i)
      /\ m <= n /\ Like(e, open[m]) /\ s = scopes[m] =>
           (Shut(open', scopes', m) => Shut(open, scopes, m))
      /\ Shut(open', scopes', m) <=> ShutBy(e, s)
  BY ShutTops DEF NullViews
<1> PICK o, scs, p, o2, scs2, p2 : /\ o = open /\ scs = scopes /\ p = proven
                                   /\ o2 = open' /\ scs2 = scopes' /\ p2 = proven'
  OBVIOUS
<1>20. p \in BOOLEAN /\ p2 \in BOOLEAN
  BY DEF Paired
<1>4. /\ \A i \in 1..n : i \in view.before <=> Wild(o, i - 1) /\ ~o[i].was
      /\ \A i \in 1..n : i \in view.shut <=> ShutNull(o, scs, i)
      /\ \A i \in 1..n : i \in view.cut <=> o[i].part = "then" /\ o[i].has_more /\ o[i].cond = "isnull"
  <2>1. n = Len(o) /\ view = NullView(o, scs, p)
    BY <1>1, <1>2
  <2> QED
    BY <1>1, <1>20, <2>1, NullFacts
<1>5. /\ \A i \in 1..m : i \in view2.before <=> Wild(o2, i - 1) /\ ~o2[i].was
      /\ m + 1 \in view2.before <=> Wild(o2, m) /\ ~p2
      /\ \A i \in 1..m : Wild(o2, i) <=> Wild(o2, i - 1) /\ ~Calm(o2, i)
      /\ \A i \in 1..m : i \in view2.shut <=> ShutNull(o2, scs2, i)
      /\ \A i \in 1..m : i \in view2.cut <=> o2[i].part = "then" /\ o2[i].has_more /\ o2[i].cond = "isnull"
  <2>1. m = Len(o2) /\ view2 = NullView(o2, scs2, p2)
    BY <1>2
  <2> QED
    BY <1>1, <1>20, <2>1, NullFacts
<1>6. o2[m] = e /\ scs2[m] = s /\ \A i \in 1..(m - 1) : o2[i] = o[i] /\ scs2[i] = scs[i]
  BY <1>2
<1>7. m \in 1..(n + 1) /\ m \in 1..m /\ \A i \in 1..(m - 1) : i \in 1..m /\ i \in 1..n
  BY <1>1
<1> HIDE DEF n
<1>8. ASSUME NEW i \in 1..m
      PROVE  Wild(o2, i - 1) <=> Wild(o, i - 1)
  <2>1. \A j \in 1..(i - 1) : j \in 1..(m - 1)
    BY <1>1
  <2> QED
    BY <1>6, <2>1 DEF Wild, Calm
<1>9. ASSUME NEW i \in 1..(m - 1)
      PROVE  /\ i \in view2.before <=> i \in view.before
             /\ i \in view2.shut => i \in view.shut
             /\ i \in view2.cut => i \in view.cut
  <2>1. i \in 1..m /\ i \in 1..n /\ o2[i] = o[i] /\ scs2[i] = scs[i]
    BY <1>6, <1>7
  <2>2. (i \in view2.before <=> i \in view.before) /\ (i \in view2.cut => i \in view.cut)
    BY <1>4, <1>5, <1>8, <2>1
  <2>3. ShutNull(o2, scs2, i) => ShutNull(o, scs, i)
    BY <1>3, <2>1 DEF ShutNull
  <2> QED
    BY <1>4, <1>5, <2>1, <2>2, <2>3
<1>10. m \in view2.before <=> Wild(o, m - 1) /\ ~e.was
  BY <1>5, <1>6, <1>7, <1>8
<1>11. m + 1 \in view2.before <=> /\ Wild(o, m - 1) /\ ~e.was /\ ~Narrowed(e)
                                  /\ m >= 2 => ~e.ends
                                  /\ ~p2
  <2>1. Calm(o2, m) <=> e.was \/ Narrowed(e) \/ (m >= 2 /\ e.ends)
    BY <1>6 DEF Calm
  <2> QED
    BY <1>5, <1>7, <1>8, <2>1
<1>12. m \in view2.shut <=> ShutNullBy(e, s)
  BY <1>3, <1>5, <1>6, <1>7 DEF ShutNull, ShutNullBy
<1>13. m \in view2.cut <=> e.part = "then" /\ e.has_more /\ e.cond = "isnull"
  BY <1>5, <1>6, <1>7
<1>14. ASSUME m <= n, Like(e, open[m]), s = scopes[m]
       PROVE  /\ m \in view2.before <=> m \in view.before
              /\ m \in view2.shut => m \in view.shut
              /\ m \in view2.cut => m \in view.cut
  <2>1. m \in 1..n
    BY <1>1, <1>14
  <2>2. /\ e.part = o[m].part /\ e.cond = o[m].cond /\ e.has_more = o[m].has_more
        /\ e.was = o[m].was /\ e.others = o[m].others /\ s = scs[m]
    BY <1>14 DEF Like
  <2>3. (m \in view2.before <=> m \in view.before) /\ (m \in view2.cut => m \in view.cut)
    BY <1>4, <1>10, <1>13, <2>1, <2>2
  <2>4. ShutNull(o2, scs2, m) => ShutNull(o, scs, m)
    BY <1>3, <1>6, <1>14, <2>2 DEF ShutNull
  <2> QED
    BY <1>4, <1>5, <1>7, <2>1, <2>3, <2>4
<1> QED
  BY <1>9, <1>10, <1>11, <1>12, <1>13, <1>14 DEF n

LEMMA NullLooser ==
    ASSUME Paired, Lowers, NEW m \in 1..(Len(scopes) + 1), NEW e, NEW s, NEW view, NEW view2,
           NullViews(m, e, s, view, view2), proven' \in BOOLEAN
    PROVE  /\ Looser(m - 1, view, view2)
           /\ m <= Len(scopes) /\ Like(e, open[m]) /\ s = scopes[m] => Looser(m, view, view2)
<1>1. m \in Nat \ {0}
  BY PairedFacts
<1>2. ASSUME NEW i \in 2..(m - 1)
      PROVE  Relaxed(scopes[i], i, view, view2)
  <2>1. i \in 1..(m - 1)
    BY <1>1
  <2> QED
    BY <2>1, NullTops DEF Relaxed
<1>3. ASSUME m <= Len(scopes), Like(e, open[m]), s = scopes[m], NEW i \in 2..m
      PROVE  Relaxed(scopes[i], i, view, view2)
  <2>1. CASE i = m
    BY <1>3, <2>1, NullTops DEF Relaxed
  <2>2. CASE i # m
    <3>1. i \in 2..(m - 1)
      BY <1>1, <2>2
    <3> QED
      BY <1>2, <3>1
  <2> QED
    BY <2>1, <2>2
<1> QED
  BY <1>2, <1>3 DEF Looser

\* What the proofs of the checker come from: the construct itself, or before it.
Grounded ==
  /\ Len(open) >= 2 /\ proven => open[Len(open)].was \/ Narrowed(open[Len(open)])
  /\ \A k \in 3..Len(open) : open[k].was => open[k - 1].was \/ Narrowed(open[k - 1])
  /\ ~open[1].was

LEMMA GroundedTops ==
    ASSUME Paired, Lowers, Grounded, NEW m \in 1..(Len(scopes) + 1), NEW e,
           Len(open') = m, open'[m] = e, \A i \in 1..(m - 1) : open'[i] = open[i],
           m >= 2 /\ proven' => e.was \/ Narrowed(e),
           m >= 3 /\ e.was => open[m - 1].was \/ Narrowed(open[m - 1]),
           m = 1 => ~e.was
    PROVE  Grounded'
<1>1. /\ Len(scopes) \in Nat \ {0} /\ Len(open) = Len(scopes) /\ m \in Nat \ {0}
      /\ Len(open') = m /\ open'[m] = e /\ \A i \in 1..(m - 1) : open'[i] = open[i]
  BY PairedFacts
<1>2. Len(open') >= 2 /\ proven' => open'[Len(open')].was \/ Narrowed(open'[Len(open')])
  BY <1>1
<1>3. ASSUME NEW k \in 3..m, open'[k].was
      PROVE  open'[k - 1].was \/ Narrowed(open'[k - 1])
  <2>1. k - 1 \in 1..(m - 1)
    BY <1>1
  <2>2. CASE k = m
    BY <1>1, <1>3, <2>1, <2>2
  <2>3. CASE k # m
    <3>1. k \in 1..(m - 1) /\ k \in 3..Len(open)
      BY <1>1, <2>3
    <3> QED
      BY <1>1, <1>3, <2>1, <3>1 DEF Grounded
  <2> QED
    BY <2>2, <2>3
<1>4. ~open'[1].was
  <2>1. CASE m = 1
    BY <1>1, <2>1
  <2>2. CASE m # 1
    <3>1. 1 \in 1..(m - 1)
      BY <1>1, <2>2
    <3> QED
      BY <1>1, <3>1 DEF Grounded
  <2> QED
    BY <2>1, <2>2
<1> QED
  BY <1>1, <1>2, <1>3, <1>4 DEF Grounded

\* A statement.
LEMMA StatementGrounded ==
    ASSUME Paired, Lowers, Grounded, ReadStatement
    PROVE  Grounded'
<1>1. proven' = proven \/ proven' = FALSE
  BY DEF ReadStatement, ReadProp, ReadAssert, ReadMust, ReadIndex, ReadDefer, ReadContinue, ReadSetNull,
         ReadSet, ReadDeref, ReadRead, ReadMove, ReadAssign, ReadUpdate, CheckOther, checker, CheckWrite,
         CheckDeref, CheckRead, CheckMove, CheckAssign, ReadReturn, ReadReturnProp, CheckReturn, ReadBreak,
         CheckBreak
<1>2. ASSUME NEW ends \in BOOLEAN, NEW breaks \in BOOLEAN, Stays(ends, breaks)
      PROVE  Grounded'
  <2>1. PICK n, e, s : n = Len(scopes) /\ e = Noted(Inner, ends, breaks) /\ s = Last(scopes)
    OBVIOUS
  <2>2. n \in Nat \ {0} /\ Len(open) = n /\ n \in 1..(n + 1) /\ (n >= 3 => n \in 3..n)
    BY <2>1, PairedFacts
  <2>3. Tops(n, e, s) /\ Like(e, open[n])
    BY <1>2, <2>1, StaySteps DEF Steps
  <2>4. e.was = open[n].was /\ (Narrowed(e) <=> Narrowed(open[n]))
    BY <2>3 DEF Like, Narrowed
  <2>5. /\ n >= 2 /\ proven' => e.was \/ Narrowed(e)
        /\ n >= 3 /\ e.was => open[n - 1].was \/ Narrowed(open[n - 1])
        /\ n = 1 => ~e.was
    BY <1>1, <2>2, <2>4 DEF Grounded
  <2>6. Len(open') = n /\ open'[n] = e /\ \A i \in 1..(n - 1) : open'[i] = open[i]
    BY <2>3 DEF Tops
  <2> QED
    BY <2>1, <2>2, <2>5, <2>6, GroundedTops
<1>3. CASE open' = open
  BY <1>1, <1>3 DEF Grounded
<1>4. CASE ReadReturn \/ ReadReturnProp \/ ReadBreak
  <2>1. PICK ends \in BOOLEAN, breaks \in BOOLEAN : /\ ends <=> ReadReturn \/ ReadReturnProp
                                                   /\ breaks <=> ~(ReadReturn \/ ReadReturnProp)
    OBVIOUS
  <2>2. Stays(TRUE, FALSE) \/ Stays(FALSE, TRUE)
    BY <1>4, StatementStays
  <2>3. \A x \in BOOLEAN, y \in BOOLEAN : Stays(x, y) => Grounded'
    BY <1>2
  <2> QED
    BY <2>2, <2>3
<1> QED
  BY <1>3, <1>4, StatementStays

LEMMA NullStays ==
    ASSUME Paired, Lowers, NEW ends \in BOOLEAN, NEW breaks \in BOOLEAN, Stays(ends, breaks),
           NEW view, NEW view2, proven' \in BOOLEAN,
           view = NullView(open, scopes, proven), view2 = NullView(open', scopes', proven')
    PROVE  Looser(Len(scopes), view, view2)
<1> PICK n, e, s : n = Len(scopes) /\ e = Noted(Inner, ends, breaks) /\ s = Last(scopes)
  OBVIOUS
<1>1. n \in Nat \ {0} /\ n \in 1..(n + 1) /\ s = scopes[n]
  BY PairedFacts
<1>2. Steps(n, e, s) /\ Like(e, open[n])
  BY StaySteps
<1>3. NullViews(n, e, s, view, view2)
  BY <1>2 DEF NullViews
<1> QED
  BY <1>1, <1>2, <1>3, NullLooser

LEMMA NullSame ==
    ASSUME Paired, Lowers, open' = open, scopes' = scopes, proven' \in BOOLEAN, NEW view, NEW view2,
           view = NullView(open, scopes, proven), view2 = NullView(open', scopes', proven')
    PROVE  /\ Looser(Len(scopes), view, view2)
           /\ Here2(view) <=> Wild(open, Len(scopes)) /\ ~proven
           /\ Here2(view2) <=> Wild(open, Len(scopes)) /\ ~proven'
<1> PICK n, o, scs : n = Len(scopes) /\ o = open /\ scs = scopes
  OBVIOUS
<1>1. n \in Nat \ {0} /\ Len(o) = n /\ \A i \in 2..n : i \in 1..n
  BY PairedFacts
<1>2. proven \in BOOLEAN /\ view = NullView(o, scs, proven) /\ view2 = NullView(o, scs, proven')
  BY DEF Paired
<1>3. ASSUME NEW p \in BOOLEAN, NEW v, v = NullView(o, scs, p)
      PROVE  /\ \A i \in 1..n : i \in v.before <=> Wild(o, i - 1) /\ ~o[i].was
             /\ n + 1 \in v.before <=> Wild(o, n) /\ ~p
             /\ \A i \in 1..n : i \in v.shut <=> ShutNull(o, scs, i)
             /\ \A i \in 1..n : i \in v.cut <=> o[i].part = "then" /\ o[i].has_more /\ o[i].cond = "isnull"
  BY <1>1, <1>3, NullFacts
<1>4. /\ \A i \in 1..n : i \in view.before <=> Wild(o, i - 1) /\ ~o[i].was
      /\ n + 1 \in view.before <=> Wild(o, n) /\ ~proven
      /\ \A i \in 1..n : i \in view.shut <=> ShutNull(o, scs, i)
      /\ \A i \in 1..n : i \in view.cut <=> o[i].part = "then" /\ o[i].has_more /\ o[i].cond = "isnull"
  BY <1>2, <1>3
<1>5. /\ \A i \in 1..n : i \in view2.before <=> Wild(o, i - 1) /\ ~o[i].was
      /\ n + 1 \in view2.before <=> Wild(o, n) /\ ~proven'
      /\ \A i \in 1..n : i \in view2.shut <=> ShutNull(o, scs, i)
      /\ \A i \in 1..n : i \in view2.cut <=> o[i].part = "then" /\ o[i].has_more /\ o[i].cond = "isnull"
  BY <1>2, <1>3
<1>6. Looser(Len(scopes), view, view2)
  BY <1>1, <1>4, <1>5 DEF Looser, Relaxed
<1> QED
  BY <1>4, <1>5, <1>6 DEF Here2

LEMMA BodyWild ==
    ASSUME Paired, Lowers, Grounded, ~(Len(scopes) > 1)
    PROVE  Wild(open, Len(scopes))
<1>1. Len(scopes) = 1 /\ 1 \in 1..Len(scopes) /\ \A k \in 1..1 : k = 1
  BY PairedFacts
<1>2. open[1].part = "body"
  BY <1>1, PairedFacts DEF Pairs
<1>3. ~Calm(open, 1)
  BY <1>2 DEF Calm, Narrowed, Grounded
<1> QED
  BY <1>1, <1>3 DEF Wild

\* The program has none of what ProofsHold excepts.
Proper == {"nested write", "nested proof", "else-if proof", "miscounted"} \cap uses = {}

\* The instructions on the pointer and the local.
LEMMA NullPlain ==
    ASSUME NEW first \in BOOLEAN, NEW h, h = NullHazard(first), NEW T, NEW view, Followed(h, T, view),
           Paired, Paired', Grounded, ReadPlain, Proper', NEW view2,
           view = NullView(open, scopes, proven), view2 = NullView(open', scopes', proven')
    PROVE  \E T2 : Kept(h, T2, view2)'
<1>1. Lowers
  BY DEF Followed
<1>2. open' = open /\ scopes' = scopes /\ proven' \in BOOLEAN
  <2>1. ReadStatement /\ (open' = open \/ ~(ReadReturn \/ ReadReturnProp \/ ReadBreak))
    BY DEF ReadPlain, ReadStatement, ReadSetNull, ReadSet, ReadDeref, ReadRead, ReadMove, ReadAssign,
           ReadUpdate, CheckWrite, CheckDeref, CheckRead, CheckMove, CheckAssign, checker
  <2> QED
    BY <1>1, <2>1, StatementStays
<1>3. Looser(Len(scopes), view, view2)
  BY <1>1, <1>2, NullSame
<1>4. /\ Here2(view) <=> Wild(open, Len(scopes)) /\ ~proven
      /\ Here2(view2) <=> Wild(open, Len(scopes)) /\ ~proven'
  BY <1>1, <1>2, NullSame
<1>5. h.ends = {"set"} /\ h.starts = {"null"} /\ h.bad = {"deref"}
  BY DEF NullHazard
<1>6. CASE ReadSetNull
  <2>1. (Plain("null") \/ Skip) /\ ~proven' /\ "null" \in Ops
    BY <1>6 DEF ReadSetNull, CheckWrite, Ops
  <2>2. ~(Len(scopes) > 1)
    BY <1>6 DEF ReadSetNull, Reads, Proper
  <2>3. Here2(view2)
    BY <1>1, <1>4, <2>1, <2>2, BodyWild
  <2> QED
    BY <1>3, <1>5, <2>1, <2>3, PlainKept
<1>7. CASE ReadSet
  <2>1. (Plain("set") \/ Skip) /\ "set" \in Ops
    BY <1>7 DEF ReadSet, Ops
  <2> QED
    BY <1>3, <1>5, <2>1, PlainKept
<1>8. CASE ReadDeref
  <2>1. (Plain("deref") \/ Skip) /\ proven /\ "deref" \in Ops
    BY <1>8 DEF ReadDeref, CheckDeref, Ops
  <2> QED
    BY <1>3, <1>4, <1>5, <2>1, PlainKept
<1>9. CASE ReadRead \/ ReadMove \/ ReadAssign \/ ReadUpdate
  <2>1. PICK op \in {"read", "move", "assign", "update"} : Plain(op) \/ Skip
    BY <1>9 DEF ReadRead, ReadMove, ReadAssign, ReadUpdate
  <2>2. proven' = proven
    BY <1>9 DEF ReadRead, ReadMove, ReadAssign, ReadUpdate, CheckRead, CheckMove, CheckAssign, checker
  <2>3. op \in Ops /\ op \notin h.bad /\ op \notin h.starts
    BY <1>5 DEF Ops
  <2>4. Here2(view) => Here2(view2)
    BY <1>4, <2>2
  <2> QED
    BY <1>3, <2>1, <2>3, <2>4, PlainKept
<1> QED
  BY <1>6, <1>7, <1>8, <1>9 DEF ReadPlain

LEMMA NullStatement ==
    ASSUME NEW first \in BOOLEAN, NEW h, h = NullHazard(first), NEW T, NEW view, Followed(h, T, view),
           Paired, Paired', Grounded, ReadStatement, Proper', NEW view2,
           view = NullView(open, scopes, proven), view2 = NullView(open', scopes', proven')
    PROVE  \E T2 : Kept(h, T2, view2)'
<1>1. Lowers
  BY DEF Followed
<1>12. proven \in BOOLEAN /\ proven' \in BOOLEAN
  BY DEF Paired
<1>2. /\ Len(scopes) \in Nat \ {0} /\ Len(open) = Len(scopes)
      /\ \A i \in 2..Len(scopes) : i \in 1..Len(scopes)
  BY <1>1, PairedFacts
<1>3. Here2(view) => \A i \in 2..Len(scopes) : i \in view.before
  <2>1. PICK n, o, scs : n = Len(scopes) /\ o = open /\ scs = scopes
    OBVIOUS
  <2>2. n \in Nat \ {0} /\ n = Len(o) /\ view = NullView(o, scs, proven)
    BY <1>2, <2>1
  <2>3. n + 1 \in view.before => \A i \in 1..n : i \in view.before
    BY <1>12, <2>2, NullFacts
  <2> QED
    BY <1>2, <2>1, <2>3 DEF Here2
<1>4. Looser(Len(scopes), view, view)
  BY DEF Looser, Relaxed
<1>5. scopes' = scopes
  BY <1>1, StatementStays
<1>6. ASSUME open' = open, proven' = proven
      PROVE  view2 = view
  BY <1>5, <1>6
<1>7. CASE ReadReturn \/ ReadReturnProp
  <2>1. Stays(TRUE, FALSE)
    BY <1>1, <1>7, StatementStays
  <2>2. PICK ends \in BOOLEAN, breaks \in BOOLEAN : ends = TRUE /\ breaks = FALSE
    OBVIOUS
  <2>3. Stays(ends, breaks)
    BY <2>1, <2>2
  <2>4. Looser(Len(scopes), view, view2)
    BY <1>1, <1>12, <2>3, NullStays
  <2> QED
    BY <1>7, <2>4, ReturnKept
<1>8. CASE ReadBreak
  <2>1. Stays(FALSE, TRUE)
    BY <1>1, <1>8, StatementStays
  <2>2. PICK ends \in BOOLEAN, breaks \in BOOLEAN : ends = FALSE /\ breaks = TRUE /\ breaks
    OBVIOUS
  <2>3. Stays(ends, breaks)
    BY <2>1, <2>2
  <2>4. Looser(Len(scopes), view, view2)
    BY <1>1, <1>12, <2>3, NullStays
  <2>5. ASSUME NEW i \in 2..Len(scopes), scopes[i].part = "loop"
        PROVE  i \notin view2.shut
    <3>1. PICK n, o, scs : n = Len(scopes) /\ o = open' /\ scs = scopes'
      OBVIOUS
    <3>2. n \in Nat \ {0} /\ n = Len(o) /\ i \in 1..n /\ n \in i..n /\ scs[i].part = "loop"
      BY <1>2, <1>5, <2>3, <2>5, <3>1 DEF Stays, Tops
    <3>3. i \in view2.shut <=> ShutNull(o, scs, i)
      <4>1. view2 = NullView(o, scs, proven')
        BY <3>1
      <4> QED
        BY <1>12, <3>2, <4>1, NullFacts
    <3>4. Pairs(o[i], scs[i], i)
      BY <1>5, <3>1, <3>2 DEF Paired
    <3>5. o[n].breaks
      <4>1. o[n] = Noted(Inner, ends, breaks)
        BY <2>3, <3>1 DEF Stays, Tops
      <4> QED
        BY <1>1, <2>2, <2>3, <4>1, StaySteps
    <3>6. ~Endless(o, i)
      BY <3>2, <3>5 DEF Endless, exprContainsBreak
    <3> QED
      BY <3>2, <3>3, <3>4, <3>6 DEF Shut, ShutNull, Pairs
  <2> QED
    BY <1>3, <1>8, <2>4, <2>5, LeaveKept
<1>9. CASE ReadContinue
  <2>1. open' = open /\ proven' = proven
    BY <1>9 DEF ReadContinue, CheckOther, checker
  <2>2. view2 = view
    BY <1>6, <2>1
  <2>3. Looser(Len(scopes), view, view2)
    BY <1>4, <2>2
  <2>4. ASSUME ReadBreak
        PROVE  \E T2 : Kept(h, T2, view2)'
    BY <1>8, <2>4
  <2>5. CASE ~ReadBreak
    BY <1>3, <1>9, <2>3, <2>5, LeaveKept
  <2> QED
    BY <2>4, <2>5
<1>10. CASE ReadSteady
  <2>1. open' = open /\ proven' = proven
    BY <1>10 DEF ReadSteady, ReadProp, ReadAssert, ReadMust, ReadIndex, ReadDefer, CheckOther, checker
  <2>2. view2 = view
    BY <1>6, <2>1
  <2> QED
    BY <1>4, <1>10, <2>2, SteadyKept
<1>11. CASE ReadPlain
  BY <1>11, NullPlain
<1> QED
  BY <1>7, <1>8, <1>9, <1>10, <1>11 DEF ReadStatement, ReadSteady, ReadPlain

LEMMA NullBars ==
    ASSUME NEW first \in BOOLEAN, NEW h, h = NullHazard(first), NEW cond
    PROVE  /\ <<cond, TRUE>> \in h.bars <=> cond = "notnull"
           /\ <<cond, FALSE>> \in h.bars <=> cond \in {"true", "isnull"}
  BY DEF NullHazard

LEMMA NullOpens ==
    ASSUME NEW first \in BOOLEAN, NEW h, h = NullHazard(first), NEW T, NEW view, Followed(h, T, view),
           Paired, Paired', ReadOpening, NEW view2,
           view = NullView(open, scopes, proven), view2 = NullView(open', scopes', proven')
    PROVE  \E T2 : Kept(h, T2, view2)'
<1>1. Lowers /\ proven \in BOOLEAN /\ proven' \in BOOLEAN
  BY DEF Followed, Paired
<1>2. ASSUME NEW part \in OpenParts, NEW cond \in Conds \cup {"default"}, NEW more \in BOOLEAN, NEW s,
             OpensAs(part, cond, more, s)
      PROVE  OpenFits(h, view, view2, part, cond, more)
  <2>1. PICK e, m : e = Opened(part, cond, more, proven, NoBranches) /\ m = Len(scopes) + 1
    OBVIOUS
  <2>2. e.part = part /\ e.cond = cond /\ (e.has_more <=> more) /\ (e.was <=> proven) /\ ~e.ends
    BY <2>1, PushedBits, OpenedIs
  <2>3. Steps(m, e, s) /\ s.part # "else" /\ part # "else"
    BY <1>1, <1>2, <2>1, OpenSteps DEF OpensAs
  <2>4. NullViews(m, e, s, view, view2)
    BY <2>3 DEF NullViews
  <2>5. /\ Len(scopes) \in Nat \ {0} /\ m \in 1..(Len(scopes) + 1) /\ m - 1 = Len(scopes)
        /\ m + 1 = Len(scopes) + 2 /\ Len(open) = Len(scopes)
    BY <1>1, <2>1, PairedFacts
  <2>6. Looser(m - 1, view, view2)
    BY <1>1, <2>4, <2>5, NullLooser
  <2>7. /\ m \in view2.before <=> Wild(open, m - 1) /\ ~e.was
        /\ m + 1 \in view2.before <=> /\ Wild(open, m - 1) /\ ~e.was /\ ~Narrowed(e)
                                      /\ m >= 2 => ~e.ends
                                      /\ ~proven'
        /\ m \in view2.shut <=> ShutNullBy(e, s)
        /\ m \in view2.cut <=> e.part = "then" /\ e.has_more /\ e.cond = "isnull"
    BY <1>1, <2>4, <2>5, NullTops
  <2>8. m \in view.before <=> Wild(open, m - 1) /\ ~proven
    <3>1. PICK n, o, scs : n = Len(scopes) /\ o = open /\ scs = scopes
      OBVIOUS
    <3>2. n \in Nat \ {0} /\ n = Len(o) /\ view = NullView(o, scs, proven)
      BY <2>5, <3>1
    <3>3. n + 1 \in view.before <=> Wild(o, n) /\ ~proven
      BY <1>1, <3>2, NullFacts
    <3> QED
      BY <2>1, <2>5, <3>1, <3>3
  <2>9. (Here2(view) <=> m \in view.before) /\ (Here2(view2) <=> m \in view2.before)
    BY <2>1 DEF Here2
  <2>10. proven' <=> proven \/ (part \in {"then", "loop"} /\ cond = "notnull")
    BY <1>2 DEF OpensAs
  <2>11. /\ <<cond, TRUE>> \in h.bars <=> cond = "notnull"
         /\ <<cond, FALSE>> \in h.bars <=> cond \in {"true", "isnull"}
    BY NullBars
  <2>12. Here2(view) <=> Here2(view2)
    BY <2>2, <2>7, <2>8, <2>9
  <2>13. Here2(view) /\ (part \in {"then", "loop"} => <<cond, TRUE>> \notin h.bars) => m + 1 \in view2.before
    BY <2>2, <2>3, <2>7, <2>8, <2>9, <2>10, <2>11 DEF Narrowed
  <2>14. m \in view2.shut /\ (part = "then" => ~more) =>
           \/ part \in {"then", "loop"} /\ <<cond, FALSE>> \in h.bars
           \/ part = "case" /\ cond = "default"
    BY <2>2, <2>3, <2>7, <2>11 DEF ShutNullBy, ShutBy
  <2>15. m \in view2.cut => part = "then" /\ more /\ <<cond, FALSE>> \in h.bars
    BY <2>2, <2>7, <2>11
  <2> QED
    BY <2>1, <2>5, <2>6, <2>12, <2>13, <2>14, <2>15 DEF OpenFits
<1> QED
  BY <1>2, ConstructOpens

LEMMA OpeningGrounded ==
    ASSUME Paired, Lowers, Grounded, ReadOpening
    PROVE  Grounded'
<1>1. ASSUME NEW part, NEW cond, NEW more, NEW e, e = Opened(part, cond, more, proven, NoBranches),
             open' = Append(open, e), proven' => proven \/ (part \in {"then", "loop"} /\ cond = "notnull")
      PROVE  Grounded'
  <2>1. PICK n, m : n = Len(scopes) /\ m = n + 1
    OBVIOUS
  <2>2. /\ n \in Nat \ {0} /\ Len(open) = n /\ m \in 1..(Len(scopes) + 1) /\ m - 1 = n /\ m # 1
        /\ (m >= 3 => n >= 2)
    BY <2>1, PairedFacts
  <2>3. Len(open') = m /\ open'[m] = e /\ \A i \in 1..(m - 1) : open'[i] = open[i]
    <3>1. open \in Seq(OpenRecords)
      BY DEF Paired
    <3> QED
      BY <1>1, <2>1, <2>2, <3>1, Appended
  <2>4. e.part = part /\ e.cond = cond /\ e.was = proven
    BY <1>1 DEF Opened
  <2>5. m >= 2 /\ proven' => e.was \/ Narrowed(e)
    BY <1>1, <2>4 DEF Narrowed
  <2>6. m >= 3 /\ e.was => open[m - 1].was \/ Narrowed(open[m - 1])
    BY <2>2, <2>4 DEF Grounded
  <2> QED
    BY <2>2, <2>3, <2>5, <2>6, GroundedTops
<1>2. CASE ReadBlock
  BY <1>1, <1>2 DEF ReadBlock, CheckBlock
<1>3. CASE ReadIf
  <2>1. PICK cond, other : inferIf(cond, other # "none")
    BY <1>3 DEF ReadIf
  <2>2. PICK more : more = (other # "none")
    OBVIOUS
  <2> QED
    BY <1>1, <2>1, <2>2 DEF inferIf
<1>4. CASE ReadWhile \/ ReadFor
  <2>1. PICK cond : inferLoop(cond)
    BY <1>4 DEF ReadWhile, ReadFor
  <2> QED
    BY <1>1, <2>1 DEF inferLoop
<1>5. CASE ReadForIn
  <2>1. open' = Append(open, Opened("forin", "opaque", FALSE, proven, NoBranches)) /\ proven' = proven
    BY <1>5 DEF ReadForIn, inferForIn
  <2> QED
    BY <1>1, <2>1
<1>6. CASE ReadWhen
  <2>1. PICK cases, has_default : inferWhen(cases, has_default)
    BY <1>6 DEF ReadWhen
  <2>2. PICK more, cond : more = (cases > 1) /\ cond = IF has_default THEN "default" ELSE "opaque"
    OBVIOUS
  <2> QED
    BY <1>1, <2>1, <2>2 DEF inferWhen
<1> QED
  BY <1>2, <1>3, <1>4, <1>5, <1>6 DEF ReadOpening

\* What the end of a construct leaves proven.
LEMMA ProofAfter ==
    ASSUME Paired, Lowers, Grounded, ReadClose, ~Inner.has_more, proven'
    PROVE  \/ Inner.was
           \/ Inner.part \in {"then", "else"} /\ Narrows(Inner.cond) /\ KeepsProof(Inner)
<1>1. PICK n, in : n = Len(scopes) /\ in = Inner
  OBVIOUS
<1>2. n > 1 /\ n \in Nat \ {0} /\ Len(open) = n /\ in = open[n]
  BY <1>1, PairedFacts, ClosingFacts
<1>3. proven => in.was \/ Narrowed(in)
  BY <1>2 DEF Grounded
<1>4. proven' = CASE in.part \in {"then", "else"} /\ Narrows(in.cond) -> in.was \/ KeepsProof(in)
                  [] in.part = "loop" /\ in.cond = "notnull" -> FALSE
                  [] OTHER -> proven
  BY <1>1, ClosingFacts DEF ReadClose, EndConstruct
<1>5. CASE in.part \in {"then", "else"} /\ Narrows(in.cond)
  <2>1. proven' = (in.was \/ KeepsProof(in))
    BY <1>4, <1>5
  <2> QED
    BY <1>1, <1>5, <2>1
<1>6. CASE ~(in.part \in {"then", "else"} /\ Narrows(in.cond)) /\ in.part = "loop" /\ in.cond = "notnull"
  <2>1. proven' = FALSE
    BY <1>4, <1>6
  <2> QED
    BY <2>1
<1>7. CASE ~(in.part \in {"then", "else"} /\ Narrows(in.cond)) /\ ~(in.part = "loop" /\ in.cond = "notnull")
  <2>1. proven' = proven
    BY <1>4, <1>7
  <2>2. ~Narrowed(in)
    BY <1>7 DEF Narrowed, Narrows
  <2> QED
    BY <1>1, <1>3, <2>1, <2>2
<1> QED
  BY <1>5, <1>6, <1>7

LEMMA ClosingGrounded ==
    ASSUME Paired, Lowers, Grounded, ReadClose, Proper'
    PROVE  Grounded'
<1> PICK n, in : n = Len(scopes) /\ in = Inner
  OBVIOUS
<1>1. /\ n \in Nat \ {0} /\ n > 1 /\ Len(open) = n /\ in = open[n] /\ in \in OpenRecords
      /\ n \in 1..(Len(scopes) + 1) /\ (n >= 3 => n \in 3..n)
  BY PairedFacts, ClosingFacts
<1>2. /\ n >= 3 /\ in.was => open[n - 1].was \/ Narrowed(open[n - 1])
      /\ proven => in.was \/ Narrowed(in)
  BY <1>1 DEF Grounded
<1>3. CASE in.has_more
  <2>1. PICK e, s : /\ Tops(n, e, s) /\ e.part = (IF in.part = "then" THEN "else" ELSE "case")
                    /\ e.cond = in.cond /\ (e.was <=> in.was)
                    /\ proven' = IF Narrows(in.cond) THEN in.cond = "isnull" ELSE proven
    BY <1>3, CloseTurns
  <2>2. /\ in.part \in {"then", "case"}
        /\ in.part = "case" => ~Narrows(in.cond)
    <3>1. Pairs(in, Last(scopes), n)
      BY PairedFacts
    <3> QED
      BY <1>1, <1>3, <3>1 DEF Pairs, Narrows, OpenRecords, OpenParts
  <2>3. proven' => e.was \/ Narrowed(e)
    <3>1. CASE Narrows(in.cond)
      <4>1. proven' = (in.cond = "isnull")
        BY <2>1, <3>1
      <4> QED
        BY <2>1, <2>2, <3>1, <4>1 DEF Narrowed
    <3>2. CASE ~Narrows(in.cond)
      <4>1. proven' = proven
        BY <2>1, <3>2
      <4>2. ~Narrowed(in)
        BY <3>2 DEF Narrowed, Narrows
      <4> QED
        BY <1>2, <2>1, <4>1, <4>2
    <3> QED
      BY <3>1, <3>2
  <2>4. Len(open') = n /\ open'[n] = e /\ \A i \in 1..(n - 1) : open'[i] = open[i]
    BY <2>1 DEF Tops
  <2>5. n # 1 /\ (n >= 3 /\ e.was => open[n - 1].was \/ Narrowed(open[n - 1]))
    BY <1>1, <1>2, <2>1
  <2> QED
    BY <1>1, <2>3, <2>4, <2>5, GroundedTops
<1>4. CASE ~in.has_more
  <2>1. PICK ends \in BOOLEAN, breaks \in BOOLEAN :
               ends = exprAlwaysTerminates(Inner) /\ breaks = exprContainsBreak(Inner)
    BY <1>4, CloseShrinks
  <2>2. PICK m, e : m = n - 1 /\ e = Noted(open[m], ends, breaks)
    OBVIOUS
  <2>3. Steps(m, e, scopes[m]) /\ Like(e, open[m])
    BY <1>4, <2>1, <2>2, ShrinkSteps
  <2>4. /\ m \in 1..(Len(scopes) + 1) /\ m \in Nat \ {0} /\ Len(open) = n
        /\ (m >= 2 => n >= 3) /\ (m >= 3 => m \in 3..Len(open))
    BY <1>1, <2>2
  <2>5. Len(open') = m /\ open'[m] = e /\ \A i \in 1..(m - 1) : open'[i] = open[i]
    BY <2>3 DEF Steps, Tops
  <2>6. e.was = open[m].was /\ (Narrowed(e) <=> Narrowed(open[m]))
    BY <2>3 DEF Like, Narrowed
  <2>7. ASSUME m >= 2, proven'
        PROVE  e.was \/ Narrowed(e)
    <3>1. ~(in.part \in {"then", "else"} /\ KeepsProof(in))
      <4>1. Len(open) > 2
        BY <1>1, <2>4, <2>7
      <4>2. LeaksProof => "nested proof" \in uses'
        BY <1>4 DEF ReadClose
      <4>3. "nested proof" \notin uses'
        BY DEF Proper
      <4> QED
        BY <4>1, <4>2, <4>3 DEF LeaksProof
    <3>2. in.was
      BY <1>4, <2>7, <3>1, ProofAfter
    <3> QED
      BY <1>2, <2>2, <2>4, <2>6, <2>7, <3>2
  <2>8. m >= 3 /\ e.was => open[m - 1].was \/ Narrowed(open[m - 1])
    BY <2>4, <2>6 DEF Grounded
  <2>9. m = 1 => ~e.was
    BY <2>6 DEF Grounded
  <2> QED
    BY <2>4, <2>5, <2>7, <2>8, <2>9, GroundedTops
<1> QED
  BY <1>3, <1>4

\* A further branch, of an if or of a when.
LEMMA NullTurns ==
    ASSUME Paired, Lowers, Grounded, ReadClose, Inner.has_more, proven' \in BOOLEAN, NEW view, NEW view2,
           view = NullView(open, scopes, proven), view2 = NullView(open', scopes', proven')
    PROVE  Looser(Len(scopes) - 1, view, view2) /\ Branching(view, view2, Last(scopes))
<1> PICK n, in, s, o, scs : n = Len(scopes) /\ in = Inner /\ s = Last(scopes) /\ o = open /\ scs = scopes
  OBVIOUS
<1>1. /\ n \in Nat \ {0} /\ n > 1 /\ Len(o) = n /\ in = o[n] /\ s = scs[n] /\ in \in OpenRecords
      /\ n \in 1..n /\ n \in 1..(Len(scopes) + 1) /\ Pairs(in, s, n) /\ proven \in BOOLEAN
  BY PairedFacts, ClosingFacts DEF Paired
<1>2. PICK e, s2 : /\ Tops(n, e, s2) /\ Follows2(s2, s)
                   /\ in.part = "then" <=> s.part = "then"
                   /\ e.part = (IF in.part = "then" THEN "else" ELSE "case")
                   /\ e.cond = in.cond /\ (e.was <=> in.was) /\ e.others = Sofar(in) /\ ~e.ends
                   /\ proven' = IF Narrows(in.cond) THEN in.cond = "isnull" ELSE proven
  BY CloseTurns
<1>3. Sofar(in).ends <=> in.ends /\ in.others.ends
  BY <1>1, SofarIs
<1>4. NullViews(n, e, s2, view, view2)
  <2>1. Steps(n, e, s2)
    BY <1>2, TurnSteps
  <2> QED
    BY <2>1 DEF NullViews
<1>5. Looser(n - 1, view, view2)
  BY <1>1, <1>4, NullLooser
<1>6. PICK w \in BOOLEAN : w <=> Wild(open, n - 1)
  OBVIOUS
<1>7. /\ n \in view2.before <=> w /\ ~e.was
      /\ n + 1 \in view2.before <=> w /\ ~e.was /\ ~Narrowed(e) /\ (n >= 2 => ~e.ends) /\ ~proven'
      /\ n \in view2.shut <=> ShutNullBy(e, s2)
      /\ n \in view2.cut <=> e.part = "then" /\ e.has_more /\ e.cond = "isnull"
  BY <1>1, <1>4, <1>6, NullTops
<1>8. /\ n \in view.before <=> w /\ ~in.was
      /\ n + 1 \in view.before <=> w /\ ~Calm(o, n) /\ ~proven
      /\ n \in view.shut <=> ShutNull(o, scs, n)
      /\ n \in view.cut <=> in.part = "then" /\ in.has_more /\ in.cond = "isnull"
  <2>1. view = NullView(o, scs, proven)
    OBVIOUS
  <2>2. /\ n \in view.before <=> Wild(o, n - 1) /\ ~o[n].was
        /\ n + 1 \in view.before <=> Wild(o, n) /\ ~proven
        /\ Wild(o, n) <=> Wild(o, n - 1) /\ ~Calm(o, n)
        /\ n \in view.shut <=> ShutNull(o, scs, n)
        /\ n \in view.cut <=> o[n].part = "then" /\ o[n].has_more /\ o[n].cond = "isnull"
    BY <1>1, <2>1, NullFacts
  <2> QED
    BY <1>1, <1>6, <2>2
<1>9. Here2(view) => w /\ ~in.was /\ ~Narrowed(in) /\ ~in.ends
  BY <1>1, <1>8 DEF Here2, Calm
<1>10. /\ in.part \in {"then", "case"}
       /\ in.part = "case" => /\ s.part \in {"case", "open"} /\ ~Narrows(in.cond) /\ in.cond # "isnull"
                              /\ s.part = "open" => in.cond # "default"
  BY <1>1 DEF Pairs, Narrows, OpenRecords, OpenParts
<1>11. proven' => \/ in.was
                  \/ in.part = "then" /\ in.cond = "isnull"
  <2>1. proven => in.was \/ Narrowed(in)
    BY <1>1 DEF Grounded
  <2>2. CASE Narrows(in.cond)
    <3>1. proven' = (in.cond = "isnull")
      BY <1>2, <2>2
    <3> QED
      BY <1>10, <2>2, <3>1
  <2>3. CASE ~Narrows(in.cond)
    <3>1. proven' = proven
      BY <1>2, <2>3
    <3>2. ~Narrowed(in)
      BY <2>3 DEF Narrowed, Narrows
    <3> QED
      BY <2>1, <3>1, <3>2
  <2> QED
    BY <2>2, <2>3
<1>12. CASE s.part = "then"
  <2>1. in.part = "then" /\ e.part = "else"
    BY <1>2, <1>12
  <2>2. n \in view.shut
    BY <1>1, <1>8, <2>1 DEF ShutNull, Shut
  <2>3. n \in view2.shut => \/ s.left = 0 /\ (in.ends \/ in.cond = "notnull")
                            \/ in.cond = "isnull" /\ in.ends
    BY <1>2, <1>3, <1>7, <1>12, <2>1 DEF ShutNullBy, ShutBy, Follows2
  <2>4. n \in view2.shut => ~Here2(view)
    BY <1>9, <2>1, <2>3 DEF Narrowed
  <2>5. n \in view.before /\ n \notin view.cut => n + 1 \in view2.before
    <3>1. n \in view.before /\ n \notin view.cut => in.cond # "isnull" /\ w /\ ~in.was
      BY <1>8, <2>1
    <3>2. in.cond # "isnull" => ~Narrowed(e)
      BY <1>2, <2>1 DEF Narrowed
    <3> QED
      BY <1>2, <1>7, <1>11, <3>1, <3>2
  <2>6. s.left > 0 /\ n \in view2.shut => n \in view.cut
    BY <1>8, <2>1, <2>3
  <2>7. Here2(view) \/ n \in view.before => n \in view2.before
    BY <1>2, <1>7, <1>8, <1>9
  <2>8. Branching(view, view2, s)
    BY <1>12, <2>2, <2>4, <2>5, <2>6, <2>7 DEF Branching
  <2> QED
    BY <1>5, <2>8
<1>13. CASE s.part # "then"
  <2>1. in.part = "case" /\ e.part = "case" /\ s2.part = s.part /\ s.part # "else"
    BY <1>2, <1>10, <1>13 DEF Follows2
  <2>2. n \in view2.shut => in.cond = "default" /\ in.ends /\ in.others.ends
    BY <1>2, <1>3, <1>7, <2>1 DEF ShutNullBy, ShutBy
  <2>3. n \in view2.shut => n \in view.shut /\ ~Here2(view) /\ s.part = "case"
    BY <1>1, <1>8, <1>9, <1>10, <2>1, <2>2 DEF ShutNull, Shut
  <2>4. n \in view.before => n + 1 \in view2.before
    <3>1. ~Narrowed(e)
      BY <2>1 DEF Narrowed
    <3> QED
      BY <1>2, <1>7, <1>8, <1>11, <2>1, <3>1
  <2>5. n \notin view2.cut
    BY <1>7, <2>1
  <2>6. Here2(view) \/ n \in view.before => n \in view2.before
    BY <1>2, <1>7, <1>8, <1>9
  <2>7. Branching(view, view2, s)
    BY <1>13, <2>3, <2>4, <2>5, <2>6 DEF Branching
  <2> QED
    BY <1>5, <2>7
<1> QED
  BY <1>12, <1>13

\* The end of a construct: the pointer is proven behind it only where no null comes.
LEMMA NullShrinks ==
    ASSUME Paired, Lowers, Grounded, ReadClose, ~Inner.has_more, proven' \in BOOLEAN,
           Proper', NEW view, NEW view2,
           view = NullView(open, scopes, proven), view2 = NullView(open', scopes', proven')
    PROVE  Looser(Len(scopes) - 1, view, view2) /\ Concluding(view, view2, Last(scopes))
<1> PICK ends \in BOOLEAN, breaks \in BOOLEAN :
         ends = exprAlwaysTerminates(Inner) /\ breaks = exprContainsBreak(Inner)
  BY CloseShrinks
<1> PICK n, in, s, o, scs : n = Len(scopes) /\ in = Inner /\ s = Last(scopes) /\ o = open /\ scs = scopes
  OBVIOUS
<1>1. /\ n \in Nat \ {0} /\ n > 1 /\ Len(o) = n /\ in = o[n] /\ s = scs[n]
      /\ n \in 1..n /\ Pairs(in, s, n) /\ proven \in BOOLEAN
  BY PairedFacts, ClosingFacts DEF Paired
<1> PICK m, e, s2 : m = n - 1 /\ e = Noted(open[m], ends, breaks) /\ s2 = scopes[m]
  OBVIOUS
<1>2. Steps(m, e, s2) /\ Like(e, o[m]) /\ (e.ends <=> o[m].ends \/ ends)
  BY ShrinkSteps
<1>3. NullViews(m, e, s2, view, view2)
  BY <1>2 DEF NullViews
<1>4. /\ m \in 1..(Len(scopes) + 1) /\ m <= Len(scopes) /\ m = Len(scopes) - 1
      /\ m + 1 = n /\ m \in 1..n
  BY <1>1
<1>5. Looser(Len(scopes) - 1, view, view2)
  BY <1>2, <1>3, <1>4, NullLooser
<1>6. PICK w \in BOOLEAN : w <=> Wild(o, m)
  OBVIOUS
<1>7. /\ n \in view.before <=> w /\ ~in.was
      /\ n + 1 \in view.before <=> w /\ ~Calm(o, n) /\ ~proven
      /\ n \in view.shut <=> ShutNull(o, scs, n)
      /\ Wild(o, m) <=> Wild(o, m - 1) /\ ~Calm(o, m)
  <2>1. view = NullView(o, scs, proven)
    OBVIOUS
  <2>2. /\ n \in view.before <=> Wild(o, n - 1) /\ ~o[n].was
        /\ n + 1 \in view.before <=> Wild(o, n) /\ ~proven
        /\ \A i \in 1..n : Wild(o, i) <=> Wild(o, i - 1) /\ ~Calm(o, i)
        /\ n \in view.shut <=> ShutNull(o, scs, n)
    BY <1>1, <2>1, NullFacts
  <2> QED
    BY <1>1, <1>4, <1>6, <2>2
<1>8. w /\ ~ends /\ ~proven' => n \in view2.before
  <2>1. m + 1 \in view2.before <=> /\ Wild(open, m - 1) /\ ~e.was /\ ~Narrowed(e)
                                   /\ m >= 2 => ~e.ends
                                   /\ ~proven'
    BY <1>3, <1>4, NullTops
  <2>2. Calm(o, m) <=> e.was \/ Narrowed(e) \/ (m >= 2 /\ o[m].ends)
    BY <1>2 DEF Calm, Narrowed, Like
  <2> QED
    BY <1>2, <1>4, <1>6, <1>7, <2>1, <2>2
<1>9. /\ ends => s.part = "loop" \/ in.ends
      /\ ends /\ s.part # "block" => Shut(o, scs, n)
  <2>1. "miscounted" \notin uses'
    BY DEF Proper
  <2> QED
    BY <2>1, EndedShut
<1>10. proven' => in.was \/ (in.part \in {"then", "else"} /\ KeepsProof(in))
  BY ProofAfter
<1>11. Here2(view) => w /\ ~in.was /\ ~Narrowed(in) /\ ~in.ends
  BY <1>1, <1>7 DEF Here2, Calm
<1>12. s.part # "loop" /\ Here2(view) => n \in view2.before
  <2>1. ~Narrowed(in) /\ ~in.ends /\ in.part \in {"then", "else"} => ~KeepsProof(in)
    BY DEF Narrowed, KeepsProof
  <2> QED
    BY <1>8, <1>9, <1>10, <1>11, <2>1
<1>13. ASSUME s.part # "block", n \in view.before, n \notin view.shut
       PROVE  n \in view2.before
  <2>1. w /\ ~in.was /\ ~ShutNull(o, scs, n)
    BY <1>7, <1>13
  <2>2. ~ends
    BY <1>9, <1>13, <2>1 DEF ShutNull
  <2>3. ASSUME in.part \in {"then", "else"}, KeepsProof(in)
        PROVE  FALSE
    <3>1. CASE in.cond = "isnull"
      BY <1>1, <2>1, <2>3, <3>1 DEF KeepsProof, ShutNull
    <3>2. CASE in.cond # "isnull"
      <4>1. in.cond = "notnull" /\ in.part = "else" /\ in.ends
        BY <2>3, <3>2 DEF KeepsProof
      <4>2. s.part = "elif"
        BY <1>1, <2>1, <4>1 DEF ShutNull, Pairs
      <4> QED
        BY <4>1, <4>2 DEF ReadClose, TrustsElseIf, Proper
    <3> QED
      BY <3>1, <3>2
  <2> QED
    BY <1>8, <1>10, <2>1, <2>2, <2>3
<1>14. Concluding(view, view2, s)
  BY <1>7, <1>11, <1>12, <1>13 DEF Concluding
<1> QED
  BY <1>5, <1>14

LEMMA NullCloses ==
    ASSUME NEW h, NEW T, NEW view, Followed(h, T, view), Paired, Paired', Grounded, ReadClose,
           Proper', NEW view2,
           view = NullView(open, scopes, proven), view2 = NullView(open', scopes', proven')
    PROVE  \E T2 : Kept(h, T2, view2)'
<1>1. Lowers /\ proven' \in BOOLEAN
  BY DEF Followed, Paired
<1>2. CloseBlock /\ (Inner.has_more <=> ~Concludes(Last(scopes)))
  BY <1>1, ClosingFacts
<1>3. PICK s : s = Last(scopes)
  OBVIOUS
<1>4. CASE Inner.has_more
  <2>1. Looser(Len(scopes) - 1, view, view2) /\ Branching(view, view2, s)
    BY <1>1, <1>3, <1>4, NullTurns
  <2>2. ~Concludes(s)
    BY <1>2, <1>3, <1>4
  <2> QED
    BY <1>2, <1>3, <2>1, <2>2, CloseKeeps
<1>5. CASE ~Inner.has_more
  <2>1. Looser(Len(scopes) - 1, view, view2) /\ Concluding(view, view2, s)
    BY <1>1, <1>3, <1>5, NullShrinks
  <2>2. Concludes(s)
    BY <1>2, <1>3, <1>5
  <2> QED
    BY <1>2, <1>3, <2>1, <2>2, CloseKeeps
<1> QED
  BY <1>4, <1>5

NullKept ==
  \E first \in BOOLEAN : /\ first <=> pointer = "null"
                         /\ \E T : Kept(NullHazard(first), T, NullView(open, scopes, proven))

\* What reading does, whatever is read.
LEMMA NullReads ==
    ASSUME Lowers, scopes # <<>>, Lowers', Paired, Grounded, NullKept, Proper',
           ReadStatement \/ ReadOpening \/ ReadClose
    PROVE  NullKept' /\ Grounded'
<1>1. PICK first, T : /\ first \in BOOLEAN /\ (first <=> pointer = "null")
                      /\ Kept(NullHazard(first), T, NullView(open, scopes, proven))
  BY DEF NullKept
<1>2. PICK h, view, view2 : /\ h = NullHazard(first) /\ view = NullView(open, scopes, proven)
                            /\ view2 = NullView(open', scopes', proven')
  OBVIOUS
<1>3. Followed(h, T, view)
  BY <1>1, <1>2, NullIs DEF Followed
<1>4. Paired' /\ pointer' = pointer
  BY ReadPaired, ReadsOn DEF machine
<1>6. \E T2 : Kept(h, T2, view2)'
  <2>1. CASE ReadStatement
    BY <1>1, <1>2, <1>3, <1>4, <2>1, NullStatement
  <2>2. CASE ReadOpening
    BY <1>1, <1>2, <1>3, <1>4, <2>2, NullOpens
  <2>3. CASE ReadClose
    BY <1>2, <1>3, <1>4, <2>3, NullCloses
  <2> QED
    BY <2>1, <2>2, <2>3
<1>7. PICK T2 : Kept(h, T2, view2)'
  BY <1>6
<1>8. Kept(NullHazard(first), T2, NullView(open, scopes, proven))'
  BY <1>2, <1>7 DEF Kept
<1>9. Grounded'
  BY StatementGrounded, OpeningGrounded, ClosingGrounded
<1> QED
  BY <1>1, <1>4, <1>8, <1>9 DEF NullKept

\* A null pointer takes no edge that bars it.
LEMMA EdgesBarred ==
    ASSUME pointer = "null", NEW first, NEW cond \in Conds, NEW yes \in BOOLEAN, yes \in Taken(cond)
    PROVE  <<cond, yes>> \notin NullHazard(first).bars
<1>1. /\ cond = "true" => yes = TRUE
      /\ cond = "isnull" => yes = TRUE
      /\ cond = "notnull" => yes = FALSE
  BY DEF Taken
<1>2. NullHazard(first).bars = {<<"true", FALSE>>, <<"isnull", FALSE>>, <<"notnull", TRUE>>}
  BY DEF NullHazard
<1> QED
  BY <1>1, <1>2

NullInv ==
  Proper =>
    /\ phase = "read" => NullKept /\ Grounded
    /\ phase = "run" => \E first \in BOOLEAN : Chased(NullHazard(first), pointer = "null")

LEMMA NullInit == Init => NullInv
<1> SUFFICES ASSUME Init
             PROVE  NullKept /\ Grounded
  BY DEF NullInv, Init
<1>1. InitLowering /\ InitChecker /\ phase = "read"
  BY DEF Init
<1>2. PICK first \in BOOLEAN : first <=> pointer = "null"
  OBVIOUS
<1>3. PICK h, view, o, scs : /\ h = NullHazard(first) /\ view = NullView(open, scopes, proven)
                             /\ o = open /\ scs = scopes
  OBVIOUS
<1>4. Len(o) = 1 /\ 1 \in 1..1 /\ o[1].part = "body" /\ ~o[1].was
  BY <1>1, <1>3 DEF InitChecker, Opened
<1>10. ~proven /\ proven \in BOOLEAN
  BY <1>1 DEF InitChecker
<1>5. \A k \in 1..1 : k = 1
  OBVIOUS
<1>6. Wild(o, 1)
  BY <1>4, <1>5 DEF Wild, Calm, Narrowed
<1>7. 2 \in view.before
  <2>1. PICK n : n = 1
    OBVIOUS
  <2>2. n \in Nat \ {0} /\ n = Len(o) /\ view = NullView(o, scs, proven)
    BY <1>3, <1>4, <2>1
  <2>3. n + 1 \in view.before <=> Wild(o, n) /\ ~proven
    BY <1>10, <2>2, NullFacts
  <2> QED
    BY <1>6, <1>10, <2>1, <2>3
<1>8. \E T : Kept(h, T, view)
  BY <1>1, <1>3, <1>7, NullIs, InitKeeps
<1>9. Grounded
  BY <1>3, <1>4 DEF Grounded
<1> QED
  BY <1>2, <1>3, <1>8, <1>9 DEF NullKept

LEMMA NullStep == FlowInv /\ FlowInv' /\ PairInv /\ NullInv /\ [Next]_vars => NullInv'
<1> SUFFICES ASSUME FlowInv, FlowInv', PairInv, NullInv, [Next]_vars, Proper'
             PROVE  NullInv'
  BY DEF NullInv
<1>1. CASE UNCHANGED vars
  BY <1>1 DEF vars, lowering, checker, machine, NullInv, NullKept, Proper, Grounded, Kept, Chased, Open, Tip
<1>2. CASE ReadStatement \/ ReadOpening \/ ReadClose
  <2>1. phase = "read" /\ phase' = "read" /\ uses \subseteq uses'
    BY <1>2, ReadsOn
  <2>2. Proper
    BY <2>1 DEF Proper
  <2>3. Lowers /\ scopes # <<>> /\ Lowers' /\ Paired /\ NullKept /\ Grounded
    BY <2>1, <2>2 DEF FlowInv, PairInv, NullInv
  <2>4. NullKept' /\ Grounded'
    BY <1>2, <2>3, NullReads
  <2> QED
    BY <2>1, <2>4 DEF NullInv
<1>3. CASE ReadEnd
  <2>1. phase = "read" /\ phase' = "run" /\ uses' = uses /\ at' = at /\ pointer' = pointer /\ CloseFunction
    BY <1>3 DEF ReadEnd, machine
  <2>2. Lowers /\ scopes # <<>> /\ at = <<1, 1>> /\ NullKept
    BY <2>1 DEF FlowInv, NullInv, Proper
  <2>3. PICK first, T : /\ first \in BOOLEAN /\ (first <=> pointer = "null")
                        /\ Kept(NullHazard(first), T, NullView(open, scopes, proven))
    BY <2>2 DEF NullKept
  <2>4. PICK h, view : h = NullHazard(first) /\ view = NullView(open, scopes, proven)
    OBVIOUS
  <2>5. (h.first <=> first) /\ "fall" \notin h.bad /\ Hazard(h)
    BY <2>3, <2>4, NullIs DEF NullHazard
  <2>6. PICK T2 : Flowing(h, T2, blocks') /\ (h.first => <<1, 1>> \in T2)
    BY <2>1, <2>2, <2>3, <2>4, <2>5, FunctionKeeps
  <2>7. Chased(NullHazard(first), pointer = "null")'
    BY <2>1, <2>2, <2>3, <2>4, <2>5, <2>6 DEF Chased
  <2> QED
    BY <2>1, <2>3, <2>7 DEF NullInv
<1>4. CASE Execute
  <2>1. phase = "run" /\ phase' = "run" /\ uses' = uses /\ AtInst
    BY <1>4 DEF Execute, AtInst
  <2>2. PICK first \in BOOLEAN : Chased(NullHazard(first), pointer = "null")
    BY <2>1 DEF NullInv, Proper
  <2>3. PICK hold, hold2 : hold = (pointer = "null") /\ hold2 = (pointer' = "null")
    OBVIOUS
  <2>4. /\ Chased(NullHazard(first), hold)
        /\ hold2 => \/ hold /\ Inst.op \notin NullHazard(first).ends
                    \/ Inst.op \in NullHazard(first).starts
    BY <1>4, <2>2, <2>3 DEF Execute, NullHazard
  <2>5. \E T : Flowing(NullHazard(first), T, blocks') /\ (hold2 => at' \in T)
    BY <1>4, <2>1, <2>4, RunFacts, ExecuteChased
  <2>6. Chased(NullHazard(first), pointer = "null")'
    BY <2>3, <2>5 DEF Chased
  <2> QED
    BY <2>1, <2>2, <2>6 DEF NullInv
<1>5. CASE Transfer
  <2> SUFFICES ASSUME phase' = "run"
               PROVE  \E first \in BOOLEAN : Chased(NullHazard(first), pointer = "null")'
    BY <1>5 DEF NullInv, Transfer, AtEnd
  <2>1. phase = "run" /\ uses' = uses /\ pointer' = pointer
    BY <1>5 DEF Transfer, AtEnd
  <2>2. PICK first \in BOOLEAN : Chased(NullHazard(first), pointer = "null")
    BY <2>1 DEF NullInv, Proper
  <2>3. PICK hold : hold = (pointer = "null")
    OBVIOUS
  <2>4. hold => \A cond \in Conds, yes \in BOOLEAN : yes \in Taken(cond) => <<cond, yes>> \notin NullHazard(first).bars
    BY <2>3, EdgesBarred
  <2>5. Chased(NullHazard(first), hold)
    BY <2>2, <2>3
  <2>6. \E T : Flowing(NullHazard(first), T, blocks') /\ (hold => at' \in T)
    BY <1>5, <2>1, <2>4, <2>5, RunFacts, TransferChased
  <2>7. Chased(NullHazard(first), pointer = "null")'
    BY <2>1, <2>3, <2>6 DEF Chased
  <2> QED
    BY <2>2, <2>7
<1> QED
  BY <1>1, <1>2, <1>3, <1>4, <1>5 DEF Next, ReadStatement, ReadOpening

LEMMA NullShows == FlowInv /\ NullInv => ProofsHold
<1> SUFFICES ASSUME FlowInv, NullInv, AtInst, Inst.op = "deref", pointer = "null", Proper
             PROVE  FALSE
  BY DEF ProofsHold, Proper
<1>1. phase = "run"
  BY DEF AtInst
<1>2. PICK first \in BOOLEAN : Chased(NullHazard(first), pointer = "null")
  BY <1>1 DEF NullInv
<1>3. PICK hold : hold = (pointer = "null")
  OBVIOUS
<1>4. Chased(NullHazard(first), hold) /\ hold
  BY <1>2, <1>3
<1>5. Inst.op \notin NullHazard(first).bad
  BY <1>1, <1>4, RunFacts, Meets
<1> QED
  BY <1>5 DEF NullHazard

\* ProofsHold for every program: a dereference that the checker accepts meets a null
\* pointer only if the program writes the pointer inside a construct, narrows it by an
\* early exit inside one or in the body of an `else (condition)`, or has a construct that
\* was miscounted.  Otherwise each proof in provenNonNullExprs holds on every path of the
\* emitted blocks that comes to where it is used.
THEOREM ProofsKept == Spec => []ProofsHold
<1>1. Spec => []PairInv
  BY FlowHolds, PairInit, PairStep, PTL DEF Spec
<1>2. Spec => []NullInv
  BY FlowHolds, <1>1, NullInit, NullStep, PTL DEF Spec
<1> QED
  BY <1>2, FlowHolds, NullShows, PTL
=============================================================================
