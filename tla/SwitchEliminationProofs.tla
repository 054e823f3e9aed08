----------------------- MODULE SwitchEliminationProofs -----------------------
(***************************************************************************)
(* Dead code elimination preserves a switch of any length over any labels, *)
(* provided no unreachable label falls through right after a case with a   *)
(* statement (DeadFallThrough = FALSE).                                    *)
(***************************************************************************)
EXTENDS SwitchElimination, SequenceTheorems, TLAPS

-----------------------------------------------------------------------------
(* What a switch runs.                                                      *)

\* Case i is the one that value v selects.
Selects(s, v, i) ==
    /\ i \in 1..Len(s)
    /\ s[i].label = v
    /\ \A j \in 1..Len(s) : s[j].label = v => j = i

\* No case has label v.
Misses(s, v) == \A j \in 1..Len(s) : s[j].label # v

\* The cases from i up to j, j excluded, fall through.
FallsThrough(s, i, j) == \A k \in i..(j - 1) : s[k].statement = NoStatement

\* Case j has the first statement from case i on.
FirstBody(s, i, j) ==
    j \in i..Len(s) /\ s[j].statement # NoStatement /\ FallsThrough(s, i, j)

\* The case whose statements a value runs: that of its label or the default.
At(s, v, i) == Selects(s, v, i) \/ (Misses(s, v) /\ Selects(s, Default, i))

\* The two ways to select a case.
LEMMA SelectedAt ==
    ASSUME NEW s, NEW v, NEW i
    PROVE  /\ Selects(s, v, i) => At(s, v, i)
           /\ Misses(s, v) /\ Selects(s, Default, i) => At(s, v, i)
  BY DEF At

\* A switch runs the first statement from the selected case on.
LEMMA RunsFirstBody ==
    ASSUME NEW s \in Seq(Case), NEW v, NEW i, At(s, v, i), NEW j, FirstBody(s, i, j)
    PROVE  Executed(s, v) = s[j].statement
<1> DEFINE hit == {x \in 1..Len(s) : s[x].label = v}
           at == IF hit # {} THEN hit ELSE {x \in 1..Len(s) : s[x].label = Default}
           bodies == {x \in 1..Len(s) : s[x].statement # NoStatement /\ \A y \in at : x >= y}
<1>1. at = {i} /\ i \in 1..Len(s) /\ Len(s) \in Nat
  BY DEF At, Selects, Misses
<1>2. j \in bodies /\ \A x \in bodies : j <= x
  BY <1>1 DEF FirstBody, FallsThrough
<1>3. \A x \in bodies : (\A y \in bodies : x <= y) => x = j
  BY <1>1, <1>2
<1>4. Executed(s, v) = IF at = {} \/ bodies = {} THEN NoStatement
                       ELSE s[CHOOSE x \in bodies : \A y \in bodies : x <= y].statement
  BY DEF Executed
<1> HIDE DEF bodies, at
<1>5. (CHOOSE x \in bodies : \A y \in bodies : x <= y) = j
  BY <1>2, <1>3
<1>6. QED
  BY <1>1, <1>2, <1>4, <1>5

\* It runs nothing if there is no such statement.
LEMMA RunsNothing ==
    ASSUME NEW s \in Seq(Case), NEW v, NEW i, At(s, v, i), FallsThrough(s, i, Len(s) + 1)
    PROVE  Executed(s, v) = NoStatement
<1> DEFINE hit == {x \in 1..Len(s) : s[x].label = v}
           at == IF hit # {} THEN hit ELSE {x \in 1..Len(s) : s[x].label = Default}
           bodies == {x \in 1..Len(s) : s[x].statement # NoStatement /\ \A y \in at : x >= y}
<1>1. at = {i} /\ i \in 1..Len(s) /\ Len(s) \in Nat
  BY DEF At, Selects, Misses
<1>2. bodies = {}
  BY <1>1 DEF FallsThrough
<1>3. QED
  BY <1>2 DEF Executed

\* It runs nothing either if neither the value nor default is a label.
LEMMA RunsNoCase ==
    ASSUME NEW s, NEW v, Misses(s, v), Misses(s, Default)
    PROVE  Executed(s, v) = NoStatement
  BY DEF Executed, Misses

-----------------------------------------------------------------------------
(* The loop invariant.                                                      *)

\* What the loop does not change.
Given ==
    /\ cases \in Seq(Case)
    /\ \A i, j \in 1..Len(cases) : cases[i].label = cases[j].label => i = j
    /\ \A i \in 1..Len(cases) :
          cases[i].label = Default => i = Len(cases) /\ cases[i].statement # NoStatement
    /\ possible \subseteq Labels \cup {Other}
    /\ \A i \in 2..Len(cases) :
          (cases[i].statement = NoStatement /\ cases[i - 1].statement # NoStatement)
             => cases[i].label \in possible

\* Types of the loop variables after n - 1 cases.
LoopType(n, f, b) == n \in 1..(Len(cases) + 1) /\ f \in Seq(Case) /\ b \in BOOLEAN

\* The cases that were kept have the labels of different cases seen, none of
\* them default.
LabelsKept(n, f) ==
    /\ \A p \in 1..Len(f) : \E i \in 1..(n - 1) : f[p].label = cases[i].label
    /\ \A p, q \in 1..Len(f) : f[p].label = f[q].label => p = q
    /\ \A i \in 1..(n - 1) : cases[i].label # Default

\* previousFallThrough is about the last case seen and about the last case kept,
\* which differ if cases were dropped in between.
FlagRight(n, f, b) ==
    /\ n > 1 => (b <=> cases[n - 1].statement = NoStatement)
    /\ f # <<>> => (b <=> f[Len(f)].statement = NoStatement)

\* Case i and its counterpart p among those kept run the same statement, or both
\* have fallen through so far.
SameSoFar(n, f, i, p) ==
    \/ FallsThrough(cases, i, n) /\ FallsThrough(f, p, Len(f) + 1)
    \/ \E j \in i..(n - 1), q \in p..Len(f) :
          /\ cases[j].statement # NoStatement /\ FallsThrough(cases, i, j)
          /\ f[q].statement = cases[j].statement /\ FallsThrough(f, p, q)

\* Every case seen that a possible value selects has a counterpart.
Followed(n, f) ==
    \A i \in 1..(n - 1) : cases[i].label \in possible =>
        \E p \in 1..Len(f) : f[p].label = cases[i].label /\ SameSoFar(n, f, i, p)

LoopInv(n, f, b) ==
    LoopType(n, f, b) /\ LabelsKept(n, f) /\ FlagRight(n, f, b) /\ Followed(n, f)

SwitchInv == Given /\ (replacement = <<>> => LoopInv(index, filtered, fallThrough))

\* push_back, pointwise.
LEMMA AppendShape ==
    ASSUME NEW f \in Seq(Case), NEW c \in Case
    PROVE  /\ Append(f, c) \in Seq(Case)
           /\ Len(f) \in Nat /\ Len(Append(f, c)) = Len(f) + 1
           /\ \A p \in 1..Len(f) : Append(f, c)[p] = f[p]
           /\ Append(f, c)[Len(f) + 1] = c
           /\ Append(f, c) # <<>>
  OBVIOUS

\* The cases f with statement x moved to the last of them.
Moved(f, x) == Append(Front(f), [Last(f) EXCEPT !.statement = x])

\* Moving a statement to the last case kept, pointwise.
LEMMA MoveShape ==
    ASSUME NEW f \in Seq(Case), f # <<>>, NEW x \in 0..MaxCases
    PROVE  /\ Moved(f, x) \in Seq(Case) /\ Len(f) \in Nat \ {0} /\ Len(Moved(f, x)) = Len(f)
           /\ \A p \in 1..(Len(f) - 1) : Moved(f, x)[p] = f[p]
           /\ Moved(f, x)[Len(f)].label = f[Len(f)].label
           /\ Moved(f, x)[Len(f)].statement = x
<1>1. Len(f) \in Nat \ {0} /\ \A p \in 1..Len(f) : f[p] \in Case
  BY EmptySeq, ElementOfSeq
<1> DEFINE h == Front(f)
           c == [Last(f) EXCEPT !.statement = x]
<1>2. /\ h \in Seq(Case)
      /\ Len(h) = IF 1 <= Len(f) - 1 THEN (Len(f) - 1) - 1 + 1 ELSE 0
      /\ \A p \in 1..((Len(f) - 1) - 1 + 1) : h[p] = f[1 + p - 1]
  BY <1>1, SubSeqProperties DEF Front
<1>3. c \in Case /\ c.label = f[Len(f)].label /\ c.statement = x
  <2>1. f[Len(f)] \in Case
    BY <1>1
  <2>2. QED
    BY <2>1 DEF Case, Last
<1> HIDE DEF h, c
<1>4. Len(h) = Len(f) - 1 /\ \A p \in 1..(Len(f) - 1) : h[p] = f[p]
  <2>1. Len(h) = Len(f) - 1
    <3>1. CASE Len(f) = 1
      BY <1>2, <3>1
    <3>2. CASE Len(f) # 1
      <4>1. \A n \in Nat \ {0, 1} : 1 <= n - 1 /\ (n - 1) - 1 + 1 = n - 1
        OBVIOUS
      <4>2. QED
        BY <1>1, <1>2, <3>2, <4>1
    <3>3. QED
      BY <3>1, <3>2
  <2>2. ASSUME NEW p \in 1..(Len(f) - 1) PROVE h[p] = f[p]
    <3>1. 1 + p - 1 = p /\ p \in 1..((Len(f) - 1) - 1 + 1)
      BY <1>1
    <3>2. QED
      BY <1>2, <3>1
  <2>3. QED
    BY <2>1, <2>2
<1>5. /\ Append(h, c) \in Seq(Case)
      /\ Len(Append(h, c)) = Len(h) + 1
      /\ \A p \in 1..Len(h) : Append(h, c)[p] = h[p]
      /\ Append(h, c)[Len(h) + 1] = c
  BY <1>2, <1>3, AppendShape
<1>6. Moved(f, x) = Append(h, c)
  BY DEF Moved, h, c
<1>7. Len(f) = Len(h) + 1
  BY <1>1, <1>4
<1>8. QED
  BY <1>1, <1>3, <1>4, <1>5, <1>6, <1>7

\* The loop starts with the invariant.
LEMMA InitSwitch ==
    ASSUME ~DeadFallThrough
    PROVE  Init => SwitchInv
<1> SUFFICES ASSUME Init PROVE SwitchInv
  OBVIOUS
<1>1. cases \in Seq(Case)
  BY SwitchAssumption, SeqDef DEF Init, Switches
<1>2. \A i \in 1..Len(cases) :
         /\ cases[i].statement \in {NoStatement, i}
         /\ \A j \in 1..(i - 1) : cases[j].label # cases[i].label
         /\ cases[i].label = Default => i = Len(cases) /\ cases[i].statement = i
  BY DEF Init, Switches
<1>3. \A i, j \in 1..Len(cases) : cases[i].label = cases[j].label => i = j
  <2> SUFFICES ASSUME NEW i \in 1..Len(cases), NEW j \in 1..Len(cases), i < j
               PROVE  cases[i].label # cases[j].label
    BY <1>1
  <2>1. i \in 1..(j - 1)
    BY <1>1
  <2>2. QED
    BY <1>2, <2>1
<1>4. Given
  BY <1>1, <1>2, <1>3 DEF Init, Given, NoStatement
<1>5. LoopInv(1, <<>>, FALSE)
  <2>1. Len(cases) \in Nat /\ <<>> \in Seq(Case) /\ Len(<<>>) = 0
    BY <1>1
  <2>2. 1..(1 - 1) = {} /\ 1..0 = {}
    OBVIOUS
  <2>3. QED
    BY <2>1, <2>2 DEF LoopInv, LoopType, LabelsKept, FlagRight, Followed
<1>6. QED
  BY <1>4, <1>5 DEF Init, SwitchInv

\* Keeping a case that is not the default keeps the invariant.
LEMMA KeepCase ==
    ASSUME Given, NEW n \in 1..Len(cases), NEW f, NEW b, LoopInv(n, f, b),
           cases[n].label # Default
    PROVE  LoopInv(n + 1, Append(f, cases[n]), cases[n].statement = NoStatement)
<1> DEFINE g == Append(f, cases[n])
<1>1. f \in Seq(Case) /\ cases[n] \in Case /\ Len(cases) \in Nat
  BY DEF LoopInv, LoopType, Given
<1>2. /\ g \in Seq(Case) /\ Len(f) \in Nat /\ Len(g) = Len(f) + 1
      /\ \A p \in 1..Len(f) : g[p] = f[p]
      /\ g[Len(f) + 1] = cases[n]
      /\ g # <<>>
  BY <1>1, AppendShape
<1> HIDE DEF g
<1>3. LoopType(n + 1, g, cases[n].statement = NoStatement)
  BY <1>1, <1>2 DEF LoopType
<1>4. LabelsKept(n + 1, g)
  <2>1. \A p \in 1..Len(f) : \E i \in 1..(n - 1) : f[p].label = cases[i].label
    BY DEF LoopInv, LabelsKept
  <2>2. \A p \in 1..Len(g) : \E i \in 1..n : g[p].label = cases[i].label
    BY <1>1, <1>2, <2>1
  <2>3. \A p \in 1..Len(f) : f[p].label # cases[n].label
    BY <1>1, <2>1 DEF Given
  <2>4. \A p, q \in 1..Len(f) : f[p].label = f[q].label => p = q
    BY DEF LoopInv, LabelsKept
  <2>5. \A p, q \in 1..Len(g) : g[p].label = g[q].label => p = q
    BY <1>2, <2>3, <2>4
  <2>6. \A i \in 1..n : cases[i].label # Default
    BY <1>1 DEF LoopInv, LabelsKept
  <2>7. QED
    BY <1>1, <2>2, <2>5, <2>6 DEF LabelsKept
<1>5. FlagRight(n + 1, g, cases[n].statement = NoStatement)
  BY <1>1, <1>2 DEF FlagRight
<1>6. Followed(n + 1, g)
  <2>0. 1..((n + 1) - 1) = 1..n
    BY <1>1
  <2> SUFFICES ASSUME NEW i \in 1..n, cases[i].label \in possible
               PROVE  \E p \in 1..Len(g) : g[p].label = cases[i].label /\ SameSoFar(n + 1, g, i, p)
    BY <2>0 DEF Followed
  <2>1. CASE i = n
    <3>1. Len(g) \in 1..Len(g) /\ g[Len(g)].label = cases[i].label
      BY <1>2, <2>1
    <3>2. SameSoFar(n + 1, g, i, Len(g))
      <4>1. CASE cases[n].statement = NoStatement
        BY <1>1, <1>2, <2>1, <4>1 DEF SameSoFar, FallsThrough
      <4>2. CASE cases[n].statement # NoStatement
        BY <1>1, <1>2, <2>1, <4>2 DEF SameSoFar, FallsThrough
      <4>3. QED
        BY <4>1, <4>2
    <3>3. QED
      BY <3>1, <3>2
  <2>2. CASE i \in 1..(n - 1)
    <3>1. PICK p \in 1..Len(f) : f[p].label = cases[i].label /\ SameSoFar(n, f, i, p)
      BY <2>2 DEF LoopInv, Followed
    <3>2. p \in 1..Len(g) /\ g[p].label = cases[i].label
      BY <1>2, <3>1
    <3>3. CASE FallsThrough(cases, i, n) /\ FallsThrough(f, p, Len(f) + 1)
      <4>1. CASE cases[n].statement = NoStatement
        <5>1. FallsThrough(cases, i, n + 1)
          BY <1>1, <3>3, <4>1 DEF FallsThrough
        <5>2. FallsThrough(g, p, Len(g) + 1)
          BY <1>2, <3>3, <4>1 DEF FallsThrough
        <5>3. QED
          BY <3>2, <5>1, <5>2 DEF SameSoFar
      <4>2. CASE cases[n].statement # NoStatement
        <5>1. n \in i..n /\ Len(g) \in p..Len(g) /\ g[Len(g)] = cases[n]
          BY <1>1, <1>2, <2>2
        <5>2. FallsThrough(g, p, Len(g))
          BY <1>2, <3>3 DEF FallsThrough
        <5>3. SameSoFar(n + 1, g, i, p)
          BY <1>1, <3>3, <4>2, <5>1, <5>2 DEF SameSoFar
        <5>4. QED
          BY <3>2, <5>3
      <4>3. QED
        BY <4>1, <4>2, <3>2
    <3>4. ASSUME NEW j \in i..(n - 1), NEW q \in p..Len(f),
                 cases[j].statement # NoStatement, FallsThrough(cases, i, j),
                 f[q].statement = cases[j].statement, FallsThrough(f, p, q)
          PROVE  SameSoFar(n + 1, g, i, p)
      <4>1. j \in i..n /\ q \in p..Len(g) /\ g[q] = f[q]
        BY <1>1, <1>2, <2>2, <3>4
      <4>2. FallsThrough(g, p, q)
        BY <1>2, <3>4 DEF FallsThrough
      <4>3. QED
        BY <1>1, <3>4, <4>1, <4>2 DEF SameSoFar
    <3>5. QED
      BY <3>1, <3>2, <3>3, <3>4 DEF SameSoFar
  <2>3. QED
    BY <1>1, <2>1, <2>2
<1>7. QED
  BY <1>3, <1>4, <1>5, <1>6 DEF LoopInv, g

\* The cases left after case c, as Merged has them.
Left(f, b, c) ==
    IF b /\ f # <<>> /\ c.statement # NoStatement
    THEN Moved(f, c.statement)
    ELSE f

\* Dropping a case that no possible value selects keeps the invariant.
LEMMA DropCase ==
    ASSUME Given, NEW n \in 1..Len(cases), NEW f, NEW b, LoopInv(n, f, b),
           cases[n].label # Default, cases[n].label \notin possible
    PROVE  LoopInv(n + 1, Left(f, b, cases[n]), cases[n].statement = NoStatement)
<1> DEFINE g == Left(f, b, cases[n])
           moved == b /\ f # <<>> /\ cases[n].statement # NoStatement
<1>1. /\ f \in Seq(Case) /\ b \in BOOLEAN /\ Len(f) \in Nat /\ Len(cases) \in Nat
      /\ f # <<>> => Len(f) \in 1..Len(f)
      /\ cases[n].statement \in 0..MaxCases
  <2>1. f \in Seq(Case) /\ b \in BOOLEAN /\ cases \in Seq(Case)
    BY DEF LoopInv, LoopType, Given
  <2>2. cases[n] \in Case
    BY <2>1
  <2>3. f # <<>> => Len(f) \in Nat \ {0}
    BY <2>1, EmptySeq
  <2>4. QED
    BY <2>1, <2>2, <2>3 DEF Case
<1>2. ~moved => g = f
  BY DEF Left
<1> HIDE DEF g
<1>3. moved => /\ g \in Seq(Case) /\ Len(g) = Len(f)
               /\ \A p \in 1..(Len(f) - 1) : g[p] = f[p]
               /\ g[Len(f)].label = f[Len(f)].label
               /\ g[Len(f)].statement = cases[n].statement
  <2> SUFFICES ASSUME moved
               PROVE  /\ g \in Seq(Case) /\ Len(g) = Len(f)
                      /\ \A p \in 1..(Len(f) - 1) : g[p] = f[p]
                      /\ g[Len(f)].label = f[Len(f)].label
                      /\ g[Len(f)].statement = cases[n].statement
    OBVIOUS
  <2>1. g = Moved(f, cases[n].statement)
    BY DEF g, Left
  <2>2. QED
    BY <1>1, <2>1, MoveShape
<1>4. g \in Seq(Case) /\ Len(g) = Len(f) /\ \A p \in 1..Len(f) : g[p].label = f[p].label
  <2>1. CASE moved
    BY <1>1, <1>3, <2>1
  <2>2. CASE ~moved
    BY <1>1, <1>2, <2>2
  <2>3. QED
    BY <2>1, <2>2
<1>5. f # <<>> => (b <=> f[Len(f)].statement = NoStatement)
  BY DEF LoopInv, FlagRight
<1>6. LoopType(n + 1, g, cases[n].statement = NoStatement)
  BY <1>1, <1>4 DEF LoopType
<1>7. LabelsKept(n + 1, g)
  <2>1. \A p \in 1..Len(f) : \E i \in 1..(n - 1) : f[p].label = cases[i].label
    BY DEF LoopInv, LabelsKept
  <2>2. \A p \in 1..Len(g) : \E i \in 1..n : g[p].label = cases[i].label
    BY <1>1, <1>4, <2>1
  <2>3. \A p, q \in 1..Len(g) : g[p].label = g[q].label => p = q
    BY <1>4 DEF LoopInv, LabelsKept
  <2>4. \A i \in 1..n : cases[i].label # Default
    BY <1>1 DEF LoopInv, LabelsKept
  <2>5. QED
    BY <1>1, <2>2, <2>3, <2>4 DEF LabelsKept
<1>8. FlagRight(n + 1, g, cases[n].statement = NoStatement)
  <2> SUFFICES ASSUME g # <<>>
               PROVE  (cases[n].statement = NoStatement) <=> (g[Len(g)].statement = NoStatement)
    BY <1>1 DEF FlagRight
  <2>1. CASE moved
    BY <1>3, <2>1
  <2>2. CASE ~moved /\ cases[n].statement # NoStatement
    BY <1>1, <1>2, <1>5, <2>2
  <2>3. CASE cases[n].statement = NoStatement
    <3>1. g = f /\ f # <<>>
      BY <1>2, <2>3
    <3>2. PICK i \in 1..(n - 1) : f[Len(f)].label = cases[i].label
      BY <1>1, <3>1 DEF LoopInv, LabelsKept
    <3>3. n > 1 /\ n \in 2..Len(cases)
      BY <1>1, <3>2
    <3>4. cases[n - 1].statement = NoStatement
      BY <2>3, <3>3 DEF Given
    <3>5. b
      BY <3>3, <3>4 DEF LoopInv, FlagRight
    <3>6. QED
      BY <1>5, <2>3, <3>1, <3>5
  <2>4. QED
    BY <2>1, <2>2, <2>3
<1>9. Followed(n + 1, g)
  <2>0. 1..((n + 1) - 1) = 1..n
    BY <1>1
  <2> SUFFICES ASSUME NEW i \in 1..n, cases[i].label \in possible
               PROVE  \E p \in 1..Len(g) : g[p].label = cases[i].label /\ SameSoFar(n + 1, g, i, p)
    BY <2>0 DEF Followed
  <2>1. i \in 1..(n - 1)
    BY <1>1
  <2>2. PICK p \in 1..Len(f) : f[p].label = cases[i].label /\ SameSoFar(n, f, i, p)
    BY <2>1 DEF LoopInv, Followed
  <2>3. p \in 1..Len(g) /\ g[p].label = cases[i].label /\ f # <<>>
    BY <1>1, <1>4, <2>2
  <2>4. CASE FallsThrough(cases, i, n) /\ FallsThrough(f, p, Len(f) + 1)
    <3>1. f[Len(f)].statement = NoStatement
      BY <1>1, <2>4 DEF FallsThrough
    <3>2. b
      BY <1>5, <2>3, <3>1
    <3>3. CASE moved
      <4>1. n \in i..n /\ Len(g) \in p..Len(g) /\ g[Len(g)].statement = cases[n].statement
        BY <1>1, <1>3, <2>1, <2>3, <3>3
      <4>2. FallsThrough(g, p, Len(g))
        BY <1>1, <1>3, <2>4, <3>3 DEF FallsThrough
      <4>3. QED
        BY <1>1, <2>3, <2>4, <3>3, <4>1, <4>2 DEF SameSoFar
    <3>4. CASE ~moved
      <4>1. cases[n].statement = NoStatement
        BY <2>3, <3>2, <3>4
      <4>2. FallsThrough(cases, i, n + 1)
        BY <1>1, <2>4, <4>1 DEF FallsThrough
      <4>3. QED
        BY <1>2, <2>3, <2>4, <3>4, <4>2 DEF SameSoFar
    <3>5. QED
      BY <3>3, <3>4
  <2>5. ASSUME NEW j \in i..(n - 1), NEW q \in p..Len(f),
               cases[j].statement # NoStatement, FallsThrough(cases, i, j),
               f[q].statement = cases[j].statement, FallsThrough(f, p, q)
        PROVE  SameSoFar(n + 1, g, i, p)
    <3>1. j \in i..n /\ q \in p..Len(g)
      BY <1>1, <1>4, <2>1, <2>5
    <3>2. g[q].statement = f[q].statement /\ FallsThrough(g, p, q)
      <4>1. CASE moved
        <5>1. q # Len(f)
          BY <1>5, <2>5, <4>1
        <5>2. q \in 1..(Len(f) - 1)
          BY <1>1, <5>1
        <5>3. g[q] = f[q]
          BY <1>3, <4>1, <5>2
        <5>4. \A k \in p..(q - 1) : k \in 1..(Len(f) - 1) /\ f[k].statement = NoStatement
          BY <1>1, <2>5, <5>2 DEF FallsThrough
        <5>5. FallsThrough(g, p, q)
          BY <1>3, <4>1, <5>4 DEF FallsThrough
        <5>6. QED
          BY <5>3, <5>5
      <4>2. CASE ~moved
        BY <1>2, <2>5, <4>2
      <4>3. QED
        BY <4>1, <4>2
    <3>3. QED
      BY <1>1, <2>5, <3>1, <3>2 DEF SameSoFar
  <2>6. QED
    BY <2>2, <2>3, <2>4, <2>5 DEF SameSoFar
<1>10. QED
  BY <1>6, <1>7, <1>8, <1>9 DEF LoopInv, g

-----------------------------------------------------------------------------
(* What the loop returns.                                                   *)

\* No value of the switch expression is the default label.
LEMMA ValueNotDefault ==
    ASSUME Given, NEW v \in possible
    PROVE  v # Default
  BY SwitchAssumption DEF Given, Default, Other

\* A value that selects no case seen selects none of those kept.
LEMMA NothingAdded ==
    ASSUME Given, NEW n \in 1..(Len(cases) + 1), NEW f, NEW b, LoopInv(n, f, b), NEW v,
           \A i \in 1..(n - 1) : cases[i].label # v
    PROVE  Misses(f, v)
  BY DEF LoopInv, LabelsKept, Misses

\* At the end of the loop the cases kept run what the switch ran.
LEMMA EndPreserves ==
    ASSUME Given, NEW f, NEW b, LoopInv(Len(cases) + 1, f, b), NEW v \in possible
    PROVE  /\ Executed(f, v) = Executed(cases, v)
           /\ f = <<>> => Executed(cases, v) = NoStatement
           /\ f # <<>> => f[1].label # Default
<1>1. /\ cases \in Seq(Case) /\ Len(cases) \in Nat /\ f \in Seq(Case) /\ Len(f) \in Nat
      /\ Len(cases) + 1 \in 1..(Len(cases) + 1) /\ (Len(cases) + 1) - 1 = Len(cases)
      /\ f # <<>> => Len(f) # 0
  BY EmptySeq DEF Given, LoopInv, LoopType
<1>2. Misses(cases, Default)
  BY <1>1 DEF LoopInv, LabelsKept, Misses
<1>3. Misses(f, Default)
  BY <1>1, <1>2, NothingAdded DEF Misses
<1>4. f # <<>> => f[1].label # Default
  BY <1>1, <1>3 DEF Misses
<1>5. CASE Misses(cases, v)
  <2>1. Misses(f, v)
    BY <1>1, <1>5, NothingAdded DEF Misses
  <2>2. QED
    BY <1>2, <1>3, <1>4, <1>5, <2>1, RunsNoCase
<1>6. CASE ~Misses(cases, v)
  <2>1. PICK i \in 1..Len(cases) : cases[i].label = v
    BY <1>6 DEF Misses
  <2>2. Selects(cases, v, i)
    BY <2>1 DEF Selects, Given
  <2>3. PICK p \in 1..Len(f) : f[p].label = v /\ SameSoFar(Len(cases) + 1, f, i, p)
    BY <1>1, <2>1 DEF LoopInv, Followed
  <2>4. Selects(f, v, p)
    BY <2>3 DEF Selects, LoopInv, LabelsKept
  <2>5. CASE FallsThrough(cases, i, Len(cases) + 1) /\ FallsThrough(f, p, Len(f) + 1)
    <3>1. Executed(cases, v) = NoStatement
      BY <1>1, <2>2, <2>5, RunsNothing, SelectedAt
    <3>2. Executed(f, v) = NoStatement
      BY <1>1, <2>4, <2>5, RunsNothing, SelectedAt
    <3>3. QED
      BY <1>4, <3>1, <3>2
  <2>6. ASSUME NEW j \in i..Len(cases), NEW q \in p..Len(f),
               cases[j].statement # NoStatement, FallsThrough(cases, i, j),
               f[q].statement = cases[j].statement, FallsThrough(f, p, q)
        PROVE  Executed(f, v) = Executed(cases, v)
    <3>1. Executed(cases, v) = cases[j].statement
      BY <1>1, <2>2, <2>6, RunsFirstBody, SelectedAt DEF FirstBody
    <3>2. Executed(f, v) = f[q].statement
      BY <1>1, <2>4, <2>6, RunsFirstBody, SelectedAt DEF FirstBody
    <3>3. QED
      BY <2>6, <3>1, <3>2
  <2>7. f # <<>>
    BY <2>3
  <2>8. QED
    BY <1>1, <1>4, <2>3, <2>5, <2>6, <2>7 DEF SameSoFar
<1>7. QED
  BY <1>5, <1>6

\* A case that is always taken and has a statement may end the switch.
LEMMA AlwaysPreserves ==
    ASSUME Given, NEW n \in 1..Len(cases), NEW f, NEW b, LoopInv(n, f, b),
           cases[n].statement # NoStatement, NEW v, cases[n].label = v
    PROVE  Executed(Append(f, cases[n]), v) = Executed(cases, v)
<1> DEFINE g == Append(f, cases[n])
<1>1. /\ f \in Seq(Case) /\ cases \in Seq(Case) /\ cases[n] \in Case /\ Len(cases) \in Nat
      /\ n \in 1..(Len(cases) + 1)
  BY DEF LoopInv, LoopType, Given
<1>2. /\ g \in Seq(Case) /\ Len(f) \in Nat /\ Len(g) = Len(f) + 1
      /\ \A p \in 1..Len(f) : g[p] = f[p]
      /\ g[Len(f) + 1] = cases[n]
  BY <1>1, AppendShape
<1> HIDE DEF g
<1>3. Misses(f, v)
  <2>1. \A i \in 1..(n - 1) : cases[i].label # v
    BY <1>1 DEF Given
  <2>2. QED
    BY <1>1, <2>1, NothingAdded
<1>4. Selects(cases, v, n) /\ FirstBody(cases, n, n)
  BY <1>1 DEF Selects, Given, FirstBody, FallsThrough
<1>5. Selects(g, v, Len(g)) /\ FirstBody(g, Len(g), Len(g))
  BY <1>2, <1>3 DEF Selects, Misses, FirstBody, FallsThrough
<1>6. Executed(cases, v) = cases[n].statement
  BY <1>1, <1>4, RunsFirstBody, SelectedAt
<1>7. Executed(g, v) = cases[n].statement
  BY <1>2, <1>5, RunsFirstBody, SelectedAt
<1>8. QED
  BY <1>6, <1>7 DEF g

\* The default case ends the switch.
LEMMA DefaultPreserves ==
    ASSUME Given, NEW n \in 1..Len(cases), NEW f, NEW b, LoopInv(n, f, b),
           cases[n].label = Default, NEW v \in possible
    PROVE  /\ Executed(Append(f, cases[n]), v) = Executed(cases, v)
           /\ Len(Append(f, cases[n])) = 1 =>
                 Append(f, cases[n])[1].statement = Executed(cases, v)
<1> DEFINE g == Append(f, cases[n])
<1>1. /\ f \in Seq(Case) /\ cases \in Seq(Case) /\ cases[n] \in Case /\ Len(cases) \in Nat
      /\ n \in 1..(Len(cases) + 1) /\ n = Len(cases) /\ cases[n].statement # NoStatement
  BY DEF LoopInv, LoopType, Given
<1>2. /\ g \in Seq(Case) /\ Len(f) \in Nat /\ Len(g) = Len(f) + 1
      /\ \A p \in 1..Len(f) : g[p] = f[p]
      /\ g[Len(f) + 1] = cases[n]
  BY <1>1, AppendShape
<1> HIDE DEF g
<1>3. v # Default
  BY ValueNotDefault
<1>4. Misses(f, Default)
  <2>1. \A i \in 1..(n - 1) : cases[i].label # Default
    BY DEF LoopInv, LabelsKept
  <2>2. QED
    BY <1>1, <2>1, NothingAdded
<1>5. Selects(cases, Default, n) /\ Selects(g, Default, Len(g))
  BY <1>1, <1>2, <1>4 DEF Selects, Misses, Given
<1>6. CASE Misses(cases, v)
  <2>1. Misses(f, v)
    <3>1. \A i \in 1..(n - 1) : cases[i].label # v
      BY <1>1, <1>6 DEF Misses
    <3>2. QED
      BY <1>1, <3>1, NothingAdded
  <2>2. Misses(g, v)
    BY <1>1, <1>2, <1>3, <2>1 DEF Misses
  <2>3. FirstBody(cases, n, n) /\ FirstBody(g, Len(g), Len(g))
    BY <1>1, <1>2 DEF FirstBody, FallsThrough
  <2>4. At(cases, v, n) /\ At(g, v, Len(g))
    BY <1>5, <1>6, <2>2, SelectedAt
  <2>5. Executed(cases, v) = cases[n].statement
    BY <1>1, <2>3, <2>4, RunsFirstBody
  <2>6. Executed(g, v) = g[Len(g)].statement
    BY <1>2, <2>3, <2>4, RunsFirstBody
  <2>7. QED
    BY <1>2, <2>5, <2>6 DEF g
<1>7. CASE ~Misses(cases, v)
  <2>1. PICK i \in 1..Len(cases) : cases[i].label = v
    BY <1>7 DEF Misses
  <2>2. Selects(cases, v, i) /\ i \in 1..(n - 1)
    BY <1>1, <1>3, <2>1 DEF Selects, Given
  <2>3. PICK p \in 1..Len(f) : f[p].label = v /\ SameSoFar(n, f, i, p)
    BY <2>1, <2>2 DEF LoopInv, Followed
  <2>4. Selects(f, v, p)
    BY <2>3 DEF Selects, LoopInv, LabelsKept
  <2>5. Selects(g, v, p) /\ Len(g) # 1
    BY <1>2, <1>3, <2>4 DEF Selects
  <2>6. CASE FallsThrough(cases, i, n) /\ FallsThrough(f, p, Len(f) + 1)
    <3>1. FirstBody(cases, i, n)
      BY <1>1, <2>2, <2>6 DEF FirstBody
    <3>2. FirstBody(g, p, Len(g))
      BY <1>1, <1>2, <2>3, <2>6 DEF FirstBody, FallsThrough
    <3>3. Executed(cases, v) = cases[n].statement
      BY <1>1, <2>2, <3>1, RunsFirstBody, SelectedAt
    <3>4. Executed(g, v) = g[Len(g)].statement
      BY <1>2, <2>5, <3>2, RunsFirstBody, SelectedAt
    <3>5. QED
      BY <1>2, <2>5, <3>3, <3>4 DEF g
  <2>7. ASSUME NEW j \in i..(n - 1), NEW q \in p..Len(f),
               cases[j].statement # NoStatement, FallsThrough(cases, i, j),
               f[q].statement = cases[j].statement, FallsThrough(f, p, q)
        PROVE  Executed(g, v) = Executed(cases, v)
    <3>1. FirstBody(cases, i, j)
      BY <1>1, <2>7 DEF FirstBody
    <3>2. FirstBody(g, p, q) /\ g[q].statement = cases[j].statement
      <4>1. q \in 1..Len(f) /\ q \in p..Len(g)
        BY <1>2, <2>3, <2>7
      <4>2. \A k \in p..(q - 1) : k \in 1..Len(f) /\ f[k].statement = NoStatement
        BY <1>2, <2>3, <2>7 DEF FallsThrough
      <4>3. QED
        BY <1>2, <2>7, <4>1, <4>2 DEF FirstBody, FallsThrough
    <3>3. Executed(cases, v) = cases[j].statement
      BY <1>1, <2>2, <3>1, RunsFirstBody, SelectedAt
    <3>4. Executed(g, v) = g[q].statement
      BY <1>2, <2>5, <3>2, RunsFirstBody, SelectedAt
    <3>5. QED
      BY <3>2, <3>3, <3>4
  <2>8. QED
    BY <2>3, <2>5, <2>6, <2>7 DEF SameSoFar, g
<1>8. QED
  BY <1>6, <1>7

-----------------------------------------------------------------------------
(* The theorem.                                                             *)

\* What the three kinds of replacement run.
LEMMA ReturnedRuns ==
    ASSUME NEW kept, Return(kept), NEW v
    PROVE  /\ replacement' # <<>>
           /\ kept = <<>> => ExecutedAfter(v)' = NoStatement
           /\ (kept # <<>> /\ Len(kept) = 1 /\ kept[1].label = Default)
                 => ExecutedAfter(v)' = kept[1].statement
           /\ (kept # <<>> /\ ~(Len(kept) = 1 /\ kept[1].label = Default))
                 => ExecutedAfter(v)' = Executed(kept, v)
<1>1. ExecutedAfter(v)' = CASE replacement'[1] = "empty" -> NoStatement
                            [] replacement'[1] = "block" -> replacement'[2][1].statement
                            [] OTHER                     -> Executed(replacement'[2], v)
  BY DEF ExecutedAfter, Executed
<1>2. CASE kept = <<>>
  BY <1>1, <1>2 DEF Return
<1>3. CASE kept # <<>> /\ Len(kept) = 1 /\ kept[1].label = Default
  <2>1. replacement' = <<"block", kept>>
    BY <1>3 DEF Return
  <2>2. QED
    BY <1>1, <1>3, <2>1
<1>4. CASE kept # <<>> /\ ~(Len(kept) = 1 /\ kept[1].label = Default)
  <2>1. replacement' = <<"switch", kept>>
    BY <1>4 DEF Return
  <2>2. QED
    BY <1>1, <1>4, <2>1
<1>5. QED
  BY <1>2, <1>3, <1>4

\* The invariant of the next state, where the loop variables have values n, f, b.
LEMMA LoopFrame ==
    ASSUME UNCHANGED <<cases, possible>>, NEW n, NEW f, NEW b, LoopInv(n, f, b),
           index' = n, filtered' = f, fallThrough' = b
    PROVE  LoopInv(index, filtered, fallThrough)'
<1>1. LoopType(index, filtered, fallThrough)'
  BY DEF LoopInv, LoopType
<1>2. LabelsKept(index, filtered)'
  BY DEF LoopInv, LabelsKept
<1>3. FlagRight(index, filtered, fallThrough)'
  BY DEF LoopInv, FlagRight
<1>4. Followed(index, filtered)'
  BY DEF LoopInv, Followed, SameSoFar, FallsThrough
<1>5. QED
  BY <1>1, <1>2, <1>3, <1>4 DEF LoopInv

\* Every turn of the loop keeps the invariant, and what it returns is right.
LEMMA NextSwitch == SwitchInv /\ SwitchPreserved /\ [Next]_vars => SwitchInv' /\ SwitchPreserved'
<1> SUFFICES ASSUME SwitchInv, SwitchPreserved, [Next]_vars
             PROVE  SwitchInv' /\ SwitchPreserved'
  OBVIOUS
<1> DEFINE Goal == SwitchInv' /\ SwitchPreserved'
<1>1. InLoop => /\ index \in 1..Len(cases) /\ LoopInv(index, filtered, fallThrough)
                /\ Given /\ cases[index] \in Case /\ Current = cases[index]
                /\ filtered \in Seq(Case)
  BY DEF InLoop, SwitchInv, Given, LoopInv, LoopType, Current
<1>2. UNCHANGED <<cases, possible>> => Given'
  BY DEF SwitchInv, Given
<1>3. ASSUME InLoop, Current.label # Default, Keep PROVE Goal
  <2>1. LoopInv(index + 1, Append(filtered, cases[index]),
                cases[index].statement = NoStatement)
    BY <1>1, <1>3, KeepCase
  <2>2. /\ filtered' = Append(filtered, cases[index])
        /\ fallThrough' = (cases[index].statement = NoStatement)
        /\ index' = index + 1 /\ replacement' = <<>>
        /\ UNCHANGED <<cases, possible>>
    BY <1>1, <1>3 DEF Keep, InLoop
  <2>3. LoopInv(index, filtered, fallThrough)'
    BY <2>1, <2>2, LoopFrame
  <2>4. QED
    BY <1>2, <2>2, <2>3 DEF SwitchInv, SwitchPreserved
<1>4. CASE KeepDefault
  <2>1. /\ InLoop /\ cases[index].label = Default
        /\ Return(Append(filtered, cases[index]))
        /\ UNCHANGED <<cases, possible>>
    BY <1>1, <1>4 DEF KeepDefault
  <2> DEFINE kept == Append(filtered, cases[index])
  <2>2. kept # <<>> /\ Len(kept) \in Nat
    BY <1>1, <2>1, AppendShape
  <2>3. ASSUME NEW v \in possible PROVE ExecutedAfter(v)' = Executed(cases, v)
    <3>1. /\ Executed(kept, v) = Executed(cases, v)
          /\ Len(kept) = 1 => kept[1].statement = Executed(cases, v)
      BY <1>1, <2>1, <2>3, DefaultPreserves
    <3> HIDE DEF kept
    <3>2. QED
      BY <2>1, <2>2, <3>1, ReturnedRuns DEF kept
  <2>4. replacement' # <<>>
    BY <2>1, ReturnedRuns
  <2>5. QED
    BY <1>2, <2>1, <2>3, <2>4 DEF SwitchInv, SwitchPreserved
<1>5. CASE KeepUndecided
  BY <1>3, <1>5 DEF KeepUndecided
<1>6. CASE KeepAlways
  <2>1. CASE Keep
    BY <1>3, <1>6, <2>1 DEF KeepAlways
  <2>2. CASE ~Keep
    <3>1. /\ InLoop /\ cases[index].label # Default
          /\ cases[index].statement # NoStatement
          /\ possible = {cases[index].label}
          /\ Return(Append(filtered, cases[index]))
          /\ UNCHANGED <<cases, possible>>
      BY <1>1, <1>6, <2>2 DEF KeepAlways, Reachability
    <3> DEFINE kept == Append(filtered, cases[index])
    <3>2. /\ kept # <<>> /\ Len(filtered) \in Nat /\ Len(kept) = Len(filtered) + 1
          /\ kept[Len(filtered) + 1] = cases[index]
      BY <1>1, <3>1, AppendShape
    <3>3. ~(Len(kept) = 1 /\ kept[1].label = Default)
      BY <3>1, <3>2
    <3>4. ASSUME NEW v \in possible PROVE ExecutedAfter(v)' = Executed(cases, v)
      <4>1. Executed(kept, v) = Executed(cases, v)
        BY <1>1, <3>1, <3>4, AlwaysPreserves
      <4> HIDE DEF kept
      <4>2. QED
        BY <3>1, <3>2, <3>3, <4>1, ReturnedRuns DEF kept
    <3>5. replacement' # <<>>
      BY <3>1, ReturnedRuns
    <3>6. QED
      BY <1>2, <3>1, <3>4, <3>5 DEF SwitchInv, SwitchPreserved
  <2>3. QED
    BY <2>1, <2>2
<1>7. CASE Drop
  <2>1. /\ InLoop /\ cases[index].label # Default /\ cases[index].label \notin possible
        /\ filtered' = Left(filtered, fallThrough, cases[index])
        /\ fallThrough' = (cases[index].statement = NoStatement)
        /\ index' = index + 1 /\ replacement' = <<>>
        /\ UNCHANGED <<cases, possible>>
    BY <1>1, <1>7 DEF Drop, Reachability, Merged, Left, Moved, InLoop
  <2>2. LoopInv(index + 1, Left(filtered, fallThrough, cases[index]),
                cases[index].statement = NoStatement)
    BY <1>1, <2>1, DropCase
  <2>3. LoopInv(index, filtered, fallThrough)'
    BY <2>1, <2>2, LoopFrame
  <2>4. QED
    BY <1>2, <2>1, <2>3 DEF SwitchInv, SwitchPreserved
<1>8. CASE EndOfLoop
  <2>1. /\ Given /\ LoopInv(Len(cases) + 1, filtered, fallThrough)
        /\ Return(filtered) /\ UNCHANGED <<cases, possible>>
    <3>1. Given /\ LoopInv(index, filtered, fallThrough) /\ index > Len(cases)
      BY <1>8 DEF EndOfLoop, SwitchInv
    <3>2. index = Len(cases) + 1
      BY <3>1 DEF Given, LoopInv, LoopType
    <3>3. QED
      BY <1>8, <3>1, <3>2 DEF EndOfLoop
  <2>2. ASSUME NEW v \in possible PROVE ExecutedAfter(v)' = Executed(cases, v)
    <3>1. /\ Executed(filtered, v) = Executed(cases, v)
          /\ filtered = <<>> => Executed(cases, v) = NoStatement
          /\ filtered # <<>> => filtered[1].label # Default
      BY <2>1, <2>2, EndPreserves
    <3>2. QED
      BY <2>1, <3>1, ReturnedRuns
  <2>3. replacement' # <<>>
    BY <2>1, ReturnedRuns
  <2>4. QED
    BY <1>2, <2>1, <2>2, <2>3 DEF SwitchInv, SwitchPreserved
<1>9. CASE UNCHANGED vars
  <2>1. SwitchInv'
    BY <1>2, <1>9, LoopFrame DEF vars, SwitchInv
  <2>2. SwitchPreserved'
    BY <1>9 DEF vars, SwitchPreserved, ExecutedAfter
  <2>3. QED
    BY <2>1, <2>2
<1>10. QED
  BY <1>4, <1>5, <1>6, <1>7, <1>8, <1>9 DEF Next

\* The replacement of a switch runs what the switch ran, for every possible value
\* of its expression and switches of any length over any labels, if no label that
\* is unreachable and falls through comes right after a case with a statement.
THEOREM EliminationPreservesSwitch ==
    ASSUME ~DeadFallThrough
    PROVE  Spec => []SwitchPreserved
<1>1. Init => SwitchPreserved
  BY DEF Init, SwitchPreserved
<1>2. QED
  BY <1>1, InitSwitch, NextSwitch, PTL DEF Spec
=============================================================================
