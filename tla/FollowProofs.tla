---------------------------- MODULE FollowProofs ----------------------------
(***************************************************************************)
(* Proofs about Follow and the functions of LogReader: that a follower     *)
(* prints what a fetch prints, that a log which only grows is never read   *)
(* again from the top, that whole lines keep their places, and that the    *)
(* two ways to read a step agree.                                          *)
(***************************************************************************)
EXTENDS Follow, DataLemmas, SequenceTheorems, TLAPS

-----------------------------------------------------------------------------
\* The renderer, line by line.

LogLines ==
    [stream : StreamIds, number : Nat, pieces : Nat, whole : BOOLEAN,
     event : {"text", "step_start", "step_end"}]

Renderers == [index : Nat, inStep : BOOLEAN, visible : BOOLEAN, out : Seq(LogLines)]

LEMMA RenderLineIn ==
    ASSUME NEW a \in Renderers, NEW line \in LogLines, NEW ref
    PROVE  RenderLine(a, line, ref) \in Renderers
<1>1. /\ a.index \in Nat /\ a.inStep \in BOOLEAN /\ a.visible \in BOOLEAN
      /\ a.out \in Seq(LogLines) /\ Append(a.out, line) \in Seq(LogLines)
  BY DEF Renderers
<1>2. CASE line.event = "step_start"
  <2> DEFINE shows == ref \in {0, a.index + 1}
             o == IF shows THEN Append(a.out, line) ELSE a.out
  <2>1. RenderLine(a, line, ref) =
          [index |-> a.index + 1, inStep |-> TRUE, visible |-> shows, out |-> o]
    BY <1>2, Zenon DEF RenderLine
  <2>2. o \in Seq(LogLines) /\ shows \in BOOLEAN
    BY <1>1
  <2> HIDE DEF shows, o
  <2> QED
    BY <1>1, <2>1, <2>2 DEF Renderers
<1>3. CASE line.event = "step_end"
  <2> DEFINE o == IF a.visible THEN Append(a.out, line) ELSE a.out
  <2>1. RenderLine(a, line, ref) = [a EXCEPT !.inStep = FALSE, !.out = o]
    BY <1>3 DEF RenderLine
  <2>2. o \in Seq(LogLines)
    BY <1>1
  <2> HIDE DEF o
  <2> QED
    BY <1>1, <2>1, <2>2 DEF Renderers
<1>4. CASE line.event \notin {"step_start", "step_end"}
  <2> DEFINE o == IF Showing(a, ref) THEN Append(a.out, line) ELSE a.out
  <2>1. RenderLine(a, line, ref) = [a EXCEPT !.out = o]
    BY <1>4 DEF RenderLine
  <2>2. o \in Seq(LogLines)
    BY <1>1
  <2> HIDE DEF o
  <2> QED
    BY <1>1, <2>1, <2>2 DEF Renderers
<1> QED
  BY <1>2, <1>3, <1>4

LEMMA NewRendererIn == NewRenderer \in Renderers
  BY DEF NewRenderer, Renderers

\* RenderLine as a function.
Rendering(ref) == [p \in Renderers \X LogLines |-> RenderLine(p[1], p[2], ref)]

LEMMA RenderingIs ==
    ASSUME NEW ref
    PROVE  /\ Rendering(ref) \in [Renderers \X LogLines -> Renderers]
           /\ \A a \in Renderers, line \in LogLines :
                 Rendering(ref)[<<a, line>>] = RenderLine(a, line, ref)
<1>1. \A p \in Renderers \X LogLines : RenderLine(p[1], p[2], ref) \in Renderers
  BY RenderLineIn
<1> QED
  BY <1>1 DEF Rendering

\* What Render computes by.
RenderPart(g, a, lines, ref, s) ==
    IF s = {} THEN a ELSE RenderLine(g[s \ {Max(s)}], lines[Max(s)], ref)

IsRendering(g, a, lines, ref) ==
    g = [s \in SUBSET (DOMAIN lines) |-> RenderPart(g, a, lines, ref, s)]

LEMMA RenderByRecursion ==
    ASSUME NEW a, NEW lines, NEW ref
    PROVE  Render(a, lines, ref) =
             (CHOOSE g : IsRendering(g, a, lines, ref))[DOMAIN lines]
  BY Zenon DEF Render, FoldLeft, MapThenFoldSet, IsRendering, RenderPart

\* What Render makes after each line.
Rendered(t, a, lines, ref) == Traces(t, Rendering(ref), a, lines, Renderers)

LEMMA RenderTrace ==
    ASSUME NEW a \in Renderers, NEW lines \in Seq(LogLines), NEW ref
    PROVE  \E t : Rendered(t, a, lines, ref) /\ Render(a, lines, ref) = t[Len(lines)]
<1> DEFINE K == Rendering(ref)
           D == SUBSET (DOMAIN lines)
<1>0. /\ K \in [Renderers \X LogLines -> Renderers]
      /\ \A b \in Renderers, line \in LogLines : K[<<b, line>>] = RenderLine(b, line, ref)
  BY RenderingIs, Zenon
<1> HIDE DEF K
<1>1. \E g : FoldsBy(g, K, a, lines, Renderers)
  BY <1>0, FoldsByExists
<1>2. ASSUME NEW g, FoldsBy(g, K, a, lines, Renderers) PROVE IsRendering(g, a, lines, ref)
  <2>1. ASSUME NEW s \in D PROVE g[s] = RenderPart(g, a, lines, ref, s)
    <3>1. CASE s = {}
      BY <1>2, <3>1, Zenon DEF FoldsBy, RenderPart
    <3>2. CASE s # {}
      <4>1. lines[Max(s)] \in LogLines /\ s \ {Max(s)} \in D
        BY <3>2, ElementOfMax
      <4>2. g[s \ {Max(s)}] \in Renderers
        BY <1>2, <4>1 DEF FoldsBy
      <4>3. g[s] = K[<<g[s \ {Max(s)}], lines[Max(s)]>>]
        BY <1>2, <3>2, Zenon DEF FoldsBy
      <4>4. g[s] = RenderLine(g[s \ {Max(s)}], lines[Max(s)], ref)
        BY <1>0, <4>1, <4>2, <4>3, Zenon
      <4> QED
        BY <3>2, <4>4, Zenon DEF RenderPart
    <3> QED
      BY <3>1, <3>2
  <2>2. g \in [D -> Renderers]
    BY <1>2 DEF FoldsBy
  <2>3. g = [s \in D |-> g[s]]
    BY <2>2
  <2>4. g = [s \in D |-> RenderPart(g, a, lines, ref, s)]
    BY <2>1, <2>3, Zenon
  <2> QED
    BY <2>4, Zenon DEF IsRendering
<1> DEFINE h == CHOOSE g : IsRendering(g, a, lines, ref)
<1>3. IsRendering(h, a, lines, ref)
  BY <1>1, <1>2, Zenon
<1>4. Render(a, lines, ref) = h[DOMAIN lines]
  BY RenderByRecursion, Zenon
<1> HIDE DEF h
<1>5. \A s \in D : h[s] = RenderPart(h, a, lines, ref, s)
  BY <1>3 DEF IsRendering
<1> DEFINE n == Len(lines)
           t == [i \in 0..n |-> h[1..i]]
           F == {i \in Nat : i <= n => t[i] \in Renderers}
<1>6. n \in Nat /\ DOMAIN lines = 1..n /\ \A i \in 1..n : lines[i] \in LogLines
  OBVIOUS
<1>7. t[0] = a
  <2>1. 1..0 = {} /\ {} \in D /\ t[0] = h[1..0]
    BY <1>6
  <2> QED
    BY <1>5, <2>1, Zenon DEF RenderPart
<1>8. ASSUME NEW i \in 1..n PROVE t[i] = RenderLine(t[i - 1], lines[i], ref)
  <2>1. Max(1..i) = i /\ (1..i) \ {i} = 1..(i - 1) /\ 1..i # {} /\ 1..i \in D
    BY <1>6, MaxOfInterval
  <2>2. t[i] = h[1..i] /\ t[i - 1] = h[1..(i - 1)]
    BY <1>6
  <2> QED
    BY <1>5, <2>1, <2>2, Zenon DEF RenderPart
<1>9. t[n] = h[DOMAIN lines] /\ t = [i \in 0..n |-> t[i]]
  BY <1>6
<1> HIDE DEF t, n
<1>10. 0 \in F
  BY <1>7
<1>11. ASSUME NEW i \in Nat, i \in F PROVE i + 1 \in F
  <2> SUFFICES ASSUME i + 1 <= n PROVE t[i + 1] \in Renderers
    OBVIOUS
  <2>1. i + 1 \in 1..n /\ (i + 1) - 1 = i /\ t[i] \in Renderers /\ lines[i + 1] \in LogLines
    BY <1>6, <1>11
  <2>2. t[i + 1] = RenderLine(t[i], lines[i + 1], ref)
    BY <1>8, <2>1, Zenon
  <2> QED
    BY <2>1, <2>2, RenderLineIn
<1> HIDE DEF F
<1>12. \A i \in Nat : i \in F
  BY <1>10, <1>11, NatInduct
<1>13. \A i \in 0..n : t[i] \in Renderers
  BY <1>6, <1>12 DEF F
<1>14. t \in [0..n -> Renderers]
  BY <1>9, <1>13
<1>15. ASSUME NEW i \in 1..n PROVE t[i] = K[<<t[i - 1], lines[i]>>]
  <2>1. t[i - 1] \in Renderers /\ lines[i] \in LogLines
    BY <1>6, <1>13
  <2> QED
    BY <1>0, <1>8, <2>1, Zenon
<1>16. Rendered(t, a, lines, ref)
  BY <1>7, <1>14, <1>15, Zenon DEF Rendered, Traces, K, n
<1> QED
  BY <1>4, <1>9, <1>16, Zenon DEF n

LEMMA RenderIn ==
    ASSUME NEW a \in Renderers, NEW lines \in Seq(LogLines), NEW ref
    PROVE  Render(a, lines, ref) \in Renderers
<1>1. PICK t : Rendered(t, a, lines, ref) /\ Render(a, lines, ref) = t[Len(lines)]
  BY RenderTrace
<1> QED
  BY <1>1, TraceIn DEF Rendered

LEMMA RenderNone ==
    ASSUME NEW a \in Renderers, NEW ref
    PROVE  Render(a, <<>>, ref) = a
<1> DEFINE none == <<>>
<1>1. none \in Seq(LogLines) /\ Len(none) = 0
  OBVIOUS
<1> HIDE DEF none
<1>2. PICK t : Rendered(t, a, none, ref) /\ Render(a, none, ref) = t[Len(none)]
  BY <1>1, RenderTrace
<1> QED
  BY <1>1, <1>2, Zenon DEF Rendered, Traces, none

LEMMA RenderAppend ==
    ASSUME NEW a \in Renderers, NEW lines \in Seq(LogLines), NEW line \in LogLines, NEW ref
    PROVE  Render(a, Append(lines, line), ref) = RenderLine(Render(a, lines, ref), line, ref)
<1> DEFINE more == Append(lines, line)
<1>1. more \in Seq(LogLines)
  OBVIOUS
<1>2. PICK t : Rendered(t, a, lines, ref) /\ Render(a, lines, ref) = t[Len(lines)]
  BY RenderTrace
<1>3. PICK u : Rendered(u, a, more, ref) /\ Render(a, more, ref) = u[Len(more)]
  BY <1>1, RenderTrace
<1>4. u[Len(more)] = Rendering(ref)[<<t[Len(lines)], line>>]
  BY <1>2, <1>3, TraceAppend DEF Rendered
<1>5. t[Len(lines)] \in Renderers
  BY <1>2, TraceIn DEF Rendered
<1>6. Rendering(ref)[<<t[Len(lines)], line>>] = RenderLine(t[Len(lines)], line, ref)
  BY <1>5, RenderingIs
<1> QED
  BY <1>2, <1>3, <1>4, <1>6, Zenon

\* Lines one after the other, or in two goes.
LEMMA RenderConcat ==
    ASSUME NEW a \in Renderers, NEW lines \in Seq(LogLines), NEW more \in Seq(LogLines),
           NEW ref
    PROVE  Render(a, lines \o more, ref) = Render(Render(a, lines, ref), more, ref)
<1> DEFINE upto(k) == SubSeq(more, 1, k)
           b == Render(a, lines, ref)
           F == {k \in Nat : k <= Len(more) =>
                    Render(a, lines \o upto(k), ref) = Render(b, upto(k), ref)}
<1>0. b \in Renderers
  BY RenderIn
<1>1. 0 \in F
  <2>1. upto(0) = <<>> /\ lines \o <<>> = lines
    OBVIOUS
  <2> HIDE DEF upto, b
  <2>2. Render(b, <<>>, ref) = b
    BY <1>0, RenderNone
  <2> QED
    BY <2>1, <2>2 DEF b
<1>2. ASSUME NEW k \in Nat, k \in F PROVE k + 1 \in F
  <2> SUFFICES ASSUME k + 1 <= Len(more)
               PROVE  Render(a, lines \o upto(k + 1), ref) = Render(b, upto(k + 1), ref)
    OBVIOUS
  <2> DEFINE line == more[k + 1]
             both == lines \o upto(k)
  <2>1. /\ line \in LogLines /\ upto(k) \in Seq(LogLines) /\ both \in Seq(LogLines)
        /\ upto(k + 1) = Append(upto(k), line)
    OBVIOUS
  <2>2. lines \o Append(upto(k), line) = Append(both, line)
    BY <2>1
  <2>3. Render(a, both, ref) = Render(b, upto(k), ref)
    BY <1>2
  <2> HIDE DEF upto, b, both, line
  <2>4. /\ Render(a, Append(both, line), ref) = RenderLine(Render(a, both, ref), line, ref)
        /\ Render(b, Append(upto(k), line), ref) = RenderLine(Render(b, upto(k), ref), line, ref)
    BY <1>0, <2>1, RenderAppend
  <2> QED
    BY <2>1, <2>2, <2>3, <2>4, Zenon
<1> HIDE DEF F
<1>3. \A k \in Nat : k \in F
  BY <1>1, <1>2, NatInduct
<1>4. Len(more) \in Nat /\ Len(more) <= Len(more) /\ upto(Len(more)) = more
  OBVIOUS
<1> HIDE DEF upto
<1>5. Render(a, lines \o upto(Len(more)), ref) = Render(b, upto(Len(more)), ref)
  BY <1>3, <1>4 DEF F
<1> QED
  BY <1>4, <1>5, Zenon

-----------------------------------------------------------------------------
\* The grouping, line by line.

Sections == [lines : Seq(LogLines), ended : BOOLEAN]

Groupings ==
    {acc \in [steps : Seq(Sections), preamble : Seq(LogLines), current : BOOLEAN] :
        acc.current => Len(acc.steps) # 0}

NoGroups == [steps |-> <<>>, preamble |-> <<>>, current |-> FALSE]

LEMMA NoGroupsIn == NoGroups \in Groupings
  BY DEF NoGroups, Groupings

LEMMA SectionChanges ==
    ASSUME NEW old \in Sections, NEW line \in LogLines
    PROVE  /\ [old EXCEPT !.ended = TRUE] \in Sections
           /\ [old EXCEPT !.ended = TRUE].lines = old.lines
           /\ [old EXCEPT !.lines = Append(@, line)] \in Sections
           /\ [old EXCEPT !.lines = Append(@, line)].lines = Append(old.lines, line)
<1>1. old.lines \in Seq(LogLines) /\ Append(old.lines, line) \in Seq(LogLines)
  BY DEF Sections
<1> QED
  BY <1>1 DEF Sections

\* What a line does to the steps and to the preamble.
LEMMA GroupLineIs ==
    ASSUME NEW a \in Groupings, NEW line \in LogLines
    PROVE  LET n == Len(a.steps)
               b == GroupLine(a, line)
           IN /\ b \in Groupings
              /\ line.event = "step_start" =>
                    /\ b.steps = Append(a.steps, [lines |-> <<>>, ended |-> FALSE])
                    /\ b.preamble = a.preamble /\ b.current
              /\ line.event = "step_end" =>
                    /\ Len(b.steps) = n /\ \A k \in 1..n : b.steps[k].lines = a.steps[k].lines
                    /\ b.preamble = a.preamble /\ ~b.current
              /\ line.event = "text" /\ a.current =>
                    /\ Len(b.steps) = n /\ \A k \in 1..(n - 1) : b.steps[k].lines = a.steps[k].lines
                    /\ b.steps[n].lines = Append(a.steps[n].lines, line)
                    /\ b.preamble = a.preamble /\ b.current
              /\ line.event = "text" /\ ~a.current =>
                    /\ b.steps = a.steps /\ ~b.current
                    /\ b.preamble = Append(a.preamble, line)
<1> DEFINE n == Len(a.steps)
           b == GroupLine(a, line)
<1>0. a \in [steps : Seq(Sections), preamble : Seq(LogLines), current : BOOLEAN]
  BY DEF Groupings
<1>a. a = [steps |-> a.steps, preamble |-> a.preamble, current |-> a.current]
  BY <1>0
<1>b. a.steps \in Seq(Sections) /\ a.preamble \in Seq(LogLines) /\ a.current \in BOOLEAN
  BY <1>0
<1>c. n \in Nat /\ (a.current => n # 0)
  BY <1>b DEF Groupings
<1>d. \A k \in 1..n : a.steps[k] \in Sections /\ a.steps[k].lines \in Seq(LogLines)
  <2> DEFINE steps == a.steps
  <2>1. \A sec \in Sections : sec.lines \in Seq(LogLines)
    BY DEF Sections
  <2>2. steps \in Seq(Sections)
    BY <1>b
  <2> HIDE DEF steps
  <2>3. \A k \in 1..Len(steps) : steps[k] \in Sections
    BY <2>2
  <2> QED
    BY <2>1, <2>3 DEF steps
<1>1. /\ a = [steps |-> a.steps, preamble |-> a.preamble, current |-> a.current]
      /\ a.steps \in Seq(Sections) /\ n \in Nat /\ (a.current => n # 0)
      /\ a.preamble \in Seq(LogLines) /\ a.current \in BOOLEAN
      /\ \A k \in 1..n : /\ a.steps[k] \in Sections
                         /\ a.steps[k].lines \in Seq(LogLines)
  BY <1>a, <1>b, <1>c, <1>d, Zenon
<1>2. line.event \in {"text", "step_start", "step_end"}
  BY DEF LogLines
<1>3. CASE line.event = "step_start"
  <2> DEFINE new == [lines |-> <<>>, ended |-> FALSE]
             more == Append(a.steps, new)
  <2>1. b = [a EXCEPT !.steps = more, !.current = TRUE]
    BY <1>3 DEF GroupLine
  <2>2. new \in Sections
    BY DEF Sections
  <2> HIDE DEF new
  <2>3. more \in Seq(Sections) /\ Len(more) # 0
    BY <1>1, <2>2
  <2> HIDE DEF more, b
  <2>4. b = [steps |-> more, preamble |-> a.preamble, current |-> TRUE]
    BY <1>1, <2>1
  <2>5. b \in Groupings
    BY <1>1, <2>3, <2>4 DEF Groupings
  <2> QED
    BY <1>3, <2>4, <2>5 DEF b, more, new
<1>4. CASE line.event = "step_end"
  <2>1. b = EndStep(a)
    BY <1>4 DEF GroupLine
  <2>2. CASE a.current
    <3> DEFINE last == [a.steps[n] EXCEPT !.ended = TRUE]
               more == [a.steps EXCEPT ![n] = last]
    <3>1. b = [a EXCEPT !.steps = more, !.current = FALSE]
      BY <1>1, <2>1, <2>2 DEF EndStep
    <3>a. n \in 1..n /\ a.steps[n] \in Sections
      BY <1>1, <2>2
    <3>2. n \in 1..n /\ last \in Sections /\ last.lines = a.steps[n].lines
      BY <3>a, SectionChanges, Zenon
    <3> HIDE DEF last
    <3>3. /\ more \in Seq(Sections) /\ Len(more) = n
          /\ \A k \in 1..n : more[k] = IF k = n THEN last ELSE a.steps[k]
      BY <1>1, <3>2
    <3> HIDE DEF more, b
    <3>4. b = [steps |-> more, preamble |-> a.preamble, current |-> FALSE]
      BY <1>1, <3>1
    <3>5. b \in Groupings
      BY <1>1, <3>3, <3>4 DEF Groupings
    <3>6. /\ Len(b.steps) = n /\ b.preamble = a.preamble /\ ~b.current
          /\ \A k \in 1..n : b.steps[k].lines = a.steps[k].lines
      BY <3>2, <3>3, <3>4
    <3> QED
      BY <1>4, <3>5, <3>6 DEF b
  <2>3. CASE ~a.current
    <3>1. b = a
      BY <2>1, <2>3 DEF EndStep
    <3> HIDE DEF b
    <3> QED
      BY <1>4, <2>3, <3>1 DEF b
  <2> QED
    BY <2>2, <2>3
<1>5. CASE line.event = "text" /\ a.current
  <2> DEFINE last == [a.steps[n] EXCEPT !.lines = Append(@, line)]
             more == [a.steps EXCEPT ![n] = last]
  <2>1. b = [a EXCEPT !.steps = more]
    BY <1>1, <1>5 DEF GroupLine
  <2>a. n \in 1..n /\ a.steps[n] \in Sections
    BY <1>1, <1>5
  <2>2. n \in 1..n /\ last \in Sections /\ last.lines = Append(a.steps[n].lines, line)
    BY <2>a, SectionChanges
  <2> HIDE DEF last
  <2>3. /\ more \in Seq(Sections) /\ Len(more) = n
        /\ \A k \in 1..n : more[k] = IF k = n THEN last ELSE a.steps[k]
    BY <1>1, <2>2
  <2> HIDE DEF more, b
  <2>4. b = [steps |-> more, preamble |-> a.preamble, current |-> a.current]
    BY <1>1, <2>1
  <2>5. b \in Groupings
    BY <1>1, <2>3, <2>4 DEF Groupings
  <2>b. b.steps = more /\ b.preamble = a.preamble /\ b.current
    BY <1>5, <2>4
  <2>c. \A k \in 1..(n - 1) : more[k] = a.steps[k]
    BY <1>1, <2>3
  <2>d. more[n] = last
    BY <2>2, <2>3
  <2>6. /\ Len(b.steps) = n /\ b.preamble = a.preamble /\ b.current
        /\ \A k \in 1..(n - 1) : b.steps[k].lines = a.steps[k].lines
        /\ b.steps[n].lines = Append(a.steps[n].lines, line)
    BY <2>2, <2>3, <2>b, <2>c, <2>d, Zenon
  <2> QED
    BY <1>5, <2>5, <2>6 DEF b
<1>6. CASE line.event = "text" /\ ~a.current
  <2> DEFINE more == Append(a.preamble, line)
  <2>1. b = [a EXCEPT !.preamble = more]
    BY <1>6 DEF GroupLine
  <2>2. more \in Seq(LogLines)
    BY <1>1
  <2> HIDE DEF more, b
  <2>3. b = [steps |-> a.steps, preamble |-> more, current |-> a.current]
    BY <1>1, <2>1
  <2>4. b \in Groupings
    BY <1>1, <2>2, <2>3 DEF Groupings
  <2> QED
    BY <1>6, <2>3, <2>4 DEF b, more
<1> QED
  BY <1>2, <1>3, <1>4, <1>5, <1>6

\* GroupLine as a function.
Grouping == [p \in Groupings \X LogLines |-> GroupLine(p[1], p[2])]

LEMMA GroupingIs ==
    /\ Grouping \in [Groupings \X LogLines -> Groupings]
    /\ \A a \in Groupings, line \in LogLines : Grouping[<<a, line>>] = GroupLine(a, line)
<1>1. \A p \in Groupings \X LogLines : GroupLine(p[1], p[2]) \in Groupings
  BY GroupLineIs
<1> QED
  BY <1>1 DEF Grouping

\* What GroupSteps computes by.
GroupPart(g, lines, s) ==
    IF s = {} THEN NoGroups ELSE GroupLine(g[s \ {Max(s)}], lines[Max(s)])

IsGrouping(g, lines) ==
    g = [s \in SUBSET (DOMAIN lines) |-> GroupPart(g, lines, s)]

LEMMA GroupByRecursion ==
    ASSUME NEW lines
    PROVE  GroupSteps(lines) = (CHOOSE g : IsGrouping(g, lines))[DOMAIN lines]
  BY Zenon DEF GroupSteps, FoldLeft, MapThenFoldSet, IsGrouping, GroupPart, NoGroups

\* What GroupSteps makes after each line.
Grouped(t, lines) == Traces(t, Grouping, NoGroups, lines, Groupings)

LEMMA GroupTrace ==
    ASSUME NEW lines \in Seq(LogLines)
    PROVE  \E t : Grouped(t, lines) /\ GroupSteps(lines) = t[Len(lines)]
<1> DEFINE K == Grouping
           D == SUBSET (DOMAIN lines)
<1>0. /\ K \in [Groupings \X LogLines -> Groupings]
      /\ \A b \in Groupings, line \in LogLines : K[<<b, line>>] = GroupLine(b, line)
  BY GroupingIs, Zenon
<1> HIDE DEF K
<1>1. \E g : FoldsBy(g, K, NoGroups, lines, Groupings)
  BY <1>0, NoGroupsIn, FoldsByExists
<1>2. ASSUME NEW g, FoldsBy(g, K, NoGroups, lines, Groupings) PROVE IsGrouping(g, lines)
  <2>1. ASSUME NEW s \in D PROVE g[s] = GroupPart(g, lines, s)
    <3>1. CASE s = {}
      BY <1>2, <3>1, Zenon DEF FoldsBy, GroupPart
    <3>2. CASE s # {}
      <4>1. lines[Max(s)] \in LogLines /\ s \ {Max(s)} \in D
        BY <3>2, ElementOfMax
      <4>2. g[s \ {Max(s)}] \in Groupings
        BY <1>2, <4>1 DEF FoldsBy
      <4>3. g[s] = K[<<g[s \ {Max(s)}], lines[Max(s)]>>]
        BY <1>2, <3>2, Zenon DEF FoldsBy
      <4>4. g[s] = GroupLine(g[s \ {Max(s)}], lines[Max(s)])
        BY <1>0, <4>1, <4>2, <4>3, Zenon
      <4> QED
        BY <3>2, <4>4, Zenon DEF GroupPart
    <3> QED
      BY <3>1, <3>2
  <2>2. g \in [D -> Groupings]
    BY <1>2 DEF FoldsBy
  <2>3. g = [s \in D |-> g[s]]
    BY <2>2
  <2>4. g = [s \in D |-> GroupPart(g, lines, s)]
    BY <2>1, <2>3, Zenon
  <2> QED
    BY <2>4, Zenon DEF IsGrouping
<1> DEFINE h == CHOOSE g : IsGrouping(g, lines)
<1>3. IsGrouping(h, lines)
  BY <1>1, <1>2, Zenon
<1>4. GroupSteps(lines) = h[DOMAIN lines]
  BY GroupByRecursion, Zenon
<1> HIDE DEF h
<1>5. \A s \in D : h[s] = GroupPart(h, lines, s)
  BY <1>3 DEF IsGrouping
<1> DEFINE n == Len(lines)
           t == [i \in 0..n |-> h[1..i]]
           F == {i \in Nat : i <= n => t[i] \in Groupings}
<1>6. n \in Nat /\ DOMAIN lines = 1..n /\ \A i \in 1..n : lines[i] \in LogLines
  OBVIOUS
<1>7. t[0] = NoGroups
  <2>1. 1..0 = {} /\ {} \in D /\ t[0] = h[1..0]
    BY <1>6
  <2> QED
    BY <1>5, <2>1, Zenon DEF GroupPart
<1>8. ASSUME NEW i \in 1..n PROVE t[i] = GroupLine(t[i - 1], lines[i])
  <2>1. Max(1..i) = i /\ (1..i) \ {i} = 1..(i - 1) /\ 1..i # {} /\ 1..i \in D
    BY <1>6, MaxOfInterval
  <2>2. t[i] = h[1..i] /\ t[i - 1] = h[1..(i - 1)]
    BY <1>6
  <2> QED
    BY <1>5, <2>1, <2>2, Zenon DEF GroupPart
<1>9. t[n] = h[DOMAIN lines] /\ t = [i \in 0..n |-> t[i]]
  BY <1>6
<1> HIDE DEF t, n
<1>10. 0 \in F
  BY <1>7, NoGroupsIn
<1>11. ASSUME NEW i \in Nat, i \in F PROVE i + 1 \in F
  <2> SUFFICES ASSUME i + 1 <= n PROVE t[i + 1] \in Groupings
    OBVIOUS
  <2>1. i + 1 \in 1..n /\ (i + 1) - 1 = i /\ t[i] \in Groupings /\ lines[i + 1] \in LogLines
    BY <1>6, <1>11
  <2>2. t[i + 1] = GroupLine(t[i], lines[i + 1])
    BY <1>8, <2>1, Zenon
  <2> QED
    BY <2>1, <2>2, GroupLineIs
<1> HIDE DEF F
<1>12. \A i \in Nat : i \in F
  BY <1>10, <1>11, NatInduct
<1>13. \A i \in 0..n : t[i] \in Groupings
  BY <1>6, <1>12 DEF F
<1>14. t \in [0..n -> Groupings]
  BY <1>9, <1>13
<1>15. ASSUME NEW i \in 1..n PROVE t[i] = K[<<t[i - 1], lines[i]>>]
  <2>1. t[i - 1] \in Groupings /\ lines[i] \in LogLines
    BY <1>6, <1>13
  <2> QED
    BY <1>0, <1>8, <2>1, Zenon
<1>16. Grouped(t, lines)
  BY <1>7, <1>14, <1>15, Zenon DEF Grouped, Traces, K, n
<1> QED
  BY <1>4, <1>9, <1>16, Zenon DEF n

LEMMA GroupIn ==
    ASSUME NEW lines \in Seq(LogLines)
    PROVE  GroupSteps(lines) \in Groupings
<1>1. PICK t : Grouped(t, lines) /\ GroupSteps(lines) = t[Len(lines)]
  BY GroupTrace
<1> QED
  BY <1>1, TraceIn DEF Grouped

LEMMA GroupNone == GroupSteps(<<>>) = NoGroups
<1> DEFINE none == <<>>
<1>1. none \in Seq(LogLines) /\ Len(none) = 0
  OBVIOUS
<1> HIDE DEF none
<1>2. PICK t : Grouped(t, none) /\ GroupSteps(none) = t[Len(none)]
  BY <1>1, GroupTrace
<1> QED
  BY <1>1, <1>2, Zenon DEF Grouped, Traces, none

LEMMA GroupAppend ==
    ASSUME NEW lines \in Seq(LogLines), NEW line \in LogLines
    PROVE  GroupSteps(Append(lines, line)) = GroupLine(GroupSteps(lines), line)
<1> DEFINE more == Append(lines, line)
<1>1. more \in Seq(LogLines)
  OBVIOUS
<1>2. PICK t : Grouped(t, lines) /\ GroupSteps(lines) = t[Len(lines)]
  BY GroupTrace
<1>3. PICK u : Grouped(u, more) /\ GroupSteps(more) = u[Len(more)]
  BY <1>1, GroupTrace
<1>4. u[Len(more)] = Grouping[<<t[Len(lines)], line>>]
  BY <1>2, <1>3, TraceAppend DEF Grouped
<1>5. t[Len(lines)] \in Groupings
  BY <1>2, TraceIn DEF Grouped
<1>6. Grouping[<<t[Len(lines)], line>>] = GroupLine(t[Len(lines)], line)
  BY <1>5, GroupingIs
<1> QED
  BY <1>2, <1>3, <1>4, <1>6, Zenon

-----------------------------------------------------------------------------
\* The output among some lines, and the lines of all steps.

OutputOf(line) == IF line.event = "text" THEN <<line>> ELSE <<>>

LEMMA OutputIn ==
    ASSUME NEW lines \in Seq(LogLines)
    PROVE  [i \in DOMAIN lines |-> OutputOf(lines[i])] \in Seq(Seq(LogLines))
<1>1. \A i \in 1..Len(lines) : OutputOf(lines[i]) \in Seq(LogLines)
  BY DEF OutputOf
<1>2. DOMAIN lines = 1..Len(lines) /\ Len(lines) \in Nat
  OBVIOUS
<1> QED
  BY <1>1, <1>2

LEMMA TextIn ==
    ASSUME NEW lines \in Seq(LogLines)
    PROVE  Text(lines) \in Seq(LogLines)
  BY OutputIn, FlattenIn DEF Text, OutputOf

LEMMA TextNone == Text(<<>>) = <<>>
<1> DEFINE none == <<>>
           t == [i \in DOMAIN none |-> OutputOf(none[i])]
<1>1. t = <<>>
  OBVIOUS
<1>2. Text(none) = FlattenSeq(t)
  BY Zenon DEF Text, OutputOf
<1> QED
  BY <1>1, <1>2, FlattenNone, Zenon

LEMMA TextAppend ==
    ASSUME NEW lines \in Seq(LogLines), NEW line \in LogLines
    PROVE  Text(Append(lines, line)) =
             IF line.event = "text" THEN Append(Text(lines), line) ELSE Text(lines)
<1> DEFINE more == Append(lines, line)
           t == [i \in DOMAIN lines |-> OutputOf(lines[i])]
           u == [i \in DOMAIN more |-> OutputOf(more[i])]
           o == OutputOf(line)
<1>1. t \in Seq(Seq(LogLines)) /\ Text(lines) = FlattenSeq(t) /\ Text(lines) \in Seq(LogLines)
  BY OutputIn, TextIn DEF Text, OutputOf
<1>2. Text(more) = FlattenSeq(u)
  BY Zenon DEF Text, OutputOf
<1>3. o \in Seq(LogLines)
  BY DEF OutputOf
<1>4. u = Append(t, o)
  <2>1. /\ Len(lines) \in Nat /\ DOMAIN lines = 1..Len(lines)
        /\ DOMAIN more = 1..(Len(lines) + 1) /\ more[Len(lines) + 1] = line
        /\ \A i \in 1..Len(lines) : more[i] = lines[i]
    OBVIOUS
  <2>2. Len(t) = Len(lines) /\ \A i \in 1..Len(lines) : t[i] = OutputOf(lines[i])
    BY <2>1
  <2> HIDE DEF more
  <2>3. /\ DOMAIN u = 1..(Len(lines) + 1) /\ u[Len(lines) + 1] = o
        /\ \A i \in 1..Len(lines) : u[i] = OutputOf(lines[i])
    BY <2>1
  <2> DEFINE T == Seq(LogLines)
  <2>4. t \in Seq(T) /\ u \in Seq(T) /\ o \in T
    BY <1>1, <1>3, OutputIn DEF more
  <2> HIDE DEF t, u, o, T
  <2>5. /\ Append(t, o) \in Seq(T) /\ Len(Append(t, o)) = Len(lines) + 1
        /\ Append(t, o)[Len(lines) + 1] = o
        /\ \A i \in 1..Len(lines) : Append(t, o)[i] = t[i]
    BY <2>2, <2>4, AppendProperties
  <2>6. Len(u) = Len(lines) + 1
    BY <2>1, <2>3, <2>4
  <2>7. \A i \in 1..(Len(lines) + 1) : u[i] = Append(t, o)[i]
    BY <2>1, <2>2, <2>3, <2>5
  <2> QED
    BY <2>4, <2>5, <2>6, <2>7, SeqEqual
<1> HIDE DEF t, u
<1>5. Text(more) = Text(lines) \o o
  BY <1>1, <1>2, <1>3, <1>4, FlattenAppend
<1> HIDE DEF more
<1>6. CASE line.event = "text"
  <2>1. o = <<line>>
    BY <1>6 DEF OutputOf
  <2>2. Text(lines) \o <<line>> = Append(Text(lines), line)
    BY <1>1
  <2> HIDE DEF o
  <2> QED
    BY <1>5, <1>6, <2>1, <2>2 DEF more
<1>7. CASE line.event # "text"
  <2>1. o = <<>>
    BY <1>7 DEF OutputOf
  <2>2. Text(lines) \o <<>> = Text(lines)
    BY <1>1
  <2> HIDE DEF o
  <2> QED
    BY <1>5, <1>7, <2>1, <2>2 DEF more
<1> QED
  BY <1>6, <1>7

\* A line more in the last of some sequences is a line more in all.
LastGrows(ss, tt, n, x) ==
    /\ n # 0 /\ Len(ss) = n /\ Len(tt) = n
    /\ \A k \in 1..(n - 1) : tt[k] = ss[k]
    /\ tt[n] = Append(ss[n], x)

LEMMA JoinedGrows ==
    ASSUME NEW S, NEW ss \in Seq(Seq(S)), NEW tt \in Seq(Seq(S)), NEW n \in Nat, NEW x \in S,
           LastGrows(ss, tt, n, x)
    PROVE  Len(FlattenSeq(tt)) = Len(FlattenSeq(ss)) + 1
<1>0. /\ n # 0 /\ Len(ss) = n /\ Len(tt) = n
      /\ \A k \in 1..(n - 1) : tt[k] = ss[k]
      /\ tt[n] = Append(ss[n], x)
  BY DEF LastGrows
<1> DEFINE front == SubSeq(ss, 1, n - 1)
           last == ss[n]
           more == tt[n]
<1>1. /\ front \in Seq(Seq(S)) /\ last \in Seq(S) /\ more \in Seq(S)
      /\ ss = Append(front, last) /\ tt = Append(front, more)
      /\ Len(more) = Len(last) + 1 /\ Len(last) \in Nat
  BY <1>0
<1> HIDE DEF front, last, more
<1>2. /\ FlattenSeq(ss) = FlattenSeq(front) \o last
      /\ FlattenSeq(tt) = FlattenSeq(front) \o more
  BY <1>1, FlattenAppend
<1>3. FlattenSeq(front) \in Seq(S)
  BY <1>1, FlattenIn
<1> DEFINE joined == FlattenSeq(front)
<1>a. joined \in Seq(S)
  BY <1>3
<1> HIDE DEF joined
<1>4. /\ Len(joined \o last) = Len(joined) + Len(last)
      /\ Len(joined \o more) = Len(joined) + Len(more)
      /\ Len(joined) \in Nat
  <2>1. last \in Seq(S) /\ more \in Seq(S)
    BY <1>1
  <2> QED
    BY <1>a, <2>1
<1>5. Len(joined \o more) = Len(joined \o last) + 1
  BY <1>1, <1>4
<1> QED
  BY <1>2, <1>5, Zenon DEF joined

-----------------------------------------------------------------------------
\* --step and --steps.

\* The renderer that shows step k and the grouping know the same of the lines so
\* far: which step it is, whether it is over, and what the k-th has put out.
SameStep(k, lines) ==
    LET a == Render(NewRenderer, lines, k)
        g == GroupSteps(lines)
        n == Len(g.steps)
    IN /\ a.index = n
       /\ a.inStep <=> g.current
       /\ a.visible <=> n = k
       /\ k <= n => g.steps[k].lines = Text(a.out)
       /\ n < k => Text(a.out) = <<>>

PartsOf(steps) == [k \in DOMAIN steps |-> steps[k].lines]

\* No line is lost or doubled.
AllThere(lines) ==
    LET g == GroupSteps(lines)
    IN Len(g.preamble) + Len(FlattenSeq(PartsOf(g.steps))) = Len(Text(lines))

LEMMA SameStepNone ==
    ASSUME NEW k \in Nat, k # 0
    PROVE  SameStep(k, <<>>)
<1> DEFINE a == Render(NewRenderer, <<>>, k)
           g == GroupSteps(<<>>)
<1>1. a = NewRenderer /\ g = NoGroups
  BY NewRendererIn, RenderNone, GroupNone
<1>2. /\ a.index = 0 /\ a.inStep = FALSE /\ a.visible = FALSE /\ a.out = <<>>
      /\ g.steps = <<>> /\ g.current = FALSE /\ Len(g.steps) = 0
  BY <1>1 DEF NewRenderer, NoGroups
<1>3. Text(a.out) = <<>>
  BY <1>2, TextNone
<1> HIDE DEF a, g
<1>4. /\ a.index = Len(g.steps) /\ (a.inStep <=> g.current)
      /\ (a.visible <=> Len(g.steps) = k) /\ ~(k <= Len(g.steps))
  BY <1>2
<1> QED
  BY <1>3, <1>4 DEF SameStep, a, g

\* What a line does to a renderer that shows step k.
LEMMA RenderLineIs ==
    ASSUME NEW a \in Renderers, NEW line \in LogLines, NEW k \in Nat, k # 0
    PROVE  LET b == RenderLine(a, line, k)
           IN /\ b \in Renderers
              /\ line.event = "step_start" =>
                    /\ b.index = a.index + 1 /\ b.inStep /\ (b.visible <=> k = a.index + 1)
                    /\ Text(b.out) = Text(a.out)
              /\ line.event = "step_end" =>
                    /\ b.index = a.index /\ ~b.inStep /\ b.visible = a.visible
                    /\ Text(b.out) = Text(a.out)
              /\ line.event = "text" =>
                    /\ b.index = a.index /\ b.inStep = a.inStep /\ b.visible = a.visible
                    /\ Text(b.out) = IF a.inStep /\ a.visible THEN Append(Text(a.out), line)
                                     ELSE Text(a.out)
<1> DEFINE b == RenderLine(a, line, k)
           more == Append(a.out, line)
<1>0. b \in Renderers
  BY RenderLineIn
<1>1. /\ a.index \in Nat /\ a.inStep \in BOOLEAN /\ a.visible \in BOOLEAN
      /\ a.out \in Seq(LogLines)
      /\ a = [index |-> a.index, inStep |-> a.inStep, visible |-> a.visible, out |-> a.out]
  BY DEF Renderers
<1>2. Text(more) = IF line.event = "text" THEN Append(Text(a.out), line) ELSE Text(a.out)
  BY <1>1, TextAppend
<1>3. CASE line.event = "step_start"
  <2> DEFINE shows == k \in {0, a.index + 1}
             o == IF shows THEN more ELSE a.out
  <2>1. b = [index |-> a.index + 1, inStep |-> TRUE, visible |-> shows, out |-> o]
    BY <1>3, Zenon DEF RenderLine
  <2>2. Text(o) = Text(a.out)
    BY <1>2, <1>3
  <2>3. shows <=> k = a.index + 1
    OBVIOUS
  <2> HIDE DEF b, shows, o
  <2>4. b.index = a.index + 1 /\ b.inStep /\ b.visible = shows /\ b.out = o
    BY <2>1
  <2> QED
    BY <1>0, <1>3, <2>2, <2>3, <2>4 DEF b
<1>4. CASE line.event = "step_end"
  <2> DEFINE o == IF a.visible THEN more ELSE a.out
  <2>1. b = [a EXCEPT !.inStep = FALSE, !.out = o]
    BY <1>4 DEF RenderLine
  <2>2. Text(o) = Text(a.out)
    BY <1>2, <1>4
  <2> HIDE DEF b, o
  <2>3. b.index = a.index /\ ~b.inStep /\ b.visible = a.visible /\ b.out = o
    BY <1>1, <2>1
  <2> QED
    BY <1>0, <1>4, <2>2, <2>3 DEF b
<1>5. CASE line.event = "text"
  <2> DEFINE o == IF a.inStep /\ a.visible THEN more ELSE a.out
  <2>1. b = [a EXCEPT !.out = o]
    BY <1>5 DEF RenderLine, Showing
  <2>2. Text(o) = IF a.inStep /\ a.visible THEN Append(Text(a.out), line) ELSE Text(a.out)
    BY <1>2, <1>5
  <2> HIDE DEF b, o
  <2>3. b.index = a.index /\ b.inStep = a.inStep /\ b.visible = a.visible /\ b.out = o
    BY <1>1, <2>1
  <2> QED
    BY <1>0, <1>5, <2>2, <2>3 DEF b
<1>6. line.event \in {"text", "step_start", "step_end"}
  BY DEF LogLines
<1> QED
  BY <1>3, <1>4, <1>5, <1>6

LEMMA SameStepAppend ==
    ASSUME NEW k \in Nat, k # 0, NEW lines \in Seq(LogLines), NEW line \in LogLines,
           SameStep(k, lines)
    PROVE  SameStep(k, Append(lines, line))
<1> DEFINE a == Render(NewRenderer, lines, k)
           g == GroupSteps(lines)
           b == Render(NewRenderer, Append(lines, line), k)
           h == GroupSteps(Append(lines, line))
           n == Len(g.steps)
           m == Len(h.steps)
           was == Text(a.out)
           is == Text(b.out)
<1>1. a \in Renderers /\ g \in Groupings
  BY NewRendererIn, RenderIn, GroupIn
<1>2. b = RenderLine(a, line, k) /\ h = GroupLine(g, line)
  BY NewRendererIn, RenderAppend, GroupAppend
<1>3. /\ a.index = n /\ (a.inStep <=> g.current) /\ (a.visible <=> n = k)
      /\ (k <= n => g.steps[k].lines = was)
      /\ (n < k => was = <<>>)
  BY DEF SameStep
<1>4. /\ a.inStep \in BOOLEAN /\ a.visible \in BOOLEAN /\ g.current \in BOOLEAN
      /\ n \in Nat /\ (g.current => n # 0)
      /\ g.steps \in Seq(Sections)
  <2>1. g.steps \in Seq(Sections) /\ g.current \in BOOLEAN /\ (g.current => n # 0)
    BY <1>1 DEF Groupings
  <2> QED
    BY <1>1, <2>1 DEF Renderers
<1> HIDE DEF a, b, g, h, was, is
<1>5. line.event \in {"text", "step_start", "step_end"}
  BY DEF LogLines
<1>6. SUFFICES /\ b.index = m /\ (b.inStep <=> h.current) /\ (b.visible <=> m = k)
               /\ (k <= m => h.steps[k].lines = is)
               /\ (m < k => is = <<>>)
  BY DEF SameStep, a, b, g, h, was, is
<1>7. CASE line.event = "step_start"
  <2> DEFINE new == [lines |-> <<>>, ended |-> FALSE]
  <2>1. b.index = a.index + 1 /\ b.inStep /\ (b.visible <=> k = a.index + 1) /\ is = was
    BY <1>1, <1>2, <1>7, RenderLineIs DEF was, is
  <2>2. h.steps = Append(g.steps, new) /\ h.current
    BY <1>1, <1>2, <1>7, GroupLineIs
  <2>3. new \in Sections /\ new.lines = <<>>
    BY DEF Sections
  <2> HIDE DEF new
  <2>4. m = n + 1 /\ h.steps[n + 1] = new /\ \A i \in 1..n : h.steps[i] = g.steps[i]
    BY <1>4, <2>2, <2>3
  <2>5. k <= m => h.steps[k].lines = is
    <3>1. CASE k <= n
      <4>1. k \in 1..n
        BY <1>4, <3>1
      <4> QED
        BY <1>3, <2>1, <2>4, <3>1, <4>1
    <3>2. CASE k = n + 1
      <4>1. n < k
        BY <1>4, <3>2
      <4> QED
        BY <1>3, <2>1, <2>3, <2>4, <3>2, <4>1
    <3> QED
      BY <1>4, <2>4, <3>1, <3>2
  <2>6. m < k => n < k
    BY <1>4, <2>4
  <2> QED
    BY <1>3, <1>4, <2>1, <2>2, <2>4, <2>5, <2>6
<1>8. CASE line.event = "step_end"
  <2>1. b.index = a.index /\ ~b.inStep /\ b.visible = a.visible /\ is = was
    BY <1>1, <1>2, <1>8, RenderLineIs DEF was, is
  <2>2. m = n /\ ~h.current /\ \A i \in 1..n : h.steps[i].lines = g.steps[i].lines
    BY <1>1, <1>2, <1>8, GroupLineIs
  <2>3. k <= n => k \in 1..n
    BY <1>4
  <2> QED
    BY <1>3, <1>4, <2>1, <2>2, <2>3
<1>9. CASE line.event = "text" /\ g.current
  <2>1. /\ b.index = a.index /\ b.inStep = a.inStep /\ b.visible = a.visible
        /\ is = IF a.inStep /\ a.visible THEN Append(was, line) ELSE was
    BY <1>1, <1>2, <1>9, RenderLineIs DEF was, is
  <2>2. /\ m = n /\ h.current /\ \A i \in 1..(n - 1) : h.steps[i].lines = g.steps[i].lines
        /\ h.steps[n].lines = Append(g.steps[n].lines, line)
    BY <1>1, <1>2, <1>9, GroupLineIs
  <2>3. CASE n = k
    <3>1. is = Append(was, line) /\ h.steps[k].lines = Append(g.steps[k].lines, line)
      BY <1>3, <1>9, <2>1, <2>2, <2>3
    <3>2. k <= n /\ ~(m < k)
      BY <2>2, <2>3
    <3>3. h.steps[k].lines = is
      BY <1>3, <3>1, <3>2, Zenon
    <3> QED
      BY <1>3, <1>9, <2>1, <2>2, <2>3, <3>2, <3>3
  <2>4. CASE n # k
    <3>1. is = was
      BY <1>3, <2>1, <2>4
    <3>2. k <= n => k \in 1..(n - 1)
      BY <1>4, <2>4
    <3>3. k <= m => h.steps[k].lines = is
      BY <1>3, <2>2, <3>1, <3>2, Zenon
    <3> QED
      BY <1>3, <1>9, <2>1, <2>2, <2>4, <3>1, <3>3
  <2> QED
    BY <2>3, <2>4
<1>10. CASE line.event = "text" /\ ~g.current
  <2>1. /\ b.index = a.index /\ b.inStep = a.inStep /\ b.visible = a.visible
        /\ is = was
    BY <1>1, <1>2, <1>3, <1>10, RenderLineIs DEF was, is
  <2>2. h.steps = g.steps /\ ~h.current
    BY <1>1, <1>2, <1>10, GroupLineIs
  <2> QED
    BY <1>3, <1>10, <2>1, <2>2
<1> QED
  BY <1>4, <1>5, <1>7, <1>8, <1>9, <1>10

LEMMA PartsIn ==
    ASSUME NEW steps \in Seq(Sections)
    PROVE  PartsOf(steps) \in Seq(Seq(LogLines)) /\ Len(PartsOf(steps)) = Len(steps)
<1>1. \A i \in 1..Len(steps) : steps[i] \in Sections
  OBVIOUS
<1>2. \A i \in 1..Len(steps) : steps[i].lines \in Seq(LogLines)
  BY <1>1 DEF Sections
<1>3. DOMAIN steps = 1..Len(steps) /\ Len(steps) \in Nat
  OBVIOUS
<1> QED
  BY <1>2, <1>3 DEF PartsOf

LEMMA AllThereNone == AllThere(<<>>)
<1> DEFINE none == <<>>
           g == GroupSteps(none)
<1>1. g.steps = <<>> /\ g.preamble = <<>>
  BY GroupNone DEF NoGroups
<1>2. PartsOf(<<>>) = <<>>
  BY DEF PartsOf
<1>3. Text(none) = <<>>
  BY TextNone
<1>4. Len(<<>>) = 0 /\ 0 + 0 = 0
  OBVIOUS
<1> QED
  BY <1>1, <1>2, <1>3, <1>4, FlattenNone, Zenon DEF AllThere

LEMMA AllThereAppend ==
    ASSUME NEW lines \in Seq(LogLines), NEW line \in LogLines, AllThere(lines)
    PROVE  AllThere(Append(lines, line))
<1> DEFINE g == GroupSteps(lines)
           h == GroupSteps(Append(lines, line))
           n == Len(g.steps)
           ss == PartsOf(g.steps)
           tt == PartsOf(h.steps)
           was == Text(lines)
           is == Text(Append(lines, line))
           S == LogLines
<1>1. g \in Groupings
  BY GroupIn
<1>2. h = GroupLine(g, line) /\ h \in Groupings
  BY <1>1, GroupAppend, GroupLineIs
<1>3. Len(g.preamble) + Len(FlattenSeq(ss)) = Len(was)
  BY Zenon DEF AllThere
<1>4. is = IF line.event = "text" THEN Append(was, line) ELSE was
  BY TextAppend
<1>5. was \in Seq(LogLines)
  BY TextIn
<1> HIDE DEF g, h, was, is
<1>6. /\ g.steps \in Seq(Sections) /\ h.steps \in Seq(Sections)
      /\ g.preamble \in Seq(LogLines) /\ g.current \in BOOLEAN /\ (g.current => n # 0)
  BY <1>1, <1>2 DEF Groupings
<1>7. /\ ss \in Seq(Seq(LogLines)) /\ Len(ss) = n
      /\ tt \in Seq(Seq(LogLines)) /\ Len(tt) = Len(h.steps)
      /\ n \in Nat
  BY <1>6, PartsIn
<1>8. FlattenSeq(ss) \in Seq(LogLines) /\ FlattenSeq(tt) \in Seq(LogLines)
  BY <1>7, FlattenIn
<1>9. /\ \A i \in 1..n : ss[i] = g.steps[i].lines
      /\ \A i \in 1..Len(h.steps) : tt[i] = h.steps[i].lines
  BY <1>6 DEF PartsOf
<1> HIDE DEF ss, tt, n
<1>10. SUFFICES Len(h.preamble) + Len(FlattenSeq(tt)) = Len(is)
  BY Zenon DEF AllThere, h, tt, is
<1>11. Len(was) \in Nat /\ Len(Append(was, line)) = Len(was) + 1
  BY <1>5
<1>12. Len(FlattenSeq(ss)) \in Nat /\ Len(g.preamble) \in Nat
  BY <1>6, <1>8
<1>13. line.event \in {"text", "step_start", "step_end"}
  BY DEF LogLines
<1>14. CASE line.event = "step_start"
  <2> DEFINE new == [lines |-> <<>>, ended |-> FALSE]
             none == <<>>
  <2>1. h.steps = Append(g.steps, new) /\ h.preamble = g.preamble
    BY <1>1, <1>2, <1>14, GroupLineIs
  <2>2. new \in Sections /\ new.lines = none /\ none \in Seq(LogLines)
    BY DEF Sections
  <2> HIDE DEF new, none
  <2>3. /\ Len(h.steps) = n + 1 /\ h.steps[n + 1] = new
        /\ \A i \in 1..n : h.steps[i] = g.steps[i]
    BY <1>6, <2>1, <2>2 DEF n
  <2>4. tt = Append(ss, none)
    <3>a. n \in Nat /\ n + 1 \in 1..Len(h.steps) /\ \A i \in 1..n : i \in 1..Len(h.steps)
      BY <1>7, <2>3
    <3>b. tt[n + 1] = none
      BY <1>9, <2>2, <2>3, <3>a, Zenon
    <3>c. \A i \in 1..n : tt[i] = ss[i]
      BY <1>9, <2>3, <3>a, Zenon
    <3>1. Len(tt) = n + 1 /\ tt[n + 1] = none /\ \A i \in 1..n : tt[i] = ss[i]
      BY <1>7, <2>3, <3>b, <3>c, Zenon
    <3> DEFINE T == Seq(LogLines)
    <3>2. ss \in Seq(T) /\ tt \in Seq(T) /\ none \in T
      BY <1>7, <2>2
    <3>d. Len(ss) = n
      BY <1>7
    <3> HIDE DEF T
    <3>3. /\ Append(ss, none) \in Seq(T) /\ Len(Append(ss, none)) = n + 1
          /\ Append(ss, none)[n + 1] = none
          /\ \A i \in 1..n : Append(ss, none)[i] = ss[i]
      BY <3>2, <3>a, <3>d, AppendProperties
    <3>4. \A i \in 1..(n + 1) : tt[i] = Append(ss, none)[i]
      BY <3>1, <3>3, <3>a
    <3> QED
      BY <3>1, <3>2, <3>3, <3>4, SeqEqual
  <2>5. FlattenSeq(tt) = FlattenSeq(ss) \o none
    BY <1>7, <2>2, <2>4, FlattenAppend
  <2>6. FlattenSeq(ss) \o none = FlattenSeq(ss)
    BY <1>8, ConcatNothing DEF none
  <2>7. is = was
    BY <1>4, <1>14
  <2> QED
    BY <1>3, <2>1, <2>5, <2>6, <2>7, Zenon
<1>15. CASE line.event = "step_end"
  <2>1. /\ Len(h.steps) = n /\ \A i \in 1..n : h.steps[i].lines = g.steps[i].lines
        /\ h.preamble = g.preamble
    BY <1>1, <1>2, <1>15, GroupLineIs DEF n
  <2>2. \A i \in 1..n : tt[i] = ss[i]
    BY <1>9, <2>1
  <2>3. tt = ss
    <3> DEFINE T == Seq(LogLines)
    <3>1. ss \in Seq(T) /\ tt \in Seq(T)
      BY <1>7
    <3> HIDE DEF T
    <3> QED
      BY <1>7, <2>1, <2>2, <3>1, SeqEqual
  <2>4. is = was
    BY <1>4, <1>15
  <2> QED
    BY <1>3, <2>1, <2>3, <2>4, Zenon
<1>16. CASE line.event = "text" /\ g.current
  <2>1. /\ Len(h.steps) = n /\ \A i \in 1..(n - 1) : h.steps[i].lines = g.steps[i].lines
        /\ h.steps[n].lines = Append(g.steps[n].lines, line) /\ h.preamble = g.preamble
    BY <1>1, <1>2, <1>16, GroupLineIs DEF n
  <2>2. n # 0 /\ n \in 1..n /\ \A i \in 1..(n - 1) : i \in 1..n
    BY <1>6, <1>7, <1>16 DEF n
  <2>3. (\A i \in 1..(n - 1) : tt[i] = ss[i]) /\ tt[n] = Append(ss[n], line)
    BY <1>9, <2>1, <2>2
  <2>a. LastGrows(ss, tt, n, line)
    BY <1>7, <2>1, <2>2, <2>3, Zenon DEF LastGrows
  <2>4. Len(FlattenSeq(tt)) = Len(FlattenSeq(ss)) + 1
    BY <1>7, <2>a, JoinedGrows
  <2>5. Len(is) = Len(was) + 1
    BY <1>4, <1>11, <1>16
  <2>6. h.preamble = g.preamble
    BY <2>1
  <2>7. Len(g.preamble) + (Len(FlattenSeq(ss)) + 1) = Len(was) + 1
    <3> DEFINE p == Len(g.preamble)
               j == Len(FlattenSeq(ss))
               w == Len(was)
    <3>1. p \in Nat /\ j \in Nat /\ w \in Nat
      BY <1>11, <1>12
    <3>2. p + j = w
      BY <1>3
    <3> HIDE DEF p, j, w
    <3>3. p + (j + 1) = w + 1
      BY <3>1, <3>2
    <3> QED
      BY <3>3 DEF p, j, w
  <2> QED
    BY <2>4, <2>5, <2>6, <2>7, Zenon
<1>17. CASE line.event = "text" /\ ~g.current
  <2>1. h.steps = g.steps /\ h.preamble = Append(g.preamble, line)
    BY <1>1, <1>2, <1>17, GroupLineIs
  <2>2. tt = ss
    BY <2>1 DEF tt, ss
  <2>3. Len(h.preamble) = Len(g.preamble) + 1
    BY <1>6, <2>1
  <2>4. Len(is) = Len(was) + 1
    BY <1>4, <1>11, <1>17
  <2> QED
    BY <1>3, <1>11, <1>12, <2>2, <2>3, <2>4
<1> QED
  BY <1>6, <1>13, <1>14, <1>15, <1>16, <1>17

\* For any lines whatever.
LEMMA StepsAgreeOn ==
    ASSUME NEW lines \in Seq(LogLines)
    PROVE  AllThere(lines) /\ \A k \in Nat : k # 0 => SameStep(k, lines)
<1> DEFINE upto(i) == SubSeq(lines, 1, i)
           Good(p) == AllThere(p) /\ \A k \in Nat : k # 0 => SameStep(k, p)
           F == {i \in Nat : i <= Len(lines) => Good(upto(i))}
<1>1. 0 \in F
  <2>1. upto(0) = <<>>
    OBVIOUS
  <2>2. Good(<<>>)
    BY SameStepNone, AllThereNone
  <2> HIDE DEF Good, upto
  <2> QED
    BY <2>1, <2>2
<1>2. ASSUME NEW i \in Nat, i \in F PROVE i + 1 \in F
  <2> SUFFICES ASSUME i + 1 <= Len(lines) PROVE Good(upto(i + 1))
    OBVIOUS
  <2> DEFINE line == lines[i + 1]
  <2>1. /\ line \in LogLines /\ upto(i) \in Seq(LogLines)
        /\ upto(i + 1) = Append(upto(i), line)
    OBVIOUS
  <2>2. Good(upto(i))
    BY <1>2
  <2> HIDE DEF upto, line
  <2>3. Good(Append(upto(i), line))
    BY <2>1, <2>2, SameStepAppend, AllThereAppend
  <2> HIDE DEF Good
  <2> QED
    BY <2>1, <2>3
<1> HIDE DEF F
<1>3. \A i \in Nat : i \in F
  BY <1>1, <1>2, NatInduct
<1>4. Len(lines) \in Nat /\ Len(lines) <= Len(lines) /\ upto(Len(lines)) = lines
  OBVIOUS
<1> HIDE DEF upto, Good
<1>5. Good(upto(Len(lines)))
  BY <1>3, <1>4 DEF F
<1> QED
  BY <1>4, <1>5 DEF Good

-----------------------------------------------------------------------------
\* What a log reads as.

FrameOK(f) ==
    /\ f.stream \in StreamIds /\ f.stream \in Nat
    /\ f.ends \in Nat /\ f.rest \in BOOLEAN
    /\ f.event \in {"text", "step_start", "step_end"}
    /\ f.ends # 0 \/ f.rest

LEMMA FrameIs == \A f \in Frames : FrameOK(f)
<1>1. Outputs \subseteq Nat /\ Marker \in Nat /\ MaxEnds \in Nat
  BY ReaderAssumption
<1>2. ASSUME NEW f \in TextFrames PROVE FrameOK(f)
  <2>1. /\ f.stream \in Outputs /\ f.ends \in 0..MaxEnds /\ f.rest \in BOOLEAN
        /\ f.event = "text" /\ (f.ends > 0 \/ f.rest)
    BY <1>2 DEF TextFrames
  <2>2. f.ends \in Nat /\ (f.ends # 0 \/ f.rest)
    BY <1>1, <2>1
  <2> QED
    BY <1>1, <2>1, <2>2 DEF FrameOK, StreamIds
<1>3. ASSUME NEW f \in MarkerFrames PROVE FrameOK(f)
  <2>1. f.stream = Marker /\ f.ends = 1 /\ f.rest = FALSE /\ f.event \in {"step_start", "step_end"}
    BY <1>3 DEF MarkerFrames
  <2>2. f.rest \in BOOLEAN
    BY <2>1, Zenon
  <2>3. f.stream \in StreamIds /\ f.stream \in Nat /\ f.ends \in Nat /\ f.ends # 0
    BY <1>1, <2>1 DEF StreamIds
  <2> QED
    BY <2>1, <2>2, <2>3, Zenon DEF FrameOK
<1> QED
  BY <1>2, <1>3 DEF Frames

LEMMA LogIs ==
    ASSUME NEW lg \in Seq(Frames)
    PROVE  /\ Len(lg) \in Nat /\ DOMAIN lg = 1..Len(lg) /\ IsFiniteSet(DOMAIN lg)
           /\ \A i \in 1..Len(lg) : lg[i] \in Frames /\ FrameOK(lg[i])
<1>1. Len(lg) \in Nat /\ DOMAIN lg = 1..Len(lg) /\ \A i \in 1..Len(lg) : lg[i] \in Frames
  OBVIOUS
<1>2. IsFiniteSet(1..Len(lg))
  BY <1>1, FS_Interval
<1> QED
  BY <1>1, <1>2, FrameIs

LEMMA CountsIn ==
    ASSUME NEW lg \in Seq(Frames), NEW i \in DOMAIN lg
    PROVE  Ended(lg, i) \in Nat /\ Cardinality(Opened(lg, i)) \in Nat
<1> DEFINE ends == [j \in DOMAIN lg |-> lg[j].ends]
           E == Earlier(lg, i)
<1>1. /\ Len(lg) \in Nat /\ DOMAIN lg = 1..Len(lg) /\ IsFiniteSet(DOMAIN lg)
      /\ \A j \in 1..Len(lg) : lg[j].ends \in Nat
  BY LogIs DEF FrameOK
<1>2. E \subseteq DOMAIN lg
  BY <1>1 DEF Earlier
<1>3. IsFiniteSet(E)
  BY <1>1, <1>2, FS_Subset
<1>4. \A j \in E : ends[j] \in Nat
  BY <1>1, <1>2
<1> HIDE DEF ends, E
<1>5. SumFunctionOnSet(ends, E) \in Nat
  BY <1>3, <1>4, SumNat
<1>6. Opened(lg, i) \subseteq E
  BY DEF Opened, E
<1>7. Cardinality(Opened(lg, i)) \in Nat
  BY <1>3, <1>6, FS_Subset, FS_CardinalityType
<1> QED
  BY <1>5, <1>7 DEF Ended, ends, E

LEMMA LineIn ==
    ASSUME NEW s \in StreamIds, NEW n \in Nat, NEW p \in Nat, NEW w \in BOOLEAN,
           NEW e \in {"text", "step_start", "step_end"}
    PROVE  Line(s, n, p, w, e) \in LogLines /\ Line(s, n, p, w, e).whole = w
  BY DEF Line, LogLines

WholeOnes == {l \in LogLines : l.whole}

LEMMA WholeIn ==
    ASSUME NEW lg \in Seq(Frames), NEW i \in DOMAIN lg
    PROVE  Whole(lg, i) \in Seq(WholeOnes) /\ Len(Whole(lg, i)) = lg[i].ends
<1> DEFINE f == lg[i]
           n == Ended(lg, i)
           p == Cardinality(Opened(lg, i))
           L(k) == Line(f.stream, n + k, IF k = 1 THEN p + 1 ELSE 1, TRUE, f.event)
<1>1. FrameOK(f) /\ n \in Nat /\ p \in Nat
  BY LogIs, CountsIn
<1>2. Whole(lg, i) = [k \in 1..f.ends |-> L(k)]
  BY Zenon DEF Whole
<1> HIDE DEF f, n, p
<1>3. ASSUME NEW k \in 1..f.ends PROVE L(k) \in WholeOnes
  <2> DEFINE a == n + k
             b == IF k = 1 THEN p + 1 ELSE 1
  <2>1. a \in Nat /\ b \in Nat
    BY <1>1
  <2> HIDE DEF a, b
  <2>2. /\ Line(f.stream, a, b, TRUE, f.event) \in LogLines
        /\ Line(f.stream, a, b, TRUE, f.event).whole = TRUE
    BY <1>1, <2>1, LineIn DEF FrameOK
  <2> QED
    BY <2>2 DEF WholeOnes, a, b
<1> HIDE DEF L
<1>4. f.ends \in Nat
  BY <1>1 DEF FrameOK
<1> QED
  BY <1>2, <1>3, <1>4 DEF f

\* What a frame ends does not depend on the frames behind it.
LEMMA WholeSame ==
    ASSUME NEW a \in Seq(Frames), NEW b \in Seq(Frames), NEW i \in DOMAIN a, i \in DOMAIN b,
           \A j \in 1..i : a[j] = b[j]
    PROVE  Whole(a, i) = Whole(b, i)
<1>1. /\ Len(a) \in Nat /\ DOMAIN a = 1..Len(a) /\ \A j \in 1..Len(a) : a[j].ends \in Nat
      /\ Len(b) \in Nat /\ DOMAIN b = 1..Len(b)
      /\ IsFiniteSet(DOMAIN a)
  BY LogIs DEF FrameOK
<1>2. i \in 1..i /\ a[i] = b[i] /\ \A j \in 1..(i - 1) : j \in 1..i
  BY <1>1
<1>3. Earlier(a, i) = Earlier(b, i) /\ Earlier(a, i) \subseteq 1..(i - 1)
  BY <1>2 DEF Earlier
<1> DEFINE E == Earlier(a, i)
           f == [j \in DOMAIN a |-> a[j].ends]
           h == [j \in DOMAIN b |-> b[j].ends]
<1>4. Opened(a, i) = Opened(b, i)
  <2>1. \A j \in E : a[j] = b[j]
    BY <1>2, <1>3
  <2> QED
    BY <1>3, <2>1 DEF Opened
<1>5. IsFiniteSet(E)
  <2>1. E \subseteq DOMAIN a
    BY DEF Earlier
  <2> QED
    BY <1>1, <2>1, FS_Subset
<1>6. \A j \in E : f[j] \in Int /\ h[j] = f[j]
  <2> SUFFICES ASSUME NEW j \in E PROVE f[j] \in Int /\ h[j] = f[j]
    OBVIOUS
  <2>1. j \in 1..i /\ j \in DOMAIN a /\ j \in DOMAIN b
    BY <1>1, <1>3
  <2> QED
    BY <1>1, <2>1
<1> HIDE DEF E, f, h
<1>7. SumFunctionOnSet(h, E) = SumFunctionOnSet(f, E)
  BY <1>5, <1>6, SumSame
<1>8. Ended(a, i) = Ended(b, i)
  BY <1>3, <1>7, Zenon DEF Ended, E, f, h
<1> QED
  BY <1>2, <1>4, <1>8 DEF Whole

WholeParts(lg) == [i \in DOMAIN lg |-> Whole(lg, i)]

LEMMA WholePartsIn ==
    ASSUME NEW lg \in Seq(Frames)
    PROVE  WholeParts(lg) \in Seq(Seq(WholeOnes)) /\ Len(WholeParts(lg)) = Len(lg)
<1>1. Len(lg) \in Nat /\ DOMAIN lg = 1..Len(lg)
  BY LogIs
<1>2. \A i \in DOMAIN lg : Whole(lg, i) \in Seq(WholeOnes)
  BY WholeIn
<1> QED
  BY <1>1, <1>2 DEF WholeParts

LEMMA WholeLinesIn ==
    ASSUME NEW lg \in Seq(Frames)
    PROVE  WholeLines(lg) \in Seq(WholeOnes) /\ WholeLines(lg) \in Seq(LogLines)
<1>1. WholeLines(lg) \in Seq(WholeOnes)
  BY WholePartsIn, FlattenIn DEF WholeLines, WholeParts
<1>2. WholeOnes \subseteq LogLines
  BY DEF WholeOnes
<1> QED
  BY <1>1, <1>2

\* One frame more: the lines it ends are behind the others.
LEMMA WholeLinesAppend ==
    ASSUME NEW lg \in Seq(Frames), NEW f \in Frames
    PROVE  WholeLines(Append(lg, f)) =
             WholeLines(lg) \o Whole(Append(lg, f), Len(lg) + 1)
<1> DEFINE n == Len(lg)
           more == Append(lg, f)
           t == WholeParts(lg)
           u == WholeParts(more)
           w == Whole(more, n + 1)
           T == Seq(WholeOnes)
<1>1. /\ n \in Nat /\ DOMAIN lg = 1..n
      /\ more \in Seq(Frames) /\ Len(more) = n + 1 /\ DOMAIN more = 1..(n + 1)
      /\ \A i \in 1..n : more[i] = lg[i]
  OBVIOUS
<1> HIDE DEF more
<1>2. t \in Seq(T) /\ u \in Seq(T) /\ Len(t) = n /\ Len(u) = n + 1
  BY <1>1, WholePartsIn
<1>3. n + 1 \in DOMAIN more
  BY <1>1
<1>4. w \in T
  BY <1>1, <1>3, WholeIn
<1>5. \A i \in 1..n : u[i] = t[i]
  <2> SUFFICES ASSUME NEW i \in 1..n PROVE u[i] = t[i]
    OBVIOUS
  <2>1. i \in DOMAIN lg /\ i \in DOMAIN more /\ \A j \in 1..i : lg[j] = more[j]
    BY <1>1
  <2>2. Whole(lg, i) = Whole(more, i)
    BY <1>1, <2>1, WholeSame
  <2> QED
    BY <2>1, <2>2 DEF WholeParts
<1>6. u[n + 1] = w
  BY <1>3 DEF WholeParts
<1> HIDE DEF t, u, w, T, n
<1>7. u = Append(t, w)
  <2>1. /\ Append(t, w) \in Seq(T) /\ Len(Append(t, w)) = n + 1
        /\ Append(t, w)[n + 1] = w
        /\ \A i \in 1..n : Append(t, w)[i] = t[i]
    BY <1>1, <1>2, <1>4, AppendProperties
  <2>2. \A i \in 1..(n + 1) : u[i] = Append(t, w)[i]
    BY <1>1, <1>5, <1>6, <2>1
  <2> QED
    BY <1>2, <2>1, <2>2, SeqEqual
<1>8. FlattenSeq(Append(t, w)) = FlattenSeq(t) \o w
  BY <1>2, <1>4, FlattenAppend DEF T
<1>9. WholeLines(lg) = FlattenSeq(t) /\ WholeLines(more) = FlattenSeq(u)
  BY Zenon DEF WholeLines, WholeParts, t, u
<1> QED
  BY <1>7, <1>8, <1>9, Zenon DEF more, w, n

\* Two streams with an open line are two streams.
LEMMA OpenIs ==
    ASSUME NEW lg \in Seq(Frames)
    PROVE  /\ Open(lg) \subseteq DOMAIN lg /\ IsFiniteSet(Open(lg))
           /\ Cardinality(Open(lg)) \in Nat
           /\ \A i, j \in Open(lg) : i # j => lg[i].stream # lg[j].stream
           /\ \A i \in Open(lg) : lg[i].stream \in Nat
<1>1. /\ Len(lg) \in Nat /\ DOMAIN lg = 1..Len(lg) /\ IsFiniteSet(DOMAIN lg)
      /\ \A i \in 1..Len(lg) : lg[i].stream \in Nat
  BY LogIs DEF FrameOK
<1>2. Open(lg) \subseteq DOMAIN lg
  BY DEF Open
<1>3. IsFiniteSet(Open(lg)) /\ Cardinality(Open(lg)) \in Nat
  BY <1>1, <1>2, FS_Subset, FS_CardinalityType
<1>4. ASSUME NEW i \in Open(lg), NEW j \in Open(lg), i < j
      PROVE  lg[i].stream # lg[j].stream
  <2>1. i \in 1..(j - 1) /\ j \in DOMAIN lg
    BY <1>1, <1>2, <1>4
  <2>2. i \notin Earlier(lg, j)
    BY <2>1 DEF Open
  <2> QED
    BY <2>1, <2>2 DEF Earlier
<1>5. ASSUME NEW i \in Open(lg), NEW j \in Open(lg), i # j
      PROVE  lg[i].stream # lg[j].stream
  <2>1. i < j \/ j < i
    BY <1>1, <1>2, <1>5
  <2> QED
    BY <1>4, <2>1
<1> QED
  BY <1>1, <1>2, <1>3, <1>5

LEMMA PartIn ==
    ASSUME NEW lg \in Seq(Frames), NEW i \in DOMAIN lg
    PROVE  Part(lg, i) \in LogLines /\ Part(lg, i).whole = FALSE
<1> DEFINE f == lg[i]
           n == Ended(lg, i) + f.ends + 1
           p == IF f.ends = 0 THEN Cardinality(Opened(lg, i)) + 1 ELSE 1
<1>1. FrameOK(f) /\ Ended(lg, i) \in Nat /\ Cardinality(Opened(lg, i)) \in Nat
  BY LogIs, CountsIn
<1>2. n \in Nat /\ p \in Nat
  BY <1>1 DEF FrameOK
<1>3. Part(lg, i) = Line(f.stream, n, p, FALSE, "text")
  BY Zenon DEF Part
<1> HIDE DEF f, n, p
<1>4. f.stream \in StreamIds
  BY <1>1 DEF FrameOK
<1>5. /\ Line(f.stream, n, p, FALSE, "text") \in LogLines
      /\ Line(f.stream, n, p, FALSE, "text").whole = FALSE
  BY <1>2, <1>4, LineIn
<1> QED
  BY <1>3, <1>5, Zenon

UnfinishedOnes == {l \in LogLines : ~l.whole}

LEMMA UnfinishedIn ==
    ASSUME NEW lg \in Seq(Frames)
    PROVE  Unfinished(lg) \in Seq(UnfinishedOnes) /\ Len(Unfinished(lg)) = Cardinality(Open(lg))
<1> DEFINE S == Open(lg)
           n == Cardinality(S)
           Before(i) == {j \in S : lg[j].stream < lg[i].stream}
           at(k) == CHOOSE i \in S : Cardinality(Before(i)) = k - 1
<1>1. ASSUME NEW k \in 1..n PROVE at(k) \in S
  <2> DEFINE f == [i \in S |-> lg[i].stream]
  <2>1. IsFiniteSet(S) /\ (\A i \in S : f[i] \in Nat) /\ \A i, j \in S : i # j => f[i] # f[j]
    BY OpenIs
  <2>2. \A i \in S : Before(i) = {j \in S : f[j] < f[i]}
    OBVIOUS
  <2> HIDE DEF f, S, Before
  <2>3. \E i \in S : Cardinality({j \in S : f[j] < f[i]}) = k - 1
    BY <2>1, RankExists
  <2> QED
    BY <2>2, <2>3
<1>2. Unfinished(lg) = [k \in 1..n |-> Part(lg, at(k))]
  BY Zenon DEF Unfinished
<1>3. S \subseteq DOMAIN lg /\ n \in Nat
  BY OpenIs
<1> HIDE DEF at, S, n
<1>4. \A k \in 1..n : Part(lg, at(k)) \in UnfinishedOnes
  BY <1>1, <1>3, PartIn DEF UnfinishedOnes
<1> QED
  BY <1>2, <1>3, <1>4 DEF n, S

LEMMA FetchIn ==
    ASSUME NEW lg \in Seq(Frames)
    PROVE  /\ Fetch(lg) \in Seq(LogLines)
           /\ Len(Fetch(lg)) = Len(WholeLines(lg)) + Cardinality(Open(lg))
           /\ Len(WholeLines(lg)) \in Nat
           /\ \A i \in 1..Len(WholeLines(lg)) : Fetch(lg)[i] = WholeLines(lg)[i]
           /\ \A i \in 1..Len(Fetch(lg)) : Fetch(lg)[i].whole => i <= Len(WholeLines(lg))
<1> DEFINE w == WholeLines(lg)
           u == Unfinished(lg)
<1>1. /\ w \in Seq(LogLines) /\ u \in Seq(LogLines) /\ u \in Seq(UnfinishedOnes)
      /\ Len(u) = Cardinality(Open(lg))
  <2>1. UnfinishedOnes \subseteq LogLines
    BY DEF UnfinishedOnes
  <2> QED
    BY <2>1, WholeLinesIn, UnfinishedIn
<1>2. Len(w) \in Nat /\ Len(u) \in Nat /\ \A i \in 1..Len(u) : ~u[i].whole
  BY <1>1 DEF UnfinishedOnes
<1> HIDE DEF w, u
<1>3. /\ w \o u \in Seq(LogLines) /\ Len(w \o u) = Len(w) + Len(u)
      /\ \A i \in 1..(Len(w) + Len(u)) :
            (w \o u)[i] = IF i <= Len(w) THEN w[i] ELSE u[i - Len(w)]
  BY <1>1, ConcatProperties
<1>4. \A i \in 1..Len(w) : (w \o u)[i] = w[i]
  BY <1>2, <1>3
<1>5. \A i \in 1..Len(w \o u) : (w \o u)[i].whole => i <= Len(w)
  <2> SUFFICES ASSUME NEW i \in 1..(Len(w) + Len(u)), ~(i <= Len(w))
               PROVE  ~(w \o u)[i].whole
    BY <1>3
  <2>1. i - Len(w) \in 1..Len(u) /\ (w \o u)[i] = u[i - Len(w)]
    BY <1>2, <1>3
  <2> QED
    BY <1>2, <2>1
<1>6. Fetch(lg) = w \o u
  BY Zenon DEF Fetch, w, u
<1> QED
  BY <1>1, <1>2, <1>3, <1>4, <1>5, <1>6, Zenon DEF w

-----------------------------------------------------------------------------
\* More frames.

\* b begins with a.
Begins(a, b) == Len(a) \in Nat /\ Len(a) <= Len(b) /\ \A i \in 1..Len(a) : b[i] = a[i]

LEMMA WholeLinesGrow ==
    ASSUME NEW lg \in Seq(Frames), NEW f \in Frames
    PROVE  Begins(WholeLines(lg), WholeLines(Append(lg, f)))
<1> DEFINE more == Append(lg, f)
           n == Len(lg) + 1
           a == WholeLines(lg)
           b == Whole(more, n)
<1>1. more \in Seq(Frames) /\ n \in DOMAIN more
  OBVIOUS
<1>2. b \in Seq(WholeOnes)
  BY <1>1, WholeIn
<1>3. a \in Seq(WholeOnes)
  BY WholeLinesIn
<1>4. WholeLines(more) = a \o b
  BY WholeLinesAppend, Zenon
<1> HIDE DEF a, b, more, n
<1>5. Begins(a, a \o b)
  BY <1>2, <1>3 DEF Begins
<1> QED
  BY <1>4, <1>5, Zenon DEF a, more

LEMMA WholeLinesBegin ==
    ASSUME NEW lg \in Seq(Frames), NEW n \in 0..Len(lg)
    PROVE  Begins(WholeLines(SubSeq(lg, 1, n)), WholeLines(lg))
<1> DEFINE upto(k) == SubSeq(lg, 1, k)
           W(k) == WholeLines(upto(k))
           F == {k \in Nat : n + k <= Len(lg) => Begins(W(n), W(n + k))}
<1>1. n \in Nat /\ Len(lg) \in Nat /\ n <= Len(lg)
  OBVIOUS
<1>2. \A k \in 0..Len(lg) : upto(k) \in Seq(Frames) /\ W(k) \in Seq(WholeOnes)
  <2> SUFFICES ASSUME NEW k \in 0..Len(lg)
               PROVE  upto(k) \in Seq(Frames) /\ W(k) \in Seq(WholeOnes)
    OBVIOUS
  <2>1. upto(k) \in Seq(Frames)
    OBVIOUS
  <2> HIDE DEF upto
  <2> QED
    BY <2>1, WholeLinesIn
<1>3. 0 \in F
  <2>1. W(n) \in Seq(WholeOnes) /\ n + 0 = n
    BY <1>1, <1>2
  <2> HIDE DEF W
  <2>2. Begins(W(n), W(n))
    BY <2>1 DEF Begins
  <2> QED
    BY <2>1, <2>2
<1>4. ASSUME NEW k \in Nat, k \in F PROVE k + 1 \in F
  <2> SUFFICES ASSUME n + (k + 1) <= Len(lg) PROVE Begins(W(n), W(n + (k + 1)))
    OBVIOUS
  <2> DEFINE m == n + k
             f == lg[m + 1]
  <2>1. m \in 0..Len(lg) /\ m + 1 \in 1..Len(lg) /\ n + (k + 1) = m + 1
    BY <1>1
  <2>2. upto(m) \in Seq(Frames) /\ f \in Frames /\ upto(m + 1) = Append(upto(m), f)
    BY <2>1
  <2>3. Begins(W(n), W(m))
    BY <1>1, <1>4
  <2> HIDE DEF m, f, upto
  <2>4. Begins(W(m), W(m + 1))
    BY <2>2, WholeLinesGrow
  <2>5. W(m) \in Seq(WholeOnes) /\ W(m + 1) \in Seq(WholeOnes)
    BY <1>2, <2>1
  <2> HIDE DEF W
  <2>6. Len(W(m)) \in Nat /\ Len(W(m + 1)) \in Nat
    BY <2>5
  <2>7. Begins(W(n), W(m + 1))
    BY <2>3, <2>4, <2>6 DEF Begins
  <2> QED
    BY <2>1, <2>7
<1> HIDE DEF F
<1>5. \A k \in Nat : k \in F
  BY <1>3, <1>4, NatInduct
<1>6. Len(lg) - n \in Nat /\ n + (Len(lg) - n) = Len(lg)
  BY <1>1
<1> HIDE DEF W
<1>7. Begins(W(n), W(Len(lg)))
  BY <1>1, <1>5, <1>6 DEF F
<1>8. upto(Len(lg)) = lg
  OBVIOUS
<1> QED
  BY <1>7, <1>8, Zenon DEF W

\* What WholeLinesStay says of a log.
Kept(lg) ==
    \A n \in 0..Len(lg) :
        LET then == Fetch(SubSeq(lg, 1, n))
        IN \A i \in DOMAIN then :
            then[i].whole => i \in DOMAIN Fetch(lg) /\ Fetch(lg)[i] = then[i]

LEMMA KeptAlways ==
    ASSUME NEW lg \in Seq(Frames)
    PROVE  Kept(lg)
<1> SUFFICES ASSUME NEW n \in 0..Len(lg), NEW i \in DOMAIN Fetch(SubSeq(lg, 1, n)),
                    Fetch(SubSeq(lg, 1, n))[i].whole
             PROVE  i \in DOMAIN Fetch(lg) /\ Fetch(lg)[i] = Fetch(SubSeq(lg, 1, n))[i]
  BY Zenon DEF Kept
<1> DEFINE early == SubSeq(lg, 1, n)
           a == WholeLines(early)
           b == WholeLines(lg)
           then == Fetch(early)
           now == Fetch(lg)
<1>1. early \in Seq(Frames)
  OBVIOUS
<1> HIDE DEF early
<1>2. /\ then \in Seq(LogLines) /\ Len(a) \in Nat
      /\ \A j \in 1..Len(a) : then[j] = a[j]
      /\ \A j \in 1..Len(then) : then[j].whole => j <= Len(a)
  BY <1>1, FetchIn
<1>3. /\ now \in Seq(LogLines) /\ Len(b) \in Nat
      /\ Len(now) = Len(b) + Cardinality(Open(lg)) /\ Cardinality(Open(lg)) \in Nat
      /\ \A j \in 1..Len(b) : now[j] = b[j]
  BY FetchIn, OpenIs
<1>4. Begins(a, b)
  BY WholeLinesBegin DEF early
<1>5. i \in DOMAIN then /\ then[i].whole
  BY DEF early
<1> HIDE DEF a, b, then, now
<1>6. i \in 1..Len(a)
  BY <1>2, <1>5
<1>7. i \in 1..Len(b) /\ b[i] = a[i]
  BY <1>2, <1>3, <1>4, <1>6 DEF Begins
<1>8. i \in DOMAIN now /\ now[i] = then[i]
  BY <1>2, <1>3, <1>6, <1>7
<1> QED
  BY <1>8, Zenon DEF now, then, early

\* A line that is unfinished stays so until its stream goes on.
LEMMA OpenGrows ==
    ASSUME NEW lg \in Seq(Frames), NEW f \in Frames
    PROVE  /\ \A i \in Open(lg) : lg[i].stream # f.stream => i \in Open(Append(lg, f))
           /\ f.rest => Len(lg) + 1 \in Open(Append(lg, f))
<1> DEFINE n == Len(lg)
           more == Append(lg, f)
<1>1. /\ n \in Nat /\ DOMAIN lg = 1..n
      /\ DOMAIN more = 1..(n + 1)
      /\ more[n + 1] = f
      /\ \A i \in 1..n : more[i] = lg[i]
  OBVIOUS
<1> HIDE DEF more, n
<1>2. ASSUME NEW i \in Open(lg), lg[i].stream # f.stream PROVE i \in Open(more)
  <2>1. i \in 1..n /\ more[i] = lg[i] /\ lg[i].rest /\ \A j \in 1..n : i \notin Earlier(lg, j)
    BY <1>1 DEF Open
  <2>2. ASSUME NEW j \in 1..(n + 1), i \in Earlier(more, j) PROVE FALSE
    <3>1. i \in 1..(j - 1) /\ more[i].stream = more[j].stream
      BY <2>2 DEF Earlier
    <3>2. CASE j = n + 1
      BY <1>1, <1>2, <2>1, <3>1, <3>2
    <3>3. CASE j \in 1..n
      <4>1. more[j] = lg[j]
        BY <1>1, <3>3
      <4>2. i \in Earlier(lg, j)
        BY <2>1, <3>1, <4>1 DEF Earlier
      <4> QED
        BY <2>1, <3>3, <4>2
    <3> QED
      BY <1>1, <3>2, <3>3
  <2>3. i \in DOMAIN more
    BY <1>1, <2>1
  <2> QED
    BY <1>1, <2>1, <2>2, <2>3 DEF Open
<1>3. ASSUME f.rest PROVE n + 1 \in Open(more)
  <2>1. ASSUME NEW j \in 1..(n + 1) PROVE n + 1 \notin Earlier(more, j)
    <3>1. n + 1 \notin 1..(j - 1)
      BY <1>1
    <3> QED
      BY <3>1 DEF Earlier
  <2>2. n + 1 \in DOMAIN more
    BY <1>1
  <2> QED
    BY <1>1, <1>3, <2>1, <2>2 DEF Open
<1> QED
  BY <1>2, <1>3 DEF more, n

\* A frame ends a line or leaves one unfinished: it takes none away.
LEMMA CountGrows ==
    ASSUME NEW lg \in Seq(Frames), NEW f \in Frames
    PROVE  Len(Fetch(lg)) <= Len(Fetch(Append(lg, f)))
<1> DEFINE n == Len(lg)
           more == Append(lg, f)
           S == Open(lg)
           T == Open(more)
           a == WholeLines(lg)
           b == Whole(more, n + 1)
<1>1. more \in Seq(Frames) /\ n + 1 \in DOMAIN more /\ more[n + 1] = f /\ n \in Nat /\ DOMAIN lg = 1..n
  OBVIOUS
<1>2. f.ends \in Nat /\ (f.ends # 0 \/ f.rest)
  BY FrameIs DEF FrameOK
<1>3. /\ IsFiniteSet(S) /\ Cardinality(S) \in Nat /\ S \subseteq 1..n
      /\ \A i, j \in S : i # j => lg[i].stream # lg[j].stream
  BY <1>1, OpenIs
<1>4. IsFiniteSet(T) /\ Cardinality(T) \in Nat
  BY <1>1, OpenIs
<1>5. PICK x : \A i \in S : lg[i].stream = f.stream => i = x
  BY <1>3
<1> DEFINE D == S \ {x}
<1>6. D \subseteq T /\ (f.rest => n + 1 \in T)
  BY <1>5, OpenGrows
<1>7. IsFiniteSet(D) /\ Cardinality(D) \in Nat /\ Cardinality(D) >= Cardinality(S) - 1
  <2>1. IsFiniteSet(D) /\ Cardinality(D) = IF x \in S THEN Cardinality(S) - 1 ELSE Cardinality(S)
    BY <1>3, FS_RemoveElement
  <2> QED
    BY <1>3, <2>1, FS_CardinalityType
<1>8. n + 1 \notin D
  BY <1>1, <1>3
<1>9. a \in Seq(WholeOnes) /\ b \in Seq(WholeOnes) /\ Len(b) = f.ends
  BY <1>1, WholeLinesIn, WholeIn
<1>10. Len(WholeLines(more)) = Len(a) + f.ends /\ Len(a) \in Nat
  <2>1. WholeLines(more) = a \o b
    BY WholeLinesAppend, Zenon
  <2> HIDE DEF a, b
  <2> QED
    BY <1>9, <2>1
<1>11. /\ Len(Fetch(lg)) = Len(a) + Cardinality(S)
       /\ Len(Fetch(more)) = Len(WholeLines(more)) + Cardinality(T)
  BY <1>1, FetchIn
<1> HIDE DEF a, b, S, T, D, more
<1>12. CASE f.ends # 0
  <2>1. Cardinality(D) <= Cardinality(T)
    BY <1>4, <1>6, FS_Subset
  <2> QED
    <3>1. f.ends >= 1 /\ Cardinality(S) - 1 <= Cardinality(T)
      BY <1>2, <1>3, <1>4, <1>7, <1>12, <2>1
    <3>2. Len(Fetch(more)) = Len(a) + f.ends + Cardinality(T)
      BY <1>10, <1>11
    <3>3. Len(Fetch(lg)) <= Len(Fetch(more))
      BY <1>2, <1>3, <1>4, <1>10, <1>11, <3>1, <3>2
    <3> QED
      BY <3>3, Zenon DEF more
<1>13. CASE f.ends = 0
  <2> DEFINE E == D \cup {n + 1}
  <2>1. Cardinality(E) = Cardinality(D) + 1
    BY <1>7, <1>8, FS_AddElement
  <2>2. E \subseteq T
    BY <1>2, <1>6, <1>13
  <2> HIDE DEF E
  <2>3. Cardinality(E) <= Cardinality(T)
    BY <1>4, <2>2, FS_Subset
  <2> QED
    <3>1. Cardinality(S) <= Cardinality(T)
      BY <1>3, <1>4, <1>7, <2>1, <2>3
    <3>2. Len(Fetch(more)) = Len(a) + Cardinality(T)
      BY <1>10, <1>11, <1>13
    <3>3. Len(Fetch(lg)) <= Len(Fetch(more))
      BY <1>3, <1>4, <1>10, <1>11, <3>1, <3>2
    <3> QED
      BY <3>3, Zenon DEF more
<1> QED
  BY <1>12, <1>13

-----------------------------------------------------------------------------
\* The follower.

NoRest(lg) == \A i \in DOMAIN lg : ~lg[i].rest

LEMMA NoneOpen ==
    ASSUME NEW lg \in Seq(Frames), NoRest(lg)
    PROVE  Len(Fetch(lg)) = Len(WholeLines(lg))
<1>1. Open(lg) = {}
  BY DEF Open, NoRest
<1>2. Cardinality(Open(lg)) = 0
  BY <1>1, FS_EmptySet
<1>3. Len(WholeLines(lg)) \in Nat /\ Len(Fetch(lg)) = Len(WholeLines(lg)) + Cardinality(Open(lg))
  BY FetchIn
<1> QED
  BY <1>2, <1>3

\* With no line unfinished a frame leaves what was read as it is.
LEMMA ReadStays ==
    ASSUME NEW lg \in Seq(Frames), NEW f \in Frames, NoRest(Append(lg, f)),
           NEW c \in Nat, c <= Len(Fetch(lg))
    PROVE  NoRest(lg) /\ SubSeq(Fetch(Append(lg, f)), 1, c) = SubSeq(Fetch(lg), 1, c)
<1> DEFINE more == Append(lg, f)
           a == Fetch(lg)
           b == Fetch(more)
<1>1. /\ more \in Seq(Frames) /\ DOMAIN lg \subseteq DOMAIN more
      /\ \A i \in DOMAIN lg : more[i] = lg[i]
  OBVIOUS
<1> HIDE DEF more
<1>2. NoRest(lg)
  BY <1>1 DEF NoRest, more
<1>3. Len(a) = Len(WholeLines(lg)) /\ Len(b) = Len(WholeLines(more))
  BY <1>1, <1>2, NoneOpen DEF more
<1>4. Begins(WholeLines(lg), WholeLines(more))
  BY WholeLinesGrow DEF more
<1>5. /\ a \in Seq(LogLines) /\ \A i \in 1..Len(WholeLines(lg)) : a[i] = WholeLines(lg)[i]
      /\ Len(WholeLines(lg)) \in Nat
  BY FetchIn
<1>6. /\ b \in Seq(LogLines) /\ \A i \in 1..Len(WholeLines(more)) : b[i] = WholeLines(more)[i]
      /\ Len(WholeLines(more)) \in Nat
  BY <1>1, FetchIn
<1> HIDE DEF a, b
<1>7. Len(a) <= Len(b) /\ \A i \in 1..Len(a) : b[i] = a[i]
  BY <1>3, <1>4, <1>5, <1>6 DEF Begins
<1>8. Len(a) \in Nat /\ Len(b) \in Nat /\ c <= Len(a)
  BY <1>5, <1>6 DEF a
<1>9. /\ SubSeq(a, 1, c) \in Seq(LogLines) /\ SubSeq(b, 1, c) \in Seq(LogLines)
      /\ Len(SubSeq(a, 1, c)) = c /\ Len(SubSeq(b, 1, c)) = c
      /\ \A i \in 1..c : SubSeq(a, 1, c)[i] = a[i] /\ SubSeq(b, 1, c)[i] = b[i]
  BY <1>5, <1>6, <1>7, <1>8
<1>10. \A i \in 1..c : b[i] = a[i]
  BY <1>7, <1>8
<1>11. SubSeq(b, 1, c) = SubSeq(a, 1, c)
  BY <1>9, <1>10, SeqEqual
<1> QED
  BY <1>2, <1>11, Zenon DEF a, b, more

\* What was read and what is behind it is all there is.
LEMMA ReadOn ==
    ASSUME NEW lines \in Seq(LogLines), NEW c \in 0..Len(lines)
    PROVE  SubSeq(lines, 1, c) \o SubSeq(lines, c + 1, Len(lines)) = lines
<1>1. /\ Len(lines) \in Nat /\ c \in Nat /\ 1 \in 1..(Len(lines) + 1)
      /\ c \in (1 - 1)..Len(lines) /\ Len(lines) \in c..Len(lines)
  OBVIOUS
<1>2. SubSeq(lines, 1, c) \o SubSeq(lines, c + 1, Len(lines)) = SubSeq(lines, 1, Len(lines))
  BY <1>1, ConcatAdjacentSubSeq
<1>3. SubSeq(lines, 1, Len(lines)) = lines
  OBVIOUS
<1> QED
  BY <1>2, <1>3, Zenon

Printed(lg, c) == Render(NewRenderer, SubSeq(Fetch(lg), 1, c), StepRef)

\* Whatever the renderer has shown it has read since it was rewound, and the
\* cursor is within the log it was read of.
FollowInv ==
    /\ log \in Seq(Frames)
    /\ exists \in BOOLEAN
    /\ restarts \in 0..MaxRestarts
    /\ fpc \in {"poll", "rest", "returned"}
    /\ cursor \in Nat
    /\ waiting \in BOOLEAN
    /\ r \in Renderers
    /\ same \in BOOLEAN
    /\ same => cursor <= Len(Fetch(log))
    /\ cursor = 0 => r = NewRenderer
    /\ same /\ NoRest(log) => r = Printed(log, cursor)

LEMMA FetchNothing == Fetch(<<>>) \in Seq(LogLines) /\ Len(Fetch(<<>>)) \in Nat
<1> DEFINE none == <<>>
<1>1. none \in Seq(Frames)
  OBVIOUS
<1> HIDE DEF none
<1>2. Fetch(none) \in Seq(LogLines)
  BY <1>1, FetchIn
<1> QED
  BY <1>2 DEF none

LEMMA PrintedNone ==
    ASSUME NEW lg \in Seq(Frames)
    PROVE  Printed(lg, 0) = NewRenderer
<1>1. SubSeq(Fetch(lg), 1, 0) = <<>>
  BY SubSeqEmpty
<1>2. Render(NewRenderer, <<>>, StepRef) = NewRenderer
  BY NewRendererIn, RenderNone
<1> QED
  BY <1>1, <1>2, Zenon DEF Printed

LEMMA FollowInvInit == Init => FollowInv
<1> SUFFICES ASSUME Init PROVE FollowInv
  OBVIOUS
<1>1. log \in Seq(Frames) /\ cursor = 0 /\ r = NewRenderer
  BY DEF Init
<1>2. Len(Fetch(log)) \in Nat
  BY <1>1, FetchNothing DEF Init
<1>3. Printed(log, 0) = NewRenderer
  BY <1>1, PrintedNone
<1>4. restarts \in 0..MaxRestarts
  BY FollowAssumption DEF Init
<1>5. /\ exists \in BOOLEAN /\ waiting \in BOOLEAN /\ same \in BOOLEAN
      /\ fpc \in {"poll", "rest", "returned"}
  BY Zenon DEF Init
<1>6. r \in Renderers /\ (cursor = 0 => r = NewRenderer) /\ r = Printed(log, cursor)
  BY <1>1, <1>3, NewRendererIn, Zenon
<1>7. cursor \in Nat /\ cursor <= Len(Fetch(log))
  BY <1>1, <1>2
<1> QED
  BY <1>1, <1>4, <1>5, <1>6, <1>7, Zenon DEF FollowInv

LEMMA FollowInvNext == FollowInv /\ [Next]_followVars => FollowInv'
<1> SUFFICES ASSUME FollowInv, [Next]_followVars PROVE FollowInv'
  OBVIOUS
<1> USE DEF FollowInv
<1>0. /\ Fetch(log) \in Seq(LogLines) /\ Len(Fetch(log)) \in Nat
  BY FetchIn
<1>1. CASE Creates
  BY <1>1, Zenon DEF Creates
<1>2. ASSUME NEW f \in Frames, Appends(f) PROVE FollowInv'
  <2>1. /\ log' = Append(log, f)
        /\ UNCHANGED <<exists, restarts, fpc, cursor, waiting, r, same>>
    BY <1>2 DEF Appends
  <2>2. log' \in Seq(Frames)
    BY <2>1
  <2>3. Len(Fetch(log)) <= Len(Fetch(log')) /\ Len(Fetch(log')) \in Nat
    <3>1. Fetch(log') \in Seq(LogLines)
      BY <2>2, FetchIn
    <3> QED
      BY <2>1, <3>1, CountGrows
  <2>4. same' => cursor' <= Len(Fetch(log'))
    BY <1>0, <2>1, <2>3
  <2>5. ASSUME same', NoRest(log') PROVE r' = Printed(log', cursor')
    <3>1. NoRest(Append(log, f)) /\ cursor \in Nat /\ cursor <= Len(Fetch(log))
      BY <2>1, <2>5
    <3>2. NoRest(log) /\ SubSeq(Fetch(Append(log, f)), 1, cursor) = SubSeq(Fetch(log), 1, cursor)
      BY <3>1, ReadStays
    <3>3. r = Printed(log, cursor)
      BY <2>1, <2>5, <3>2
    <3> QED
      BY <2>1, <3>2, <3>3, Zenon DEF Printed
  <2> QED
    BY <2>1, <2>2, <2>4, <2>5
<1>3. CASE Deletes
  <2>1. /\ log' = <<>> /\ exists' = FALSE /\ restarts' = restarts + 1 /\ restarts < MaxRestarts
        /\ r' = [r EXCEPT !.out = <<>>] /\ same' = (cursor = 0)
        /\ UNCHANGED <<fpc, cursor, waiting>>
    BY <1>3 DEF Deletes
  <2>2. log' \in Seq(Frames) /\ exists' \in BOOLEAN /\ same' \in BOOLEAN
    <3>1. <<>> \in Seq(Frames)
      OBVIOUS
    <3> QED
      BY <2>1, <3>1, Zenon
  <2>3. restarts' \in 0..MaxRestarts
    BY <2>1, FollowAssumption
  <2>4. r' \in Renderers
    <3> DEFINE none == <<>>
    <3>1. none \in Seq(LogLines) /\ r' = [r EXCEPT !.out = none]
      BY <2>1
    <3> HIDE DEF none
    <3> QED
      BY <3>1 DEF Renderers
  <2>5. cursor = 0 => r' = NewRenderer
    <3> SUFFICES ASSUME cursor = 0 PROVE r' = NewRenderer
      OBVIOUS
    <3>1. r = NewRenderer
      OBVIOUS
    <3> QED
      BY <2>1, <3>1 DEF NewRenderer
  <2>6. Len(Fetch(log')) \in Nat /\ Printed(log', 0) = NewRenderer
    BY <2>1, <2>2, FetchNothing, PrintedNone
  <2>7. same' => cursor = 0 /\ cursor' = 0
    BY <2>1
  <2>8. same' => cursor' <= Len(Fetch(log'))
    BY <2>6, <2>7
  <2>9. same' => r' = Printed(log', cursor')
    BY <2>5, <2>6, <2>7, Zenon
  <2> QED
    BY <2>1, <2>2, <2>3, <2>4, <2>5, <2>8, <2>9
<1>4. CASE PollWaits
  BY <1>4 DEF PollWaits, logVars
<1>5. CASE PollRewinds
  <2>1. /\ cursor' = 0 /\ r' = NewRenderer /\ same' = TRUE /\ log' = log
        /\ UNCHANGED <<exists, restarts, fpc, waiting>>
    BY <1>5 DEF PollRewinds, logVars
  <2>2. Printed(log', 0) = NewRenderer
    BY <2>1, PrintedNone
  <2>3. r' = Printed(log', cursor')
    BY <2>1, <2>2, Zenon
  <2>4. same' \in BOOLEAN /\ cursor' \in Nat /\ cursor' <= Len(Fetch(log'))
    BY <1>0, <2>1
  <2> QED
    BY <2>1, <2>3, <2>4, NewRendererIn
<1>6. CASE PollPrints
  <2> DEFINE rest == SubSeq(Fetch(log), cursor + 1, Len(Fetch(log)))
             c == Len(Fetch(log))
  <2>1. /\ r' = Render(r, rest, StepRef) /\ cursor' = cursor + Len(rest) /\ ~(c < cursor)
        /\ fpc' = "rest" /\ log' = log /\ UNCHANGED <<exists, restarts, waiting, same>>
    BY <1>6, Zenon DEF PollPrints, Shrunk, Lines, Count, logVars
  <2>2. c \in Nat /\ cursor \in 0..c /\ rest \in Seq(LogLines) /\ Len(rest) = c - cursor
    BY <1>0, <2>1
  <2>3. cursor' = c /\ c \in Nat /\ (c = 0 => cursor = 0 /\ rest = <<>>)
    BY <2>1, <2>2
  <2>4. r' \in Renderers
    BY <2>1, <2>2, RenderIn
  <2>5. ASSUME cursor' = 0 PROVE r' = NewRenderer
    <3>1. r = NewRenderer /\ rest = <<>>
      BY <2>3, <2>5
    <3>2. Render(NewRenderer, <<>>, StepRef) = NewRenderer
      BY NewRendererIn, RenderNone
    <3> QED
      BY <2>1, <3>1, <3>2, Zenon
  <2>6. ASSUME same', NoRest(log') PROVE r' = Printed(log', cursor')
    <3> DEFINE done == SubSeq(Fetch(log), 1, cursor)
    <3>1. r = Render(NewRenderer, done, StepRef)
      BY <2>1, <2>6, Zenon DEF Printed
    <3>2. done \in Seq(LogLines)
      BY <1>0, <2>2
    <3>3. done \o rest = Fetch(log)
      BY <1>0, <2>2, ReadOn
    <3>4. SubSeq(Fetch(log), 1, c) = Fetch(log)
      BY <1>0
    <3> HIDE DEF done, rest, c
    <3>5. Render(NewRenderer, done \o rest, StepRef) =
            Render(Render(NewRenderer, done, StepRef), rest, StepRef)
      BY <2>2, <3>2, NewRendererIn, RenderConcat
    <3> QED
      BY <2>1, <2>3, <3>1, <3>3, <3>4, <3>5, Zenon DEF Printed
  <2>7. cursor' \in Nat /\ cursor' <= Len(Fetch(log'))
    BY <2>1, <2>3
  <2> HIDE DEF rest, c
  <2> QED
    BY <2>1, <2>4, <2>5, <2>6, <2>7
<1>7. CASE PollFails
  BY <1>7 DEF PollFails, logVars
<1>8. CASE Tick
  BY <1>8 DEF Tick, logVars
<1>9. CASE Interrupted
  BY <1>9 DEF Interrupted, logVars
<1>10. CASE UNCHANGED followVars
  BY <1>10 DEF followVars, logVars
<1> QED
  BY <1>1, <1>2, <1>3, <1>4, <1>5, <1>6, <1>7, <1>8, <1>9, <1>10
     DEF Next, LogStep, Polls, Over

LEMMA FollowInvAlways == Spec => []FollowInv
  BY FollowInvInit, FollowInvNext, PTL DEF Spec

\* The variables of a follower keep their types (Follow.TypeOK): followStream
\* leaves the cursor a number of lines and the renderer a step it has counted.
THEOREM FollowTypes == Spec => []TypeOK
<1>1. FollowInv => TypeOK
  <2> SUFFICES ASSUME FollowInv PROVE TypeOK
    OBVIOUS
  <2>1. r.index \in Nat /\ r.inStep \in BOOLEAN /\ r.visible \in BOOLEAN
    BY DEF FollowInv, Renderers
  <2> QED
    BY <2>1, Zenon DEF FollowInv, TypeOK
<1> QED
  BY <1>1, FollowInvAlways, PTL

\* What a follower has printed of a log is what one fetch of the lines up to its
\* cursor prints, however the log was cut into polls and whatever log stood
\* there before, while every frame ends its lines: the loop and the rewind of
\* followStream (fetch.go:120-131).
THEOREM FollowPrintsAFetch == Spec => []PrintedAsFetched
<1>1. FollowInv => PrintedAsFetched
  <2> SUFFICES ASSUME FollowInv, same, NoRest(log)
               PROVE  r.out = Render(NewRenderer, SubSeq(Lines, 1, cursor), StepRef).out
    BY DEF PrintedAsFetched, NoRest
  <2>1. r = Printed(log, cursor)
    BY DEF FollowInv
  <2> QED
    BY <2>1, Zenon DEF Printed, Lines
<1> QED
  BY <1>1, FollowInvAlways, PTL

\* A follower goes back to the top only when the log is another one: the count
\* of lines of a log that grows never falls (followStream, fetch.go:120).
THEOREM OnlyRestartsRewind == Spec => RewindsOnRestartOnly
<1>1. FollowInv /\ [Next]_followVars => [cursor' < cursor => ~same]_followVars
  <2> SUFFICES ASSUME FollowInv, Next, cursor' < cursor PROVE ~same
    BY DEF followVars, logVars
  <2>0. cursor \in Nat /\ Len(Fetch(log)) \in Nat
    <3>1. Fetch(log) \in Seq(LogLines)
      BY FetchIn DEF FollowInv
    <3> QED
      BY <3>1 DEF FollowInv
  <2>1. CASE PollRewinds
    <3>1. Len(Fetch(log)) < cursor
      BY <2>1, Zenon DEF PollRewinds, Shrunk, Count, Lines
    <3> QED
      BY <2>0, <3>1 DEF FollowInv
  <2>2. CASE PollPrints
    <3> DEFINE c == Len(Fetch(log))
               rest == SubSeq(Fetch(log), cursor + 1, c)
    <3>1. cursor' = cursor + Len(rest) /\ ~(c < cursor)
      BY <2>2, Zenon DEF PollPrints, Shrunk, Count, Lines
    <3>2. Len(rest) \in Nat
      BY <2>0, <3>1
    <3> HIDE DEF rest
    <3> QED
      BY <2>0, <3>1, <3>2
  <2>3. CASE ~PollRewinds /\ ~PollPrints
    <3>1. cursor' = cursor
      BY <2>3 DEF Next, LogStep, Polls, Creates, Appends, Deletes, PollWaits, PollFails, Tick,
                  Interrupted, Over, followVars
    <3> QED
      BY <2>0, <3>1
  <2> QED
    BY <2>1, <2>2, <2>3
<1> QED
  BY <1>1, FollowInvAlways, PTL DEF Spec, RewindsOnRestartOnly

\* A whole line that a fetch of the log returned is in the same place of every
\* later fetch of it, so an offset into the whole lines stays right: Fetch puts
\* the unfinished lines last (storage.go:243-260).
THEOREM WholeLinesStayPut == Spec => []WholeLinesStay
<1>1. FollowInv => WholeLinesStay
  <2> SUFFICES ASSUME FollowInv PROVE WholeLinesStay
    OBVIOUS
  <2>1. Kept(log)
    BY KeptAlways DEF FollowInv
  <2> QED
    BY <2>1, Zenon DEF Kept, WholeLinesStay, Lines
<1> QED
  BY <1>1, FollowInvAlways, PTL

\* The lines --steps counts for a step are those that --step shows of it, and
\* none of the output is lost between the steps: groupSteps and the renderer
\* read the markers alike (steps.go:70-99, fetch.go:207-235).
THEOREM StepReadersAgree == Spec => []StepsAgree
<1>1. FollowInv => StepsAgree
  <2> SUFFICES ASSUME FollowInv PROVE StepsAgree
    OBVIOUS
  <2>1. Lines \in Seq(LogLines)
    BY FetchIn DEF FollowInv, Lines
  <2> DEFINE g == GroupSteps(Lines)
  <2>2. AllThere(Lines) /\ \A k \in Nat : k # 0 => SameStep(k, Lines)
    BY <2>1, StepsAgreeOn
  <2>3. g.steps \in Seq(Sections)
    BY <2>1, GroupIn DEF Groupings
  <2>4. DOMAIN g.steps = 1..Len(g.steps) /\ Len(g.steps) \in Nat
    BY <2>3
  <2>5. ASSUME NEW k \in DOMAIN g.steps
        PROVE  g.steps[k].lines = Text(Render(NewRenderer, Lines, k).out)
    <3>1. k \in Nat /\ k # 0 /\ k <= Len(g.steps)
      BY <2>4
    <3>2. SameStep(k, Lines)
      BY <2>2, <3>1
    <3> QED
      BY <3>1, <3>2, Zenon DEF SameStep
  <2>6. Len(g.preamble) + Len(FlattenSeq(PartsOf(g.steps))) = Len(Text(Lines))
    BY <2>2, Zenon DEF AllThere
  <2> QED
    BY <2>5, <2>6, Zenon DEF StepsAgree, PartsOf
<1> QED
  BY <1>1, FollowInvAlways, PTL
=============================================================================
