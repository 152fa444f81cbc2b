------------------------------ MODULE StepLog ------------------------------
(***************************************************************************)
(* The job of StepRun with its log read back: Fetch makes lines of the     *)
(* frames and groupSteps splits them at the markers (LogReader).           *)
(***************************************************************************)
EXTENDS StepRun, FiniteSets

Reader == INSTANCE LogReader WITH Outputs <- Streams, MaxEnds <- 1

Lines    == Reader!Fetch(log)
Grouped  == Reader!GroupSteps(Lines)

\* The step whose frame ended a line.
Origin(line) ==
    log[CHOOSE i \in DOMAIN log :
            log[i].stream = line.stream /\ line \in {Reader!Whole(log, i)[k] : k \in 1..log[i].ends}].step

\* The start markers in the log, in order, are where its sections begin.
IsStart(f)    == f.event = "step_start"
StartsUpto(i) == {j \in 1..i : IsStart(log[j])}

Opener(k) ==
    CHOOSE i \in DOMAIN log : IsStart(log[i]) /\ Cardinality(StartsUpto(i)) = k

StartLanded(s) == \E i \in DOMAIN log : IsStart(log[i]) /\ log[i].step = s

\* A step whose process keeps what it sends ahead of the next step's: it is
\* still there, or had its close answered, on the one connection it has had.
Settled(s) == (s = step \/ s \in answered) /\ OneWire(s)

WholeSoFar == \A i \in DOMAIN log : log[i].ends = 1 /\ ~log[i].rest
EndedLines(lines) == {lines[j] : j \in {i \in DOMAIN lines : lines[i].whole}}

\* Reading splits the job back into its steps ("a reader can split a job's log
\* back apart", exec.go:15-16): while output has come in whole lines, no
\* section of a settled step holds a line of another settled step whose start is
\* in the log, in spite of the kills, failed starts and lost markers around
\* them.  The tail of a step that is not settled can land late (exec.go:115-121).
SectionsHoldTheirStep ==
    WholeSoFar =>
        LET sections == Grouped.steps
        IN \A k \in DOMAIN sections : \A j \in DOMAIN sections[k].lines :
              LET s == Origin(sections[k].lines[j])
                  u == log[Opener(k)].step
              IN Settled(s) /\ StartLanded(s) /\ Settled(u) => s = u

\* What is read in a wrong place is unfinished lines, which Fetch puts behind all
\* others (storage.go:255-261), and nothing else: in a marked job of settled
\* steps a line that has ended is in the section of the step that ended it, if
\* that step's start is in the log, whatever is unfinished around it.
OnlyRestsAstray ==
    marked /\ (\A s \in 1..step : Settled(s)) =>
        LET job == Grouped
        IN /\ \A l \in EndedLines(job.preamble) : ~StartLanded(Origin(l))
           /\ \A k \in DOMAIN job.steps : \A l \in EndedLines(job.steps[k].lines) :
                 StartLanded(Origin(l)) => Origin(l) = log[Opener(k)].step
=============================================================================
