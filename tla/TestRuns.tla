------------------------------ MODULE TestRuns ------------------------------
(***************************************************************************)
(* A test run of backend/app/testing/: its row, the process that runs the  *)
(* tests, and the verdict the language's adapter reads off the output.  A  *)
(* line of output is what the adapters see of it: the numbers that stand   *)
(* before one of their words, in order, and whether it says "in ".        *)
(***************************************************************************)
EXTENDS Naturals, Sequences

CONSTANTS
    Runs,
    Lines,          \* the lines the output is made of
    MaxLines        \* bounds the output

\* What is counted, and the words the output has for it.
Word == {"passed", "failed", "skipped", "errors"}

Spelled(w) == IF w = "errors" THEN {"error", "errors"} ELSE {w}

Said == Word \cup {"error"}

\* What is assumed of the constants.
LinesAssumption ==
    Lines \subseteq [counts : Seq(Said \X Nat), ends : BOOLEAN] /\ MaxLines \in Nat

VARIABLES
    row,            \* test_runs: {[language, status, count]}, or {}
    process         \* [at, output, exit] of each run's request

vars == <<row, process>>

\* The languages RunSpec names; two have an adapter.
Language == {"python", "node", "go", "rust"}
Adapted == {"python", "node"}

Status == {"running", "passed", "failed", "errored", "timeout"}
At == {"start", "created", "exited", "late", "unstarted", "over", "refused", "died"}

\* pytest's exit codes: all passed, some failed, none collected.
Exit == {0, 1, 5}

Outputs == UNION {[1..n -> Lines] : n \in 0..MaxLines}

Zero == [w \in Word |-> 0]

TypeOK ==
    /\ row \in [Runs -> SUBSET [language : Language, status : Status, count : [Word -> Nat]]]
    /\ process \in [Runs -> [at : At, output : Outputs, exit : Exit]]

Init ==
    /\ row = [r \in Runs |-> {}]
    /\ process = [r \in Runs |-> [at |-> "start", output |-> <<>>, exit |-> 0]]

-----------------------------------------------------------------------------
(* Reading the output *)

\* Where a line has one of these words.
Mentions(line, words) == {i \in DOMAIN line.counts : line.counts[i][1] \in words}

FirstOf(S) == CHOOSE i \in S : \A j \in S : i <= j
LastOf(S) == CHOOSE i \in S : \A j \in S : j <= i

\* The number before the first of them in a line, and before the last.
First(line, words) ==
    IF Mentions(line, words) = {} THEN 0 ELSE line.counts[FirstOf(Mentions(line, words))][2]
Latest(line, words) ==
    IF Mentions(line, words) = {} THEN 0 ELSE line.counts[LastOf(Mentions(line, words))][2]

\* PythonAdapter looks at lines that speak of passes, failures or errors ...
Speaks(line) == \E i \in DOMAIN line.counts : line.counts[i][1] # "skipped"

\* ... up to the first that says how long it took ...
Looked(output) ==
    {i \in DOMAIN output :
        /\ Speaks(output[i])
        /\ \A j \in 1..(i - 1) : ~(Speaks(output[j]) /\ output[j].ends)}

\* ... and what a later one says counts.
Pytest(output) ==
    [w \in Word |->
        LET lines == {i \in Looked(output) : Mentions(output[i], Spelled(w)) # {}}
        IN  IF lines = {} THEN 0 ELSE Latest(output[LastOf(lines)], Spelled(w))]

\* NodeAdapter takes the first line on which the passes come first.
Vitest(output) ==
    LET lines == {i \in DOMAIN output :
                     output[i].counts # <<>> /\ output[i].counts[1][1] = "passed"}
    IN  IF lines = {} THEN Zero
        ELSE [w \in Word |-> IF w = "errors" THEN 0 ELSE First(output[FirstOf(lines)], {w})]

Count(language, output) == IF language = "python" THEN Pytest(output) ELSE Vitest(output)

None(n) == \A w \in Word : n[w] = 0

\* Fault: the counts alone decide.
Verdict_Counts(language, n, exit) ==
    CASE n["failed"] = 0 /\ n["errors"] = 0 /\ ~None(n) -> "passed"
      [] None(n) -> "errored"
      [] OTHER -> IF n["failed"] > 0 THEN "failed" ELSE "errored"

\* The end of both parse_output.
Verdict(language, n, exit) ==
    CASE exit = 0 /\ n["failed"] = 0 /\ n["errors"] = 0 /\ ~None(n) -> "passed"
      [] exit = 0 /\ None(n) -> "errored"
      [] exit = 5 /\ language = "python" -> "errored"
      [] OTHER -> IF n["failed"] > 0 THEN "failed" ELSE "errored"

\* The run_tests tool of the agent takes the first number before each word,
\* wherever it stands, and does not ask for the exit code unless it is 5.  It
\* knows "errors" and not the "error" of which there is one.
ToolCount(w, output) ==
    LET lines == {i \in DOMAIN output : Mentions(output[i], {w}) # {}}
    IN  IF lines = {} THEN 0 ELSE First(output[FirstOf(lines)], {w})

ToolPasses(output, exit) ==
    \/ exit = 5
    \/ /\ ToolCount("failed", output) = 0
       /\ ToolCount("errors", output) = 0
       /\ ToolCount("passed", output) > 0

-----------------------------------------------------------------------------
(* TestRunService.run *)

Go(r, at) == process' = [process EXCEPT ![r].at = at]

\* The row is committed before anything is run.
Create(r, language) ==
    /\ process[r].at = "start"
    /\ row' = [row EXCEPT ![r] = {[language |-> language, status |-> "running", count |-> Zero]}]
    /\ Go(r, "created")

Of(r, languages) == \E t \in row[r] : t.language \in languages

\* _adapter_for raises and the row stays as it is.
Refuse(r) ==
    /\ process[r].at = "created"
    /\ Of(r, Language \ Adapted)
    /\ Go(r, "refused")
    /\ UNCHANGED row

\* ContainerRunner.run and HostRunner.run: the process ends, is killed at the
\* time limit, or cannot be started.
Ends(r) ==
    /\ process[r].at = "created"
    /\ Of(r, Adapted)
    /\ \E output \in Outputs, exit \in Exit :
           process' = [process EXCEPT ![r] = [at |-> "exited", output |-> output, exit |-> exit]]
    /\ UNCHANGED row

Late(r) ==
    /\ process[r].at = "created"
    /\ Of(r, Adapted)
    /\ Go(r, "late") \/ Go(r, "unstarted")
    /\ UNCHANGED row

\* An empty run counts as one error.
Judged(t, output, exit) ==
    LET n == Count(t.language, output)
        status == Verdict(t.language, n, exit)
        empty == (exit = 0 /\ None(n)) \/ (exit = 5 /\ t.language = "python")
    IN  [t EXCEPT !.status = status, !.count = IF empty THEN [n EXCEPT !["errors"] = 1] ELSE n]

\* The verdict is committed.
Store(r) ==
    /\ \E t \in row[r] :
           \/ /\ process[r].at = "exited"
              /\ row' = [row EXCEPT ![r] = {Judged(t, process[r].output, process[r].exit)}]
           \/ /\ process[r].at = "late"
              /\ row' = [row EXCEPT ![r] = {[t EXCEPT !.status = "timeout"]}]
           \/ /\ process[r].at = "unstarted"
              /\ row' = [row EXCEPT ![r] = {[t EXCEPT !.status = "errored"]}]
    /\ Go(r, "over")

\* The server stops.
Dies(r) ==
    /\ process[r].at \in {"created", "exited", "late", "unstarted"}
    /\ Go(r, "died")
    /\ UNCHANGED row

Next ==
    \E r \in Runs :
        \/ \E language \in Language : Create(r, language)
        \/ Refuse(r) \/ Ends(r) \/ Late(r) \/ Store(r) \/ Dies(r)

Spec == Init /\ [][Next]_vars

-----------------------------------------------------------------------------
(* Properties *)

\* The output is one line, its summary: it counts a thing once, and not with a zero.
Plain(output) ==
    /\ Len(output) = 1 /\ output[1].ends
    /\ \A w \in Word : \A i, j \in Mentions(output[1], Spelled(w)) : i = j
    /\ \A i \in DOMAIN output[1].counts : output[1].counts[i][2] > 0

\* Whatever stands in the output, a run is "passed" only if its process ended by
\* itself with code 0 after reporting a pass or a skip and, in what was read, no
\* failure; "failed" only if a failure was read; for pytest's plain summary the
\* counts are the summary's, and the agent's tool judges as the adapter does but
\* where it misses a single error; and a run is "running" for ever only if the
\* server died or its language has no adapter (testing/service.py: run; adapters:
\* parse_output; tools/run_tests.py: _run).
VerdictTrue ==
    \A r \in Runs : \A t \in row[r] :
        LET p == process[r]
            Read(w) == \E i \in DOMAIN p.output : \E k \in Mentions(p.output[i], {w}) :
                           p.output[i].counts[k][2] > 0
            OneError == Mentions(p.output[1], {"error"}) # {}
        IN  /\ t.status = "passed" =>
                   /\ p.at = "over" /\ p.exit = 0
                   /\ Read("passed") \/ Read("skipped")
                   /\ t.count["failed"] = 0
            /\ t.status = "failed" => Read("failed")
            /\ t.status = "running" => p.at # "over"
            /\ p.at = "over" /\ t.language = "python" /\ Plain(p.output) /\ p.exit # 5
                 /\ ((p.exit = 0) <=> (t.count["failed"] + t.count["errors"] = 0))
               => /\ t.status = "passed" <=> ToolPasses(p.output, p.exit) /\ ~OneError
                  /\ t.status = "passed" =>
                         \A w \in Word : t.count[w] = First(p.output[1], Spelled(w))

=============================================================================
