\* A reading tool, an editing one and commands; the second answer
\* already fills the context, or does not fit in it with its results.
SPECIFICATION Spec
CONSTANTS
    read_file = read_file
    edit_file = edit_file
    run_command = run_command
    a1 = a1
    a2 = a2
    Tools = {read_file, edit_file, run_command}
    Edits = {edit_file}
    Mutating = {edit_file, run_command}
    RunCommand = run_command
    Args = {a1, a2}
    MaxSteps = 3
    MaxConsecutive = 2
    ReadLimit = 1
    MutatingLimit = 3
    EditLimit = 2
    RunLimit = 1
    Capped = TRUE
    MaxMessages = 3
    Threshold = 7
    MaxBatch = 3
    MaxTokens = 1
\* A run ends: nothing happens after it.
CHECK_DEADLOCK FALSE
INVARIANTS
    TypeOK
    AskedWithinLimits
    ContextBounded
    AnswerKept
    ReasonTrue
PROPERTIES
    ImplementsRun
