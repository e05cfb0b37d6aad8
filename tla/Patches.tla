------------------------------- MODULE Patches -------------------------------
(***************************************************************************)
(* The three tools that write files of the work directory, apply_patch,    *)
(* edit_file and write_file (backend/app/agent/tools/): the first two      *)
(* judge their edits one after the other and write only then.  A file is   *)
(* the set of edits it contains; whether the old text of an edit is found  *)
(* is a choice.  There is no await in the handlers, so one server runs one *)
(* call at a time; it may die, and a write may fail, at any step.          *)
(***************************************************************************)
EXTENDS Naturals, Sequences

CONSTANTS
    Files,
    Existing,       \* files that are there at the start
    Calls,
    MaxEdits        \* bounds the edits of a call

\* What is assumed of the constants.
ExistingAssumption == Existing \subseteq Files /\ MaxEdits \in Nat

VARIABLES
    file,           \* {set of edits} of each file, {} if there is none
    call,           \* [at, ops, done]: ops are judged, the first done are written
    spoiled,        \* files a dead server or a failed restore left in between
    rewritten       \* files that write_file has opened

vars == <<file, call, spoiled, rewritten>>

\* An edit is named by its call and its place there.
Edit == Calls \X (1..MaxEdits)
Content == SUBSET Edit
FileState == {{}} \cup {{c} : c \in Content}

Op == [path : Files, original : FileState, new : FileState]

At == {"start", "patching", "editing", "writing", "ok", "failed", "died"}

TypeOK ==
    /\ file \in [Files -> FileState]
    /\ \A c \in Calls :
           /\ call[c].at \in At
           /\ call[c].ops \in Seq(Op) /\ Len(call[c].ops) <= MaxEdits
           /\ call[c].done \in 0..Len(call[c].ops)
    /\ spoiled \subseteq Files
    /\ rewritten \subseteq Files

Init ==
    /\ file = [f \in Files |-> IF f \in Existing THEN {{}} ELSE {}]
    /\ call = [c \in Calls |-> [at |-> "start", ops |-> <<>>, done |-> 0]]
    /\ spoiled = {}
    /\ rewritten = {}

Busy(c) == call[c].at \in {"patching", "editing", "writing"}

Go(c, at) == call' = [call EXCEPT ![c].at = at]

MayBegin(c) == call[c].at = "start" /\ \A other \in Calls : ~Busy(other)

Begin(c, at) ==
    /\ MayBegin(c)
    /\ Go(c, at)
    /\ UNCHANGED <<file, spoiled, rewritten>>

\* The edit that follows those judged so far, added to a content.
With(c, old) == {content \cup {<<c, Len(call[c].ops) + 1>>} : content \in old}

Judge(c, f, old, new) ==
    /\ Len(call[c].ops) < MaxEdits
    /\ call' = [call EXCEPT ![c].ops = Append(@, [path |-> f, original |-> old, new |-> new])]
    /\ UNCHANGED <<file, spoiled, rewritten>>

\* A path outside the sandbox, a file that is missing or already there, a text
\* that is not found, or an error in reading.
Refuse(c) ==
    /\ call[c].at \in {"patching", "editing"}
    /\ Go(c, "failed")
    /\ UNCHANGED <<file, spoiled, rewritten>>

-----------------------------------------------------------------------------
(* apply_patch *)

\* Phase 1: each patch is applied to the file as it is on the disk.
JudgePatch(c, f) ==
    /\ call[c].at = "patching"
    /\ Judge(c, f, file[f], IF file[f] = {} THEN With(c, {{}}) ELSE With(c, file[f]))

StartWriting(c) ==
    /\ call[c].at = "patching" /\ call[c].ops # <<>>
    /\ Go(c, "writing")
    /\ UNCHANGED <<file, spoiled, rewritten>>

\* Phase 2: a temporary file takes the place of each in turn.
Write(c) ==
    LET n == call[c].done + 1
        op == call[c].ops[n]
    IN  /\ call[c].at = "writing"
        /\ file' = [file EXCEPT ![op.path] = op.new]
        /\ call' = [call EXCEPT ![c].done = n,
                                ![c].at = IF n = Len(call[c].ops) THEN "ok" ELSE "writing"]
        /\ UNCHANGED <<spoiled, rewritten>>

\* Fault: the patch that failed is restored, the first one is not.
ToUndo_Shifted(c) == {i \in 2..(call[c].done + 1) : i <= Len(call[c].ops)}

ToUndo(c) == 1..call[c].done

\* A write fails (a directory that is not there, a full disk), and the files
\* written are given their originals, each once more in turn: a created one is
\* removed.  An error is passed over and leaves the file as it is or cut short.
Undo(c) ==
    /\ call[c].at = "writing"
    /\ \E fails \in SUBSET {call[c].ops[i].path : i \in ToUndo(c)} :
           /\ \E left \in [fails -> BOOLEAN] :
                  file' = [f \in Files |->
                      CASE f \in fails -> IF left[f] THEN file[f] ELSE {{}}
                        [] f \notin fails /\ (\E i \in ToUndo(c) : call[c].ops[i].path = f) ->
                               UNION {call[c].ops[i].original :
                                      i \in {j \in ToUndo(c) : call[c].ops[j].path = f}}
                        [] OTHER -> file[f]]
           /\ spoiled' = spoiled \cup fails
    /\ Go(c, "failed")
    /\ UNCHANGED rewritten

-----------------------------------------------------------------------------
(* edit_file *)

\* Each edit is applied to what the ones before it made of the file.
JudgeEdit(c, f) ==
    /\ call[c].at = "editing"
    /\ file[f] # {}
    /\ \A i \in DOMAIN call[c].ops : call[c].ops[i].path = f
    /\ LET made == IF call[c].ops = <<>> THEN file[f]
                   ELSE call[c].ops[Len(call[c].ops)].new
       IN  Judge(c, f, file[f], With(c, made))

\* One write, by a temporary file; an error leaves the file alone.
Save(c) ==
    /\ call[c].at = "editing" /\ call[c].ops # <<>>
    /\ LET op == call[c].ops[Len(call[c].ops)]
       IN  file' = [file EXCEPT ![op.path] = op.new]
    /\ call' = [call EXCEPT ![c].at = "ok", ![c].done = Len(call[c].ops)]
    /\ UNCHANGED <<spoiled, rewritten>>

-----------------------------------------------------------------------------
(* write_file *)

\* A new content takes some edits over from the old one.  A path outside the
\* sandbox, a text less than half as long as the old one and an error in reading
\* are refused; a write that fails or is cut short has emptied the file first.
WriteFile(c, f) ==
    /\ MayBegin(c)
    /\ \/ Go(c, "failed") /\ UNCHANGED <<file, rewritten>>
       \/ \E kept \in SUBSET UNION file[f], at \in {"ok", "failed", "died"} :
              /\ file' = [file EXCEPT ![f] = {kept}]
              /\ rewritten' = rewritten \cup {f}
              /\ Go(c, at)
    /\ UNCHANGED spoiled

-----------------------------------------------------------------------------

\* The server dies: patches written so far stay.
Dies(c) ==
    /\ Busy(c)
    /\ Go(c, "died")
    /\ spoiled' = spoiled \cup {call[c].ops[i].path : i \in 1..call[c].done}
    /\ UNCHANGED <<file, rewritten>>

Next ==
    \E c \in Calls :
        \/ Begin(c, "patching") \/ Begin(c, "editing")
        \/ \E f \in Files : JudgePatch(c, f) \/ JudgeEdit(c, f) \/ WriteFile(c, f)
        \/ StartWriting(c) \/ Write(c) \/ Undo(c)
        \/ Save(c) \/ Refuse(c) \/ Dies(c)

Spec == Init /\ [][Next]_vars

-----------------------------------------------------------------------------
(* Properties *)

\* Edit i of the call is the last one the file takes from it.
Decides(c, i) ==
    \A j \in DOMAIN call[c].ops : j > i => call[c].ops[j].path # call[c].ops[i].path

\* All or nothing, as long as no server died between two writes and no restore
\* failed: a call that says ok has made the last edit it judged of each file, and
\* keeps it through every later call that is not a write_file of that file, and one
\* that failed or died left no edit, of which write_file could have kept one
\* (apply_patch.py, edit_file.py and write_file.py: _run).  Of two patches of one
\* file in one call only the last is made, both having been cut from the same
\* original.
PatchesWhole ==
    \A c \in Calls, f \in Files \ spoiled :
        /\ call[c].at = "ok" /\ f \notin rewritten => \A i \in DOMAIN call[c].ops :
               call[c].ops[i].path = f /\ Decides(c, i) => \E e \in file[f] : <<c, i>> \in e
        /\ call[c].at \in {"failed", "died"} => \A e \in file[f], i \in 1..MaxEdits : <<c, i>> \notin e

=============================================================================
