----------------------------- MODULE LocalHistory ----------------------------
(***************************************************************************)
(* `agentskeptic loop' and its history under ~/.agentskeptic/runs          *)
(* (src/src/loop/localRunStore.ts, runLoopSubcommand.ts): one directory    *)
(* for each run and one index.json, read, changed and replaced without a   *)
(* lock by every command of the user, any of which may be interrupted.     *)
(*                                                                         *)
(* A run is named after its command.  The verification before the history  *)
(* is VerificationRun; a command here starts with its result.              *)
(***************************************************************************)
EXTENDS Naturals, SequencesExt

CONSTANTS Commands, Workflows,
          MaxRuns             \* --max-history-runs

VARIABLES index,              \* the entries of index.json
          files,              \* per run directory: the state of its files
          loop                \* the commands

vars == <<index, files, loop>>

\* In the order they are written.
Names == <<"events", "result", "certificate">>
FileNames == {"events", "result", "certificate"}

NoRun == <<>>
NewLoop == [phase |-> "idle", workflow |-> "none", view |-> NoRun, prior |-> NoRun,
            written |-> 0, victims |-> {}, compared |-> "none"]

Init ==
    /\ index = <<>>
    /\ files = [c \in Commands |-> [f \in FileNames |-> "absent"]]
    /\ loop = [c \in Commands |-> NewLoop]

Become(c, row) == loop' = [loop EXCEPT ![c] = row]

Entry(c) == [run |-> c, workflow |-> loop[c].workflow]

-----------------------------------------------------------------------------
(* latestCompatiblePriorRun. *)

Start(c, w) ==
    /\ loop[c].phase = "idle"
    /\ Become(c, [loop[c] EXCEPT !.phase = "prior", !.workflow = w, !.view = index])
    /\ UNCHANGED <<index, files>>

Present(run) == files[run].result # "absent" /\ files[run].events # "absent"

\* The newest entry of the workflow whose files exist.
ChoosePrior(c) ==
    /\ loop[c].phase = "prior"
    /\ LET view == loop[c].view
           fits == {i \in DOMAIN view :
                      view[i].workflow = loop[c].workflow /\ Present(view[i].run)}
           Prefer(prior) ==
               Become(c, [loop[c] EXCEPT !.phase = "write", !.view = <<>>, !.prior = prior])
       IN  \/ fits = {} /\ Prefer(NoRun)
           \/ \E i \in fits : (\A k \in fits : k <= i) /\ Prefer(<<view[i].run>>)
    /\ UNCHANGED <<index, files>>

-----------------------------------------------------------------------------
(* storeLoopRun. *)

\* copyFileSync and writeFileSync open the file, then fill it.
WriteFile(c) ==
    /\ loop[c].phase = "write" /\ loop[c].written < Len(Names)
    /\ LET f == Names[loop[c].written + 1]
       IN  IF files[c][f] = "absent"
           THEN files' = [files EXCEPT ![c][f] = "partial"] /\ UNCHANGED loop
           ELSE /\ files' = [files EXCEPT ![c][f] = "whole"]
                /\ Become(c, [loop[c] EXCEPT !.written = @ + 1])
    /\ UNCHANGED index

\* Mutant: the entry is added before the files are there.
Written_NotAwaited(c) == TRUE

Written(c) == loop[c].written = Len(Names)

\* The last MaxRuns entries stay.
Kept(entries) ==
    IF Len(entries) > MaxRuns
    THEN SubSeq(entries, Len(entries) - MaxRuns + 1, Len(entries)) ELSE entries

ReadIndex(c) ==
    /\ loop[c].phase = "write" /\ Written(c)
    /\ LET entries == Append(index, Entry(c))
       IN  Become(c, [loop[c] EXCEPT !.phase = "evict", !.view = Kept(entries),
                      !.victims = {e.run : e \in ToSet(entries) \ ToSet(Kept(entries))}])
    /\ UNCHANGED <<index, files>>

\* rmSync of the directory of an entry that is dropped, file by file.
RemoveFile(c) ==
    /\ loop[c].phase = "evict"
    /\ \E v \in loop[c].victims, f \in FileNames :
          /\ files[v][f] # "absent"
          /\ files' = [files EXCEPT ![v][f] = "absent"]
    /\ UNCHANGED <<index, loop>>

\* A directory that cannot be removed stays.
RemoveFails(c) ==
    /\ loop[c].phase = "evict" /\ loop[c].victims # {}
    /\ Become(c, [loop[c] EXCEPT !.victims = {}])
    /\ UNCHANGED <<index, files>>

Evicted(c) ==
    \A v \in loop[c].victims, f \in FileNames : files[v][f] = "absent"

\* The new index is renamed over the old one ...
Persist(c) ==
    /\ loop[c].phase = "evict" /\ Evicted(c)
    /\ index' = loop[c].view
    /\ Become(c, [loop[c] EXCEPT !.phase = "read back"])
    /\ UNCHANGED files

\* ... and read back.  When it is not what was written the file is removed and the
\* command fails, exit 3.
ReadBack(c) ==
    /\ loop[c].phase = "read back"
    /\ IF index = loop[c].view
       THEN Become(c, [loop[c] EXCEPT !.phase = "compare"]) /\ UNCHANGED index
       ELSE Become(c, [loop[c] EXCEPT !.phase = "failed"]) /\ index' = <<>>
    /\ UNCHANGED files

-----------------------------------------------------------------------------
\* The comparison with the prior run, whose result may have gone.
Compare(c) ==
    /\ loop[c].phase = "compare"
    /\ Become(c, [loop[c] EXCEPT !.phase = "done",
                      !.compared = IF loop[c].prior = NoRun THEN "no anchor"
                                   ELSE IF files[loop[c].prior[1]].result = "absent"
                                   THEN "no anchor"
                                   ELSE files[loop[c].prior[1]].result])
    /\ UNCHANGED <<index, files>>

\* The user interrupts the command, or a file operation throws.
Interrupt(c) ==
    /\ loop[c].phase \notin {"idle", "done", "failed"}
    /\ Become(c, [loop[c] EXCEPT !.phase = "failed"])
    /\ UNCHANGED <<index, files>>

Next ==
    \E c \in Commands :
        \/ \E w \in Workflows : Start(c, w)
        \/ ChoosePrior(c) \/ WriteFile(c) \/ ReadIndex(c)
        \/ RemoveFile(c) \/ RemoveFails(c) \/ Persist(c) \/ ReadBack(c) \/ Compare(c) \/ Interrupt(c)

Spec == Init /\ [][Next]_vars
-----------------------------------------------------------------------------
\* A run that has a place in the history was stored completely, unless it is being
\* evicted, and a comparison is never made with a result that was still being written
\* or whose command was interrupted (latestCompatiblePriorRun, storeLoopRun).
ComparedWithStored ==
    /\ \A c \in Commands : loop[c].compared # "partial"
    /\ \A i \in DOMAIN index : loop[index[i].run].written = Len(Names)

\* "every run is traceable by (workflowId, capturedAt, artifact path)" while the
\* history has room for all of them (docs/local-feedback-loop.md).
EveryRunTraceable ==
    Cardinality({c \in Commands : loop[c].phase # "idle"}) <= MaxRuns =>
        \A c \in Commands : loop[c].phase = "done" => \E i \in DOMAIN index : index[i].run = c
=============================================================================
