---------------------------- MODULE EvidenceBundles -------------------------
(***************************************************************************)
(* The files a verification leaves for others to read: the run bundle      *)
(* (writeAgentRunBundle) and the decision evidence bundle                  *)
(* (writeDecisionEvidenceBundle), each in its directory, and their readers *)
(* loadCorpusRun, verifyRunBundleSignature and                             *)
(* validateDecisionEvidenceBundle.  Each file is replaced in one step, the *)
(* bundle file by file; a command may throw or be killed between two of    *)
(* them, a later command writes to the same directory, and a reader reads  *)
(* while one of them writes.  A behaviour follows one directory.           *)
(*                                                                         *)
(* A file's content is what was verified (doc), the key it is signed with, *)
(* and, where the file carries a date, the number of the write.            *)
(***************************************************************************)
EXTENDS Sequences, Naturals

CONSTANTS Docs, NoDoc, SigningKeys, NoKey, MaxWrites

VARIABLES
    bundle,    \* the kind of bundle the directory holds
    disk,      \* file name -> content
    writer,    \* the command that writes, if one does: the files to do and done
    written,   \* the files of every write, completed or not
    outcome,   \* how the last write ended
    reader     \* the reader's kind, key, files to read, contents seen, verdict

vars == <<bundle, disk, writer, written, outcome, reader>>

Names ==
    IF bundle = "run" THEN {"events", "result", "signature", "record"}
    ELSE {"certificate", "truth", "exit", "attestation", "manifest", "sidecar"}

Content(doc, key, write) == [doc |-> doc, key |-> key, write |-> write]
Missing == Content(NoDoc, NoKey, 0)
Plain(doc) == Content(doc, NoKey, 0)

File(name, content) == [name |-> name, content |-> content]

\* The record of a signed run bundle fingerprints the signature (schemaVersion 2).
RunFiles(doc, key, write) ==
    <<File("events", Plain(doc)), File("result", Plain(doc))>>
    \o (IF key = NoKey THEN <<>> ELSE <<File("signature", Content(doc, key, 0))>>)
    \o <<File("record", Content(doc, key, write))>>

\* The manifest fingerprints the certificate and the material truth; the exit record
\* (here with the human layer) and the attestation (with the next action) are not.
DecisionFiles(doc, key, attested, write) ==
    <<File("certificate", Plain(doc)), File("truth", Plain(doc)), File("exit", Plain(doc))>>
    \o (IF attested THEN <<File("attestation", Plain(doc))>> ELSE <<>>)
    \o <<File("manifest", Content(doc, NoKey, write))>>
    \o (IF key = NoKey THEN <<>> ELSE <<File("sidecar", Content(doc, key, write))>>)

Idle == [signed |-> FALSE, todo |-> <<>>, done |-> {}]
Writing == writer.todo # <<>>

Init ==
    /\ bundle \in {"run", "decision"}
    /\ disk = [f \in Names |-> Missing]
    /\ writer = Idle
    /\ written = <<>>
    /\ outcome = "none"
    /\ reader = [kind |-> "none", key |-> NoKey, todo |-> <<>>, verdict |-> "none",
                 seen |-> [f \in Names |-> Missing]]

-----------------------------------------------------------------------------
(* Writers. *)

Start(signed, files) ==
    /\ ~Writing /\ Len(written) < MaxWrites
    /\ writer' = [signed |-> signed, todo |-> files, done |-> {}]
    /\ written' = Append(written, files)
    /\ outcome' = "writing"
    /\ UNCHANGED <<bundle, disk, reader>>

WriteRun(doc, key) ==
    /\ bundle = "run"
    /\ Start(key # NoKey, RunFiles(doc, key, Len(written) + 1))

WriteDecision(doc, key, attested) ==
    /\ bundle = "decision"
    /\ Start(key # NoKey, DecisionFiles(doc, key, attested, Len(written) + 1))

End(result) == outcome' = result /\ writer' = Idle

\* A temporary file renamed over the old one.
Replace ==
    /\ Writing
    /\ LET file == Head(writer.todo)
       IN  /\ disk' = [disk EXCEPT ![file.name] = file.content]
           /\ IF Len(writer.todo) = 1 THEN End("written")
              ELSE /\ writer' = [writer EXCEPT !.todo = Tail(@), !.done = @ \cup {file.name}]
                   /\ UNCHANGED outcome
    /\ UNCHANGED <<bundle, written, reader>>

\* Where a rename does not replace: the old file goes first.
RemoveOld ==
    /\ Writing /\ bundle = "run" /\ disk[Head(writer.todo).name] # Missing
    /\ disk' = [disk EXCEPT ![Head(writer.todo).name] = Missing]
    /\ UNCHANGED <<bundle, writer, written, outcome, reader>>

\* A file operation throws.  A signed run bundle takes back what it wrote, as far as
\* the removals succeed; the others leave it.
Throw ==
    /\ Writing
    /\ \E gone \in SUBSET IF bundle = "run" /\ writer.signed THEN writer.done ELSE {} :
          disk' = [f \in DOMAIN disk |-> IF f \in gone THEN Missing ELSE disk[f]]
    /\ End("failed")
    /\ UNCHANGED <<bundle, written, reader>>

Killed ==
    /\ Writing
    /\ End("failed")
    /\ UNCHANGED <<bundle, disk, written, reader>>

-----------------------------------------------------------------------------
(* Readers. *)

\* Mutant: the events are not compared with their fingerprint.
Recorded_NoEvents(seen) ==
    /\ seen["record"] # Missing
    /\ seen["result"] = Plain(seen["record"].doc)
    /\ seen["record"].key # NoKey =>
          seen["signature"] = Content(seen["record"].doc, seen["record"].key, 0)

\* Mutant: a signature is read when it is there, not when the record names it.
Recorded_AnySignature(seen) ==
    /\ seen["record"] # Missing
    /\ seen["events"] = Plain(seen["record"].doc)
    /\ seen["result"] = Plain(seen["record"].doc)
    /\ seen["signature"] # Missing =>
          seen["signature"] = Content(seen["record"].doc, seen["record"].key, 0)

\* The record says which files there should be, and what is in them.
Recorded(seen) ==
    /\ seen["record"] # Missing
    /\ seen["events"] = Plain(seen["record"].doc)
    /\ seen["result"] = Plain(seen["record"].doc)
    /\ seen["record"].key # NoKey =>
          seen["signature"] = Content(seen["record"].doc, seen["record"].key, 0)

\* The trusted key is the one in the signature, and the signature is of the result.
SignedWith(key, seen) ==
    /\ seen["record"].key # NoKey
    /\ seen["signature"].key = key /\ seen["signature"].doc = seen["result"].doc

\* A signature next to the manifest must be verified, and needs a key for it.
Manifested(key, seen) ==
    /\ seen["manifest"] # Missing
    /\ seen["certificate"] = Plain(seen["manifest"].doc)
    /\ seen["truth"] = Plain(seen["manifest"].doc)
    /\ seen["sidecar"] # Missing =>
          /\ key # NoKey
          /\ seen["sidecar"] = [seen["manifest"] EXCEPT !.key = key]

Accepts(kind, key, seen) ==
    CASE kind = "load" -> Recorded(seen)
      [] kind = "verify" -> Recorded(seen) /\ SignedWith(key, seen)
      [] kind = "validate" -> Manifested(key, seen)

Order(kind) ==
    CASE kind = "load" -> <<"record", "result", "events", "signature">>
      [] kind = "verify" -> <<"record", "events", "result", "signature">>
      [] kind = "validate" -> <<"manifest", "certificate", "truth", "sidecar">>

Open(kind, key) ==
    /\ reader.kind = "none"
    /\ kind = "validate" <=> bundle = "decision"
    /\ reader' = [reader EXCEPT !.kind = kind, !.key = key, !.todo = Order(kind)]
    /\ UNCHANGED <<bundle, disk, writer, written, outcome>>

Read ==
    /\ reader.todo # <<>>
    /\ LET name == Head(reader.todo)
           seen == [reader.seen EXCEPT ![name] = disk[name]]
       IN  reader' = [reader EXCEPT !.todo = Tail(@), !.seen = seen,
                        !.verdict = IF Len(reader.todo) > 1 THEN @
                                    ELSE IF Accepts(reader.kind, reader.key, seen)
                                    THEN "accepted" ELSE "refused"]
    /\ UNCHANGED <<bundle, disk, writer, written, outcome>>

Next ==
    \/ \E doc \in Docs, key \in SigningKeys \cup {NoKey} :
          \/ WriteRun(doc, key)
          \/ \E attested \in BOOLEAN : WriteDecision(doc, key, attested)
    \/ Replace \/ RemoveOld \/ Throw \/ Killed
    \/ \E kind \in {"load", "validate"} : Open(kind, NoKey)
    \/ \E kind \in {"verify", "validate"}, key \in SigningKeys : Open(kind, key)
    \/ Read

Spec == Init /\ [][Next]_vars

-----------------------------------------------------------------------------
(* Properties. *)

Of(files, name) ==
    LET found == {i \in DOMAIN files : files[i].name = name}
    IN  IF found = {} THEN Missing ELSE files[CHOOSE i \in found : TRUE].content

\* What a reader has accepted while commands were writing, failing and being killed
\* is what one of them was given to write, and a signature it vouches for is of that
\* write and of the reader's key.
AcceptedIsOneWrite ==
    reader.verdict = "accepted" =>
        LET seen == reader.seen
            summary == IF reader.kind = "validate" THEN "manifest" ELSE "record"
            files == written[seen[summary].write]
            Same(names) == \A f \in names : seen[f] = Of(files, f)
        IN  CASE reader.kind = "load" ->
                     Same({"events", "result"} \cup
                          IF seen["record"].key = NoKey THEN {} ELSE {"signature"})
              [] reader.kind = "verify" ->
                     Same(Names) /\ Of(files, "signature").key = reader.key
              [] reader.kind = "validate" ->
                     /\ Same({"certificate", "truth"})
                     /\ seen["sidecar"] # Missing =>
                           Same({"sidecar"}) /\ seen["sidecar"].key = reader.key

\* "Successful return implies all final files exist and match" (docs/agentskeptic.md):
\* after a write that succeeded, whatever earlier and interrupted writes left in the
\* directory, the bundle is there and its readers accept it, with the key it was signed
\* with; except that a decision bundle written unsigned where a signature was left is
\* refused, with any key and with none.
WrittenIsAccepted ==
    outcome = "written" =>
        LET files == written[Len(written)]
            key == Of(files, IF bundle = "run" THEN "record" ELSE "sidecar").key
        IN  /\ \A i \in DOMAIN files : disk[files[i].name] = files[i].content
            /\ bundle = "run" =>
                  /\ Accepts("load", NoKey, disk)
                  /\ \A k \in SigningKeys : Accepts("verify", k, disk) <=> k = key
            /\ bundle = "decision" =>
                  \A k \in SigningKeys \cup {NoKey} :
                      Accepts("validate", k, disk) <=>
                          (key # NoKey /\ k = key) \/ disk["sidecar"] = Missing
=============================================================================
