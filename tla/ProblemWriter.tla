--------------------------- MODULE ProblemWriter ---------------------------
(***************************************************************************)
(* Concurrent calls of compile_engineering_problem followed by             *)
(* write_engineering_problem for ONE problem ID of one case                *)
(* (labos/engineering/compiler.py).                                        *)
(*                                                                         *)
(* The compiler reads the selected numbered case files once each, and then *)
(* goes through the provenances that link the authoring data to sidecars.  *)
(* It holds the bytes of a linked sidecar, lets the repository validator   *)
(* read it again beside the files the validator consults, and only then    *)
(* records the hash of the bytes it holds; for a measurement it does the   *)
(* same to the owning evidence in between.  A provenance that fails        *)
(* becomes a finding of the EPR, and the compilation goes on with the next *)
(* one: what was not recorded by then never is.  People keep editing the   *)
(* sources meanwhile.  The writer re-reads every source that was recorded  *)
(* before it touches the disk, and again immediately before it links.      *)
(*                                                                         *)
(* A source is abstracted to the number of times it has been edited: no    *)
(* edit restores earlier content.  What a validator or a later comparison  *)
(* makes of the content is left open: any check may reject a sidecar.      *)
(***************************************************************************)
EXTENDS Naturals, FiniteSets, Sequences

CONSTANTS Writer,     \* calls: compile, then write
          Authoring,  \* explicit authoring data (with this problem ID)
          Numbered,   \* the selected numbered case files, the intake among them
          Sidecar,    \* evidence/*.json and measurements/*.json
          Linked,     \* the provenances of the authoring data, as walked: the
                      \* sidecar each refers to and the evidence that owns it
                      \* (for an evidence provenance, the sidecar itself)
          Consults,   \* per sidecar: the files its validator reads
          Declares,   \* per authoring: the source_sha256 of each provenance
          MaxEdits,   \* bound on the edits of each source
          NoFile,     \* engineering/problems/<problem_id>.json is absent
          NoEpr       \* nothing compiled

Source     == Numbered \cup Sidecar
Provenance == 1..Len(Linked)

ASSUME SentinelAssumption == NoFile \notin Writer
ASSUME BoundAssumption    == MaxEdits \in Nat
ASSUME SourceAssumption   == Numbered # {} /\ Numbered \cap Sidecar = {}
ASSUME LinkAssumption ==
  /\ Linked \in Seq([sidecar : Sidecar, owner : Sidecar])
  /\ Consults \in [Sidecar -> SUBSET Source]
  /\ \A s \in Sidecar : s \in Consults[s]
  /\ Declares \in [Authoring -> [Provenance -> Nat]]

VARIABLES
  version,  \* current version of each source
  target,   \* the file object linked as the EPR: a writer's, or NoFile
  temp,     \* writers whose temporary name exists
  bytes,    \* per file object: how much of its content is in the file
  entryLost \* a power loss has undone the link (not in the code)

VARIABLES   \* local state of a call
  pc,
  turn,     \* the provenance that _provenance_reality is at
  todo,     \* sources still to be read in the present loop
  held,     \* per sidecar: the version of the bytes in hand
  recorded, \* sources with an entry in source_case_sha256 or _sidecar_sha256
  seen,     \* the versions of those entries
  verdict,  \* per provenance: what the EPR says of it
  basis,    \* per source: the versions read since it was last read for its
            \* hash, that read included (not in the code)
  asOf,     \* versions when the call began its last pass (not in the code)
  author,   \* the authoring argument
  failed    \* an exception will surface

files    == <<target, temp, bytes, entryLost>>
readings == <<turn, held, recorded, seen, verdict, basis>>
epr      == <<readings, asOf, author>>
vars     == <<version, target, temp, bytes, entryLost, pc, turn, todo, held, recorded,
              seen, verdict, basis, asOf, author, failed>>

(* The labels of the loop body of _provenance_reality, and of the compiler. *)
Reality   == {"hold", "check", "holdOwner", "checkOwner", "commitOwner", "commit"}
Compiling == {"read"} \cup Reality

Label == Compiling \cup
         {"compile", "verify", "existing", "mkstemp", "write", "sync", "reverify",
          "link", "collide", "cleanup", "done", "crashed", "uncompiled"}

(* No finding, or one raised before or after the sidecar was recorded.     *)
Verdict == {"supported", "unreadable", "rejected"}
Version == [Source -> 0..MaxEdits]

TypeOK ==
  /\ version \in Version
  /\ target \in Writer \cup {NoFile}
  /\ temp \subseteq Writer
  /\ bytes \in [Writer -> {"empty", "torn", "cached", "durable"}]
  /\ entryLost \in BOOLEAN
  /\ pc \in [Writer -> Label]
  /\ turn \in [Writer -> 1..(Len(Linked) + 1)]
  /\ todo \in [Writer -> SUBSET Source]
  /\ held \in [Writer -> [Sidecar -> 0..MaxEdits]]
  /\ recorded \in [Writer -> SUBSET Source]
  /\ seen \in [Writer -> Version]
  /\ verdict \in [Writer -> [Provenance -> Verdict]]
  /\ basis \in [Writer -> [Source -> SUBSET (0..MaxEdits)]]
  /\ asOf \in [Writer -> Version]
  /\ author \in [Writer -> Authoring]
  /\ failed \in [Writer -> BOOLEAN]
  /\ \A w \in Writer : pc[w] \in Reality => turn[w] \in Provenance

Init ==
  /\ version = [s \in Source |-> 0]
  /\ target = NoFile
  /\ temp = {}
  /\ bytes = [w \in Writer |-> "empty"]
  /\ entryLost = FALSE
  /\ pc = [w \in Writer |-> "compile"]
  /\ turn = [w \in Writer |-> 1]
  /\ todo = [w \in Writer |-> Numbered]
  /\ held = [w \in Writer |-> [s \in Sidecar |-> 0]]
  /\ recorded = [w \in Writer |-> {}]
  /\ seen = [w \in Writer |-> version]
  /\ verdict = [w \in Writer |-> [i \in Provenance |-> "supported"]]
  /\ basis = [w \in Writer |-> [s \in Source |-> {}]]
  /\ asOf = [w \in Writer |-> version]
  /\ author \in [Writer -> Authoring]
  /\ failed = [w \in Writer |-> FALSE]

(* compilation_result.canonical_bytes: the authoring data (with the hashes *)
(* it declares), source_case_sha256 and the findings.  The hashes of the   *)
(* sidecars are kept beside the EPR, not in it.                            *)
Epr(w) == [authoring |-> author[w],
           sources   |-> [s \in Numbered |-> seen[w][s]],
           findings  |-> verdict[w]]

Running(w) == pc[w] \notin {"compile", "done", "crashed", "uncompiled"}

(* Where a call is left that is killed: before there was an EPR, or after. *)
Killed(w) == IF pc[w] \in Compiling THEN "uncompiled" ELSE "crashed"

GoTo(w, l) == pc' = [pc EXCEPT ![w] = l] /\ UNCHANGED failed

Fail(w, l) ==
  /\ pc' = [pc EXCEPT ![w] = l]
  /\ failed' = [failed EXCEPT ![w] = TRUE]

(* The sidecar and the owning evidence of the provenance w is at.          *)
Linking(w) == Linked[turn[w]].sidecar
Owning(w)  == Linked[turn[w]].owner

-----------------------------------------------------------------------------
(* compile_engineering_problem is called.                                  *)
Compile(w) ==
  /\ pc[w] = "compile"
  /\ GoTo(w, "read")
  /\ UNCHANGED <<version, files, todo, epr>>

(* Faulty variant: the walk over the provenances goes one too far.         *)
Reach_OneTooFar(w, i) ==
  /\ turn' = [turn EXCEPT ![w] = i]
  /\ IF i <= Len(Linked) + 1
     THEN GoTo(w, "hold") /\ todo' = [todo EXCEPT ![w] = {}]
     ELSE GoTo(w, "verify") /\ todo' = [todo EXCEPT ![w] = recorded'[w]]

(* _provenance_reality reaches provenance i, or has gone through all: the  *)
(* EPR is compiled and the writer verifies what was recorded.              *)
Reach(w, i) ==
  /\ turn' = [turn EXCEPT ![w] = i]
  /\ IF i \in Provenance
     THEN GoTo(w, "hold") /\ todo' = [todo EXCEPT ![w] = {}]
     ELSE GoTo(w, "verify") /\ todo' = [todo EXCEPT ![w] = recorded'[w]]

(* Every loop deals with the numbered files before the sidecars.           *)
InTurn(w, s) == s \in Sidecar => todo[w] \cap Numbered = {}

(* s is dealt with in the loop w is in; `next` follows the last source.    *)
Visit(w, s, next) ==
  /\ s \in todo[w]
  /\ todo' = [todo EXCEPT ![w] = @ \ {s}]
  /\ IF todo[w] = {s} THEN GoTo(w, next) ELSE UNCHANGED <<pc, failed>>

(* _read_numbered_source: parsed from the very buffer that is hashed.      *)
ReadNumbered(w, s) ==
  /\ pc[w] = "read"
  /\ s \in todo[w]
  /\ seen' = [seen EXCEPT ![w][s] = version[s]]
  /\ recorded' = [recorded EXCEPT ![w] = @ \cup {s}]
  /\ basis' = [basis EXCEPT ![w][s] = {version[s]}]
  /\ IF todo[w] = {s} THEN Reach(w, 1)
     ELSE todo' = [todo EXCEPT ![w] = @ \ {s}] /\ UNCHANGED <<pc, failed, turn>>
  /\ UNCHANGED <<version, files, held, verdict, asOf, author>>

(* _safe_sidecar(s) at label l: its bytes are in hand, then its validator  *)
(* has its files to read.                                                  *)
Hold(w, s, l, next) ==
  /\ pc[w] = l
  /\ held' = [held EXCEPT ![w][s] = version[s]]
  /\ basis' = [basis EXCEPT ![w][s] = {version[s]}]
  /\ todo' = [todo EXCEPT ![w] = Consults[s]]
  /\ GoTo(w, next)
  /\ UNCHANGED <<version, files, turn, recorded, seen, verdict, asOf, author>>

HoldSidecar(w) == Hold(w, Linking(w), "hold", "check")
HoldOwner(w)   == Hold(w, Owning(w), "holdOwner", "checkOwner")

(* One read of validate_evidence or validate_measurement_reference, of a   *)
(* file whose hash this read does not take.                                *)
CheckFile(w, own, s, l, next) ==
  /\ pc[w] = l
  /\ IF own \in todo[w] THEN s = own ELSE InTurn(w, s)
  /\ Visit(w, s, next)
  /\ basis' = [basis EXCEPT ![w][s] = @ \cup {version[s]}]
  /\ UNCHANGED <<version, files, turn, held, recorded, seen, verdict, asOf, author>>

CheckSidecar(w, s) ==
  CheckFile(w, Linking(w), s, "check", IF Owning(w) = Linking(w) THEN "commit" ELSE "holdOwner")

CheckOwner(w, s) == CheckFile(w, Owning(w), s, "checkOwner", "commitOwner")

(* Faulty variant: the file is read again for its hash.                    *)
Record_Reread(w, s) ==
  /\ recorded' = [recorded EXCEPT ![w] = @ \cup {s}]
  /\ seen' = [seen EXCEPT ![w][s] = version[s]]

(* snapshots[...] = hashlib.sha256(...): the hash of the bytes in hand.    *)
Record(w, s) ==
  /\ recorded' = [recorded EXCEPT ![w] = @ \cup {s}]
  /\ seen' = [seen EXCEPT ![w][s] = held[w][s]]

(* Faulty variant: a provenance that fails leaves no finding.              *)
Finding_Dropped(w, why) ==
  /\ UNCHANGED verdict
  /\ Reach(w, turn[w] + 1)

(* The except clause of the loop.                                          *)
Finding(w, why) ==
  /\ verdict' = [verdict EXCEPT ![w][turn[w]] = why]
  /\ Reach(w, turn[w] + 1)

(* The owning evidence is recorded, and may not own or bear this           *)
(* measurement: then the measurement itself is never recorded.             *)
CommitOwner(w) ==
  /\ pc[w] = "commitOwner"
  /\ Record(w, Owning(w))
  /\ \/ GoTo(w, "commit") /\ UNCHANGED <<todo, turn, verdict>>
     \/ Finding(w, "rejected")
  /\ UNCHANGED <<version, files, held, basis, asOf, author>>

(* The linked sidecar is recorded; it supports the provenance only if its  *)
(* bytes have the hash the authoring data declares.                        *)
CommitSidecar(w) ==
  /\ pc[w] = "commit"
  /\ Record(w, Linking(w))
  /\ \/ held[w][Linking(w)] = Declares[author[w]][turn[w]] /\ Finding(w, "supported")
     \/ Finding(w, "rejected")
  /\ UNCHANGED <<version, files, held, basis, asOf, author>>

(* A read of _safe_sidecar or of a validator raises.                       *)
SidecarError(w) ==
  /\ pc[w] \in {"hold", "check", "holdOwner", "checkOwner"}
  /\ UNCHANGED <<version, files, held, recorded, seen, basis, asOf, author>>
  /\ Finding(w, "unreadable")

(* Faulty variant: the hashes are computed but not compared.               *)
AssertSourceFresh_Uncompared(w, s, l, next, abort) ==
  /\ pc[w] = l
  /\ InTurn(w, s)
  /\ Visit(w, s, next)
  /\ UNCHANGED <<version, files, epr>>

(* One turn of the loops of _assert_sources_fresh, at step l: a changed    *)
(* source aborts the call.                                                 *)
AssertSourceFresh(w, s, l, next, abort) ==
  /\ pc[w] = l
  /\ InTurn(w, s)
  /\ \/ version[s] = seen[w][s] /\ Visit(w, s, next)
     \/ version[s] # seen[w][s] /\ s \in todo[w] /\ Fail(w, abort) /\ UNCHANGED todo
  /\ UNCHANGED <<version, files, epr>>

(* The first _assert_sources_fresh, before anything is written.            *)
VerifySource(w, s) == AssertSourceFresh(w, s, "verify", "existing", "done")

(* Faulty variant: an existing target is success whatever it holds.        *)
CheckExisting_AnyBytes(w) ==
  /\ pc[w] = "existing"
  /\ IF target = NoFile THEN GoTo(w, "mkstemp") ELSE GoTo(w, "done")
  /\ UNCHANGED <<version, files, todo, epr>>

(* _ensure_safe_writer_directories, then the existing target: the same     *)
(* bytes are success, different bytes an error.                            *)
CheckExisting(w) ==
  /\ pc[w] = "existing"
  /\ \/ target = NoFile /\ GoTo(w, "mkstemp")
     \/ target # NoFile /\ Epr(target) = Epr(w) /\ GoTo(w, "done")
     \/ target # NoFile /\ Epr(target) # Epr(w) /\ Fail(w, "done")
  /\ UNCHANGED <<version, files, todo, epr>>

CreateTemporary(w) ==
  /\ pc[w] = "mkstemp"
  /\ temp' = temp \cup {w}
  /\ GoTo(w, "write")
  /\ UNCHANGED <<version, target, bytes, entryLost, todo, epr>>

WriteTemporary(w) ==
  /\ pc[w] = "write"
  /\ bytes' = [bytes EXCEPT ![w] = "cached"]
  /\ GoTo(w, "sync")
  /\ UNCHANGED <<version, target, temp, entryLost, todo, epr>>

(* Faulty variant: no fsync.                                               *)
SyncTemporary_NoSync(w) ==
  /\ pc[w] = "sync"
  /\ asOf' = [asOf EXCEPT ![w] = version]
  /\ todo' = [todo EXCEPT ![w] = recorded[w]]
  /\ GoTo(w, "reverify")
  /\ UNCHANGED <<version, files, readings, author>>

(* os.fsync, after which the last pass over the sources begins.            *)
SyncTemporary(w) ==
  /\ pc[w] = "sync"
  /\ bytes' = [bytes EXCEPT ![w] = "durable"]
  /\ asOf' = [asOf EXCEPT ![w] = version]
  /\ todo' = [todo EXCEPT ![w] = recorded[w]]
  /\ GoTo(w, "reverify")
  /\ UNCHANGED <<version, target, temp, entryLost, readings, author>>

(* The second _assert_sources_fresh, immediately before publication.       *)
ReverifySource(w, s) == AssertSourceFresh(w, s, "reverify", "link", "cleanup")

(* os.link never replaces an existing name.                                *)
LinkTemporary(w) ==
  /\ pc[w] = "link"
  /\ \/ target = NoFile /\ target' = w /\ GoTo(w, "cleanup")
     \/ target # NoFile /\ GoTo(w, "collide") /\ UNCHANGED target
  /\ UNCHANGED <<version, temp, bytes, entryLost, todo, epr>>

(* FileExistsError: the target must be a file with the same bytes.         *)
Collide(w) ==
  /\ pc[w] = "collide"
  /\ IF target # NoFile /\ Epr(target) = Epr(w) THEN GoTo(w, "cleanup") ELSE Fail(w, "cleanup")
  /\ UNCHANGED <<version, files, todo, epr>>

(* `finally`: the temporary name is unlinked; the call returns or raises.  *)
Cleanup(w) ==
  /\ pc[w] = "cleanup"
  /\ temp' = temp \ {w}
  /\ GoTo(w, "done")
  /\ UNCHANGED <<version, target, bytes, entryLost, todo, epr>>

Step(w) ==
  \/ \E s \in Source : \/ ReadNumbered(w, s) \/ CheckSidecar(w, s) \/ CheckOwner(w, s)
                       \/ VerifySource(w, s) \/ ReverifySource(w, s)
  \/ HoldSidecar(w) \/ HoldOwner(w) \/ CommitOwner(w) \/ CommitSidecar(w) \/ SidecarError(w)
  \/ CheckExisting(w) \/ CreateTemporary(w) \/ WriteTemporary(w) \/ SyncTemporary(w)
  \/ LinkTemporary(w) \/ Collide(w) \/ Cleanup(w)

-----------------------------------------------------------------------------
(* Somebody edits a case file or a sidecar.                                *)
EditSource(s) ==
  /\ version[s] < MaxEdits
  /\ version' = [version EXCEPT ![s] = @ + 1]
  /\ UNCHANGED <<files, pc, todo, epr, failed>>

(* A system call fails, or the compiler meets what the loop over the       *)
(* provenances does not catch and emits no EPR.  Once the temporary file   *)
(* exists `finally` removes it; a failure in `finally` itself leaves it.   *)
IoError(w) ==
  /\ \/ pc[w] \in Compiling /\ Fail(w, "uncompiled")
     \/ pc[w] \in {"verify", "existing", "mkstemp", "cleanup"} /\ Fail(w, "done")
     \/ pc[w] \in {"write", "sync", "reverify", "link", "collide"} /\ Fail(w, "cleanup")
  /\ bytes' = [bytes EXCEPT ![w] = IF pc[w] = "write" THEN "torn" ELSE @]
  /\ UNCHANGED <<version, target, temp, entryLost, todo, epr>>

(* The process of one call is killed.                                      *)
Crash(w) ==
  /\ Running(w)
  /\ GoTo(w, Killed(w))
  /\ UNCHANGED <<version, files, todo, epr>>

(* The machine stops: content that was not synced is lost, and the link    *)
(* may be, because the directory is never synced.                          *)
PowerLoss ==
  /\ \E w \in Writer : Running(w)
  /\ pc' = [w \in Writer |-> IF Running(w) THEN Killed(w) ELSE pc[w]]
  /\ bytes' = [w \in Writer |-> IF bytes[w] = "cached" THEN "torn" ELSE bytes[w]]
  /\ target' \in {target, NoFile}
  /\ entryLost' = (entryLost \/ target' # target)
  /\ UNCHANGED <<version, temp, todo, epr, failed>>

Next ==
  \/ \E w \in Writer : Compile(w) \/ Step(w) \/ IoError(w) \/ Crash(w)
  \/ \E s \in Source : EditSource(s)
  \/ PowerLoss

Spec == Init /\ [][Next]_vars

-----------------------------------------------------------------------------
Succeeded(w) == pc[w] = "done" /\ ~failed[w]

(* "Persist one EPR atomically": the linked file is complete at every      *)
(* moment and after a power loss.                                          *)
PublishedComplete == target # NoFile => bytes[target] \notin {"empty", "torn"}

(* Provenance i is the last to record the sidecar it refers to.            *)
RecordsLast(i) ==
  \A j \in Provenance :
    j > i => Linked[i].sidecar \notin {Linked[j].sidecar, Linked[j].owner}

(* "Source changes between compile and write: stale-source failure; no     *)
(* emit."  The sources are read one by one while they are edited, and a    *)
(* provenance may fail half way.  What is recorded by a published EPR was, *)
(* all together, the case at the instant the last pass began.  The         *)
(* numbered files are always recorded.  A provenance without a finding has *)
(* its sidecar and its owner recorded, and the hash it declares was that   *)
(* of its sidecar at the instant, unless a later provenance has recorded   *)
(* the same sidecar once more.                                             *)
SnapshotFresh ==
  target # NoFile =>
    /\ \A s \in recorded[target] : seen[target][s] = asOf[target][s]
    /\ Numbered \subseteq recorded[target]
    /\ \A i \in Provenance : verdict[target][i] = "supported" =>
         /\ {Linked[i].sidecar, Linked[i].owner} \subseteq recorded[target]
         /\ RecordsLast(i) => asOf[target][Linked[i].sidecar] = Declares[author[target]][i]

(* "Idempotently, and without overwrite": the EPR that is there is the one *)
(* a successful call compiled, whether the call linked it or found it, and *)
(* whoever else has called since, failed or been killed.                   *)
SuccessBacked ==
  \A w \in Writer :
    Succeeded(w) /\ ~entryLost => target # NoFile /\ Epr(target) = Epr(w)

(* "parses from the same byte buffers it hashes": the verdicts of an EPR   *)
(* rest on several reads of one sidecar, of which one is hashed.  Whatever *)
(* a published EPR records, no read of it since the one that was hashed    *)
(* saw other bytes.  (A read before it may have: the validator of a        *)
(* measurement reads the owning evidence that is hashed only afterwards.)  *)
RecordsItsBasis ==
  target # NoFile => \A s \in recorded[target] : basis[target][s] = {seen[target][s]}

-----------------------------------------------------------------------------
(* The writer implements the write-once store as long as no power loss     *)
(* undoes the link.  A compiled EPR is submitted once nothing can change   *)
(* it any more.                                                            *)
Stored == IF target = NoFile THEN NoEpr ELSE Epr(target)

Wants == [w \in Writer |-> IF pc[w] \in Compiling \cup {"compile", "uncompiled"}
                           THEN NoEpr ELSE Epr(w)]

Reply == [w \in Writer |-> IF Succeeded(w) THEN "accepted"
                           ELSE IF pc[w] = "done" THEN "refused" ELSE "waiting"]

Content == [authoring : Authoring, sources : [Numbered -> 0..MaxEdits],
            findings : [Provenance -> Verdict]]

ASSUME EprAssumption == NoEpr \notin Content

Store ==
  INSTANCE WriteOnceStore WITH
    Caller <- Writer, Nothing <- NoEpr,
    stored <- Stored, wants <- Wants, reply <- Reply

ImplementsWriteOnceStore == Store!Spec
=============================================================================
