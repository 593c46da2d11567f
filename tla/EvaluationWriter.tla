-------------------------- MODULE EvaluationWriter --------------------------
(***************************************************************************)
(* Concurrent calls of write_engineering_evaluation_result, and of         *)
(* load_engineering_evaluation_result, for ONE evaluation ID of one case   *)
(* (labos/engineering/evaluation_binding.py).                              *)
(*                                                                         *)
(* The pathname cases/<case>/engineering/evaluations is bound to a         *)
(* directory object, and replacing a directory on the way rebinds it.  A   *)
(* writer verifies the object it saw (evalDir) again and again, and        *)
(* publishes and rolls back relative to a descriptor of that object.  The  *)
(* file object a writer creates is named after the writer: temp[w] is the  *)
(* directory holding its temporary name, and target[d] = w says that       *)
(* <evaluation_id>.json in directory d is a link to it.                    *)
(*                                                                         *)
(* The EPR file is abstracted to a version: an edit makes a version never  *)
(* seen before (new bytes, or the same bytes in another file object, which *)
(* the writer also rejects).                                               *)
(***************************************************************************)
EXTENDS Naturals

CONSTANTS Writer,    \* calls of the writer
          Eer,       \* canonical bytes of evaluation results with this ID
          Dir,       \* directory objects
          NoDir,     \* the pathname does not exist; a name that is not linked
          NoFile,    \* no directory entry <evaluation_id>.json
          NoEer,     \* a call that has not been made
          MaxEdits,  \* bound on edits of the EPR file
          Budget     \* bound on each kind of incident

(* What the environment may do to a call: replace the directory behind the *)
(* pathname, fail a system call before the link or after it, delete the    *)
(* published file, kill the process, cut the power.                        *)
Incident == {"swap", "io", "readback", "removal", "crash", "powerloss"}

ASSUME SentinelAssumption == NoDir \notin Dir /\ NoFile \notin Writer /\ NoEer \notin Eer
ASSUME BoundAssumption    == MaxEdits \in Nat /\ Budget \in [Incident -> Nat]

VARIABLES
  epr,          \* version of the canonical EPR file
  evaluations,  \* directory object the pathname engineering/evaluations names
  target,       \* per directory: the file object linked at <evaluation_id>.json
  temp,         \* per writer: directory that holds its temporary name
  bytes,        \* per file object: how much of its content is in the file
  used,         \* incidents so far
  loaded        \* evaluation results readers have returned

VARIABLES       \* local state of a call
  pc,           \* the next step
  eer,          \* evaluation_result, as canonical bytes
  bound,        \* EPR version in bound_plan
  evalDir,      \* the verified `evaluations` directory (and its descriptor)
  created,      \* created_target_link
  valid,        \* valid_target_present
  raised        \* the exception that will surface, "no" if none

files == <<epr, evaluations, target, temp, bytes>>
call  == <<eer, bound, evalDir>>
vars  == <<epr, evaluations, target, temp, bytes, used, loaded,
           pc, eer, bound, evalDir, created, valid, raised>>

Label == {"plan", "rebind", "mkdir", "existing", "mkstemp", "checktemp",
          "write", "sync", "checkdirs", "checkfresh", "link", "collide",
          "readback", "settle", "inspect", "unlink", "confirm", "cleanup",
          "done", "crashed"}

TypeOK ==
  /\ epr \in 0..MaxEdits
  /\ evaluations \in Dir \cup {NoDir}
  /\ target \in [Dir -> Writer \cup {NoFile}]
  /\ temp \in [Writer -> Dir \cup {NoDir}]
  /\ bytes \in [Writer -> {"empty", "torn", "cached", "durable"}]
  /\ used \in [Incident -> Nat]
  /\ loaded \subseteq Eer \cup {NoEer}
  /\ pc \in [Writer -> Label]
  /\ eer \in [Writer -> Eer \cup {NoEer}]
  /\ bound \in [Writer -> 0..MaxEdits]
  /\ evalDir \in [Writer -> Dir \cup {NoDir}]
  /\ created \in [Writer -> BOOLEAN]
  /\ valid \in [Writer -> BOOLEAN]
  /\ raised \in [Writer -> {"no", "operation", "rollback", "cleanup"}]

Init ==
  /\ epr = 0
  /\ evaluations \in Dir \cup {NoDir}
  /\ target = [d \in Dir |-> NoFile]
  /\ temp = [w \in Writer |-> NoDir]
  /\ bytes = [w \in Writer |-> "empty"]
  /\ used = [i \in Incident |-> 0]
  /\ loaded = {}
  /\ pc = [w \in Writer |-> "plan"]
  /\ eer = [w \in Writer |-> NoEer]
  /\ bound = [w \in Writer |-> 0]
  /\ evalDir = [w \in Writer |-> NoDir]
  /\ created = [w \in Writer |-> FALSE]
  /\ valid = [w \in Writer |-> FALSE]
  /\ raised = [w \in Writer |-> "no"]

-----------------------------------------------------------------------------
(* What a call sees through the pathname.                                  *)

TargetAtPath == IF evaluations = NoDir THEN NoFile ELSE target[evaluations]

(* _assert_directory_identity on case, engineering and evaluations.        *)
DirectoryIntact(w) == evaluations = evalDir[w]

TemporaryIntact(w) == temp[w] = evaluations

(* Faulty variant: any complete file counts as the same result.            *)
SameBytes_AnyBytes(w, o) == bytes[o] \in {"cached", "durable"}

(* Reading the file object o returns exactly the bytes w would write.      *)
SameBytes(w, o) == bytes[o] \in {"cached", "durable"} /\ eer[o] = eer[w]

Running(w) == pc[w] \notin {"plan", "done", "crashed"}

(* How a call moves on: to its next step, or out with an exception.  Up to *)
(* mkstemp nothing has to be undone; from there on the `except` clause     *)
(* rolls back a link this call created, and `finally` cleans up.           *)

GoTo(w, l) == pc' = [pc EXCEPT ![w] = l] /\ UNCHANGED raised

Raise(w, l) ==
  /\ pc' = [pc EXCEPT ![w] = l]
  /\ raised' = [raised EXCEPT ![w] = "operation"]

Abort(w) == Raise(w, "done")

(* Faulty variant: the `except` clause forgets the link it created.        *)
Recover_NoRollback(w) == Raise(w, "cleanup")

Recover(w) == Raise(w, IF created[w] THEN "inspect" ELSE "cleanup")

Spend(i) == used[i] < Budget[i] /\ used' = [used EXCEPT ![i] = @ + 1]

-----------------------------------------------------------------------------
(* Faulty variant: the binding is off by one version.                      *)
BindPlan_NextVersion(w, v) ==
  /\ pc[w] = "plan"
  /\ eer' = [eer EXCEPT ![w] = v]
  /\ bound' = [bound EXCEPT ![w] = epr + 1]
  /\ GoTo(w, "rebind")
  /\ UNCHANGED <<files, used, loaded, evalDir, created, valid>>

(* bind_evaluation_plan: the plan is bound to the EPR file as it is now,   *)
(* and evaluated to a result.                                              *)
BindPlan(w, v) ==
  /\ pc[w] = "plan"
  /\ eer' = [eer EXCEPT ![w] = v]
  /\ bound' = [bound EXCEPT ![w] = epr]
  /\ GoTo(w, "rebind")
  /\ UNCHANGED <<files, used, loaded, evalDir, created, valid>>

(* _independently_rebind, _validate_writer_binding and the first           *)
(* _assert_epr_fresh: the EPR file must be the one the plan was bound to.  *)
Rebind(w) ==
  /\ pc[w] = "rebind"
  /\ IF epr = bound[w] THEN GoTo(w, "mkdir") ELSE Abort(w)
  /\ UNCHANGED <<files, used, loaded, call, created, valid>>

(* A directory object nobody has seen: what os.mkdir creates.              *)
Fresh(d) ==
  /\ d # evaluations
  /\ target[d] = NoFile
  /\ \A w \in Writer : temp[w] # d /\ evalDir[w] # d

(* Faulty variant: the directory is recorded before it is created.         *)
MakeDirectory_Early(w) ==
  /\ pc[w] = "mkdir"
  /\ \/ evaluations # NoDir /\ UNCHANGED evaluations
     \/ evaluations = NoDir /\ \E d \in Dir : Fresh(d) /\ evaluations' = d
  /\ evalDir' = [evalDir EXCEPT ![w] = evaluations]
  /\ GoTo(w, "existing")
  /\ UNCHANGED <<epr, target, temp, bytes, used, loaded, eer, bound, created, valid>>

(* _safe_directory(engineering, "evaluations", create=True)                *)
MakeDirectory(w) ==
  /\ pc[w] = "mkdir"
  /\ \/ evaluations # NoDir /\ UNCHANGED evaluations
     \/ evaluations = NoDir /\ \E d \in Dir : Fresh(d) /\ evaluations' = d
  /\ evalDir' = [evalDir EXCEPT ![w] = evaluations']
  /\ GoTo(w, "existing")
  /\ UNCHANGED <<epr, target, temp, bytes, used, loaded, eer, bound, created, valid>>

(* _existing_target before anything is written, then                       *)
(* _open_directory_descriptor: a target with the same bytes is success,    *)
(* one with different bytes is an error.                                   *)
CheckExisting(w) ==
  LET o == TargetAtPath
  IN /\ pc[w] = "existing"
     /\ \/ o # NoFile /\ DirectoryIntact(w) /\ SameBytes(w, o) /\ GoTo(w, "done")
        \/ o # NoFile /\ ~(DirectoryIntact(w) /\ SameBytes(w, o)) /\ Abort(w)
        \/ o = NoFile /\ DirectoryIntact(w) /\ GoTo(w, "mkstemp")
        \/ o = NoFile /\ ~DirectoryIntact(w) /\ Abort(w)
     /\ UNCHANGED <<files, used, loaded, call, created, valid>>

(* tempfile.mkstemp creates the temporary name in whatever directory the   *)
(* pathname names now.                                                     *)
CreateTemporary(w) ==
  /\ pc[w] = "mkstemp"
  /\ \/ evaluations = NoDir /\ Recover(w) /\ UNCHANGED temp
     \/ /\ evaluations # NoDir
        /\ temp' = [temp EXCEPT ![w] = evaluations]
        /\ GoTo(w, "checktemp")
  /\ UNCHANGED <<epr, evaluations, target, bytes, used, loaded, call, created, valid>>

(* The identity of the temporary file is taken from its descriptor, then   *)
(* its pathname and the directories are verified.                          *)
CheckTemporary(w) ==
  /\ pc[w] = "checktemp"
  /\ IF TemporaryIntact(w) /\ DirectoryIntact(w) THEN GoTo(w, "write") ELSE Recover(w)
  /\ UNCHANGED <<files, used, loaded, call, created, valid>>

(* stream.write and stream.flush.                                          *)
WriteTemporary(w) ==
  /\ pc[w] = "write"
  /\ bytes' = [bytes EXCEPT ![w] = "cached"]
  /\ GoTo(w, "sync")
  /\ UNCHANGED <<epr, evaluations, target, temp, used, loaded, call, created, valid>>

(* Faulty variant: no fsync.                                               *)
SyncTemporary_NoSync(w) ==
  /\ pc[w] = "sync"
  /\ GoTo(w, "checkdirs")
  /\ UNCHANGED <<files, used, loaded, call, created, valid>>

(* os.fsync of the temporary file.                                         *)
SyncTemporary(w) ==
  /\ pc[w] = "sync"
  /\ bytes' = [bytes EXCEPT ![w] = "durable"]
  /\ GoTo(w, "checkdirs")
  /\ UNCHANGED <<epr, evaluations, target, temp, used, loaded, call, created, valid>>

(* The directories and the temporary pathname, verified once more.         *)
CheckDirectories(w) ==
  /\ pc[w] = "checkdirs"
  /\ IF DirectoryIntact(w) /\ TemporaryIntact(w) THEN GoTo(w, "checkfresh") ELSE Recover(w)
  /\ UNCHANGED <<files, used, loaded, call, created, valid>>

(* Faulty variant: freshness is not checked again.                         *)
CheckFresh_Skipped(w) ==
  /\ pc[w] = "checkfresh"
  /\ GoTo(w, "link")
  /\ UNCHANGED <<files, used, loaded, call, created, valid>>

(* The second _assert_epr_fresh, immediately before publication.           *)
CheckFresh(w) ==
  /\ pc[w] = "checkfresh"
  /\ IF epr = bound[w] THEN GoTo(w, "link") ELSE Recover(w)
  /\ UNCHANGED <<files, used, loaded, call, created, valid>>

(* Faulty variant: os.replace instead of os.link.                          *)
LinkTemporary_Replace(w) ==
  LET d == evalDir[w]
  IN /\ pc[w] = "link"
     /\ \/ temp[w] # d /\ Recover(w) /\ UNCHANGED <<target, created>>
        \/ /\ temp[w] = d
           /\ target' = [target EXCEPT ![d] = w]
           /\ created' = [created EXCEPT ![w] = TRUE]
           /\ GoTo(w, "readback")
     /\ UNCHANGED <<epr, evaluations, temp, bytes, used, loaded, call, valid>>

(* _link_temporary: os.link relative to the descriptor, which fails when   *)
(* the name exists and never replaces it.                                  *)
LinkTemporary(w) ==
  LET d == evalDir[w]
  IN /\ pc[w] = "link"
     /\ \/ temp[w] # d /\ Recover(w) /\ UNCHANGED <<target, created>>
        \/ temp[w] = d /\ target[d] # NoFile /\ GoTo(w, "collide") /\ UNCHANGED <<target, created>>
        \/ /\ temp[w] = d
           /\ target[d] = NoFile
           /\ target' = [target EXCEPT ![d] = w]
           /\ created' = [created EXCEPT ![w] = TRUE]
           /\ GoTo(w, "readback")
     /\ UNCHANGED <<epr, evaluations, temp, bytes, used, loaded, call, valid>>

(* FileExistsError: the existing target, read through the pathname, must   *)
(* hold the same bytes; if it is gone the call fails.                      *)
Collide(w) ==
  LET o == TargetAtPath
  IN /\ pc[w] = "collide"
     /\ IF o # NoFile /\ DirectoryIntact(w) /\ SameBytes(w, o) THEN GoTo(w, "settle") ELSE Recover(w)
     /\ UNCHANGED <<files, used, loaded, call, created, valid>>

(* The published file is read back: same bytes, and the writer's own file. *)
ReadBack(w) ==
  LET o == TargetAtPath
  IN /\ pc[w] = "readback"
     /\ IF DirectoryIntact(w) /\ o = w /\ SameBytes(w, o) THEN GoTo(w, "settle") ELSE Recover(w)
     /\ UNCHANGED <<files, used, loaded, call, created, valid>>

(* The directories are verified a last time and valid_target_present set.  *)
Settle(w) ==
  /\ pc[w] = "settle"
  /\ IF DirectoryIntact(w)
     THEN GoTo(w, "cleanup") /\ valid' = [valid EXCEPT ![w] = TRUE]
     ELSE Recover(w) /\ UNCHANGED valid
  /\ UNCHANGED <<files, used, loaded, call, created>>

-----------------------------------------------------------------------------
(* _rollback_created_target: stat, unlink and stat again, all relative to  *)
(* the directory descriptor.                                               *)

RollbackFailed(w) ==
  /\ pc' = [pc EXCEPT ![w] = "cleanup"]
  /\ raised' = [raised EXCEPT ![w] = "rollback"]
  /\ UNCHANGED created

RolledBack(w) == GoTo(w, "cleanup") /\ created' = [created EXCEPT ![w] = FALSE]

RollbackInspect(w) ==
  LET o == target[evalDir[w]]
  IN /\ pc[w] = "inspect"
     /\ \/ o = NoFile /\ RolledBack(w)
        \/ o \notin {NoFile, w} /\ RollbackFailed(w)
        \/ o = w /\ GoTo(w, "unlink") /\ UNCHANGED created
     /\ UNCHANGED <<files, used, loaded, call, valid>>

(* Faulty variant: the target is unlinked through the pathname.            *)
RollbackUnlink_ByPathname(w) ==
  /\ pc[w] = "unlink"
  /\ IF TargetAtPath = NoFile
     THEN RollbackFailed(w) /\ UNCHANGED target
     ELSE /\ target' = [target EXCEPT ![evaluations] = NoFile]
          /\ GoTo(w, "confirm")
          /\ UNCHANGED created
  /\ UNCHANGED <<epr, evaluations, temp, bytes, used, loaded, call, valid>>

RollbackUnlink(w) ==
  /\ pc[w] = "unlink"
  /\ IF target[evalDir[w]] = NoFile
     THEN RollbackFailed(w) /\ UNCHANGED target
     ELSE /\ target' = [target EXCEPT ![evalDir[w]] = NoFile]
          /\ GoTo(w, "confirm")
          /\ UNCHANGED created
  /\ UNCHANGED <<epr, evaluations, temp, bytes, used, loaded, call, valid>>

(* Faulty variant: a name that exists again is waited out.                 *)
RollbackConfirm_Waits(w) ==
  /\ pc[w] = "confirm"
  /\ target[evalDir[w]] = NoFile
  /\ RolledBack(w)
  /\ UNCHANGED <<files, used, loaded, call, valid>>

RollbackConfirm(w) ==
  /\ pc[w] = "confirm"
  /\ IF target[evalDir[w]] = NoFile THEN RolledBack(w) ELSE RollbackFailed(w)
  /\ UNCHANGED <<files, used, loaded, call, valid>>

(* Faulty variant: only the descriptor is consulted.                       *)
CleanupTemporary_ByDescriptor(w) ==
  /\ pc[w] = "cleanup"
  /\ temp' = [temp EXCEPT ![w] = IF @ = evalDir[w] THEN NoDir ELSE @]
  /\ GoTo(w, "done")
  /\ UNCHANGED <<epr, evaluations, target, bytes, used, loaded, call, created, valid>>

(* _cleanup_temporary: unlink the temporary name relative to the           *)
(* descriptor, or else through the pathname; a name found in neither place *)
(* is taken to be gone already.  The call then returns or raises.          *)
CleanupTemporary(w) ==
  /\ pc[w] = "cleanup"
  /\ temp' = [temp EXCEPT ![w] = IF @ \in {evalDir[w], evaluations} THEN NoDir ELSE @]
  /\ GoTo(w, "done")
  /\ UNCHANGED <<epr, evaluations, target, bytes, used, loaded, call, created, valid>>

Step(w) ==
  \/ Rebind(w) \/ MakeDirectory(w) \/ CheckExisting(w) \/ CreateTemporary(w)
  \/ CheckTemporary(w) \/ WriteTemporary(w) \/ SyncTemporary(w)
  \/ CheckDirectories(w) \/ CheckFresh(w) \/ LinkTemporary(w) \/ Collide(w)
  \/ ReadBack(w) \/ Settle(w)
  \/ RollbackInspect(w) \/ RollbackUnlink(w) \/ RollbackConfirm(w)
  \/ CleanupTemporary(w)

-----------------------------------------------------------------------------
(* load_engineering_evaluation_result: a complete, canonical result read   *)
(* through the pathname.                                                   *)
Load ==
  LET o == TargetAtPath
  IN /\ o # NoFile
     /\ bytes[o] \in {"cached", "durable"}
     /\ loaded' = loaded \cup {eer[o]}
     /\ UNCHANGED <<files, used, pc, call, created, valid, raised>>

(* The EPR file is edited or replaced.                                     *)
EditEpr ==
  /\ epr < MaxEdits
  /\ epr' = epr + 1
  /\ UNCHANGED <<evaluations, target, temp, bytes, used, loaded, pc, call, created, valid, raised>>

(* The case, engineering or evaluations directory is renamed away, and     *)
(* perhaps another one, or an earlier one, put in its place.               *)
SwapDirectory(d) ==
  /\ Spend("swap")
  /\ d # evaluations
  /\ evaluations' = d
  /\ UNCHANGED <<epr, target, temp, bytes, loaded, pc, call, created, valid, raised>>

(* Somebody deletes the published file.                                    *)
RemoveTarget(d) ==
  /\ Spend("removal")
  /\ target[d] # NoFile
  /\ target' = [target EXCEPT ![d] = NoFile]
  /\ UNCHANGED <<epr, evaluations, temp, bytes, loaded, pc, call, created, valid, raised>>

(* A system call fails before publication.  A failed write leaves the      *)
(* temporary file torn; a failed fstat leaves it without an identity, and  *)
(* `finally` then does not touch it.                                       *)
IoError(w) ==
  /\ Spend("io")
  /\ \/ pc[w] \in {"rebind", "mkdir", "existing", "checktemp"} /\ Abort(w) /\ UNCHANGED bytes
     \/ pc[w] \in {"mkstemp", "checktemp", "sync", "checkdirs", "checkfresh", "link",
                    "collide"}
        /\ Recover(w) /\ UNCHANGED bytes
     \/ pc[w] = "write" /\ Recover(w) /\ bytes' = [bytes EXCEPT ![w] = "torn"]
  /\ UNCHANGED <<epr, evaluations, target, temp, loaded, call, created, valid>>

(* A system call fails in the final cleanup: the temporary name may stay,  *)
(* and a rollback error takes precedence over a cleanup error.             *)
CleanupError(w) ==
  /\ pc[w] = "cleanup"
  /\ Spend("io")
  /\ pc' = [pc EXCEPT ![w] = "done"]
  /\ raised' = [raised EXCEPT ![w] = IF @ = "rollback" THEN @ ELSE "cleanup"]
  /\ temp' \in {temp, [temp EXCEPT ![w] = NoDir]}
  /\ UNCHANGED <<epr, evaluations, target, bytes, loaded, call, created, valid>>

(* A system call fails after the link: in the verification of the target,  *)
(* or in the rollback.                                                     *)
ReadBackError(w) ==
  /\ Spend("readback")
  /\ \/ pc[w] \in {"readback", "settle"} /\ Recover(w) /\ UNCHANGED created
     \/ pc[w] \in {"inspect", "unlink", "confirm"} /\ RollbackFailed(w)
  /\ UNCHANGED <<files, loaded, call, valid>>

(* The process of one call is killed.                                      *)
Crash(w) ==
  /\ Spend("crash")
  /\ Running(w)
  /\ pc' = [pc EXCEPT ![w] = "crashed"]
  /\ UNCHANGED <<files, loaded, call, created, valid, raised>>

(* The machine stops: every running call ends, content that was not synced *)
(* may be lost, and so may directory entries, which are never synced.      *)
PowerLoss ==
  /\ Spend("powerloss")
  /\ pc' = [w \in Writer |-> IF Running(w) THEN "crashed" ELSE pc[w]]
  /\ \E lost \in SUBSET Dir :
       target' = [d \in Dir |-> IF d \in lost THEN NoFile ELSE target[d]]
  /\ \E torn \in SUBSET {w \in Writer : bytes[w] = "cached"} :
       bytes' = [w \in Writer |-> IF w \in torn THEN "torn" ELSE bytes[w]]
  /\ UNCHANGED <<epr, evaluations, temp, loaded, call, created, valid, raised>>

Environment ==
  \/ EditEpr
  \/ \E d \in Dir \cup {NoDir} : SwapDirectory(d)
  \/ \E d \in Dir : RemoveTarget(d)
  \/ \E w \in Writer : IoError(w) \/ CleanupError(w) \/ ReadBackError(w) \/ Crash(w)
  \/ PowerLoss

Next ==
  \/ \E w \in Writer : Step(w) \/ \E v \in Eer : BindPlan(w, v)
  \/ Load
  \/ Environment

Spec == Init /\ [][Next]_vars

(* A call that runs keeps running: the code is straight-line and blocks on *)
(* nothing.  Nobody is obliged to make a call, to load or to interfere.    *)
FairSpec == Spec /\ \A w \in Writer : WF_vars(Step(w))

-----------------------------------------------------------------------------
(* A call has reported success: it returned the target path.               *)
Succeeded(w) == pc[w] = "done" /\ raised[w] = "no"

(* "Persist one EER atomically": whatever links <evaluation_id>.json names *)
(* holds a complete result, at every moment and after a power loss.        *)
PublishedComplete ==
  \A d \in Dir :
    target[d] # NoFile => bytes[target[d]] \notin {"empty", "torn"}

(* "Without overwrite": a published file is never replaced in one step by  *)
(* another, whoever takes the step.                                        *)
NoClobber ==
  [][\A d \in Dir : target[d] # NoFile => target'[d] \in {target[d], NoFile}]_vars

(* A directory entry goes away only by the rollback of the very call that  *)
(* created it (or by a power loss), unless somebody deleted a published    *)
(* file.  In particular a rollback that runs after the directory was       *)
(* replaced never removes the result of another call.                      *)
OnlyOwnLinkRemoved ==
  [][\A d \in Dir :
       /\ target[d] # NoFile
       /\ target'[d] = NoFile
       /\ used'["removal"] = 0
       /\ used'["powerloss"] = used["powerloss"]
       => d = evalDir[target[d]] /\ pc[target[d]] = "unlink"]_vars

(* A call that published its own file and reported success keeps it: no    *)
(* fault, crash or directory replacement makes another call remove it.     *)
CreatedSuccessKept ==
  \A w \in Writer :
    Succeeded(w) /\ created[w] /\ used["removal"] = 0 /\ used["powerloss"] = 0
      => target[evalDir[w]] = w

(* "A failed write must leave no partial target": a call that raised an    *)
(* ordinary error before the result was verified left no link behind.      *)
(* Only the error that says the residual state requires inspection (raised *)
(* "rollback") and a killed process may leave one.                         *)
FailedLeavesNoTarget ==
  \A w \in Writer :
    pc[w] = "done" /\ raised[w] \in {"operation", "cleanup"} /\ ~valid[w]
      => \A d \in Dir : target[d] # w

(* A finished call leaves no temporary name behind although the directory  *)
(* was replaced once in between: the clean-up looks both behind the        *)
(* descriptor and behind the pathname.  (A second replacement can hide the *)
(* directory that mkstemp used, and a failed system call can defeat it.)   *)
TemporaryRemoved ==
  \A w \in Writer :
    pc[w] = "done" /\ used["swap"] <= 1 /\ used["io"] = 0 => temp[w] = NoDir

(* Success is the truth as long as no published file can be withdrawn: the *)
(* directory the call verified holds a result with its bytes, whether the  *)
(* call published it or found it.                                          *)
SuccessBacked ==
  \A w \in Writer :
    Succeeded(w) =>
      /\ target[evalDir[w]] # NoFile
      /\ eer[target[evalDir[w]]] = eer[w]

(* All readers of an evaluation ID ever get the same result, and it is the *)
(* one that successful writers wrote.                                      *)
ReadersAgree ==
  /\ \A v1, v2 \in loaded : v1 = v2
  /\ \A w \in Writer : Succeeded(w) => loaded \subseteq {eer[w]}

(* "If the EPR changed between planning/evaluation and persistence,        *)
(* persistence must abort": a call whose EPR has changed before the second *)
(* freshness check never publishes its result.                             *)
StaleNeverPublished ==
  \A w \in Writer :
    [](/\ pc[w] \in {"rebind", "mkdir", "existing", "mkstemp", "checktemp",
                     "write", "sync", "checkdirs", "checkfresh"}
       /\ epr # bound[w]
       => [](\A d \in Dir : target[d] # w))

(* Every call ends: it returns, raises or is killed.                       *)
CallsEnd == \A w \in Writer : Running(w) ~> ~Running(w)

(* Once a call is made and nothing interferes (the EPR stays as it was     *)
(* bound and no incident happens), some result gets published under the    *)
(* ID: calls never block each other out.                                   *)
Undisturbed == epr = 0 /\ \A i \in Incident : used[i] = 0
EventuallyPublished ==
  (\E w \in Writer : Running(w))
    ~> (~Undisturbed \/ \E d \in Dir : target[d] # NoFile)

-----------------------------------------------------------------------------
(* The writer implements the write-once store as long as nothing makes a   *)
(* writer withdraw what it has linked and nobody else removes it.          *)
StoredEer == IF TargetAtPath = NoFile THEN NoEer ELSE eer[TargetAtPath]

Reply == [w \in Writer |-> IF Succeeded(w) THEN "accepted"
                           ELSE IF pc[w] = "done" THEN "refused" ELSE "waiting"]

Store ==
  INSTANCE WriteOnceStore WITH
    Caller <- Writer, Content <- Eer, Nothing <- NoEer,
    stored <- StoredEer, wants <- eer, reply <- Reply

ImplementsWriteOnceStore == Store!Spec
=============================================================================
