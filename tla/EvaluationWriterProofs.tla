----------------------- MODULE EvaluationWriterProofs -----------------------
(* Proofs about EvaluationWriter for any number of calls, directories and  *)
(* results, and any budget of incidents.                                   *)
EXTENDS EvaluationWriter, TLAPS

(* Every variable stays in its range.                                      *)
THEOREM TypeCorrect == Spec => []TypeOK
<1>1. Init => TypeOK
  BY BoundAssumption DEF Init, TypeOK, Label, Incident
<1>2. TypeOK /\ [Next]_vars => TypeOK'
  <2> SUFFICES ASSUME TypeOK, [Next]_vars PROVE TypeOK'
    OBVIOUS
  <2> USE BoundAssumption
      DEF TypeOK, Label, files, call, GoTo, Raise, Abort, Recover, TargetAtPath,
          RollbackFailed, RolledBack
  <2>1. ASSUME NEW w \in Writer, NEW v \in Eer, BindPlan(w, v) PROVE TypeOK'
    BY <2>1 DEF BindPlan
  <2>2. ASSUME NEW w \in Writer, Rebind(w) PROVE TypeOK'
    BY <2>2 DEF Rebind
  <2>3. ASSUME NEW w \in Writer, MakeDirectory(w) PROVE TypeOK'
    BY <2>3 DEF MakeDirectory
  <2>4. ASSUME NEW w \in Writer, CheckExisting(w) PROVE TypeOK'
    BY <2>4 DEF CheckExisting
  <2>5. ASSUME NEW w \in Writer, CreateTemporary(w) PROVE TypeOK'
    BY <2>5 DEF CreateTemporary
  <2>6. ASSUME NEW w \in Writer, CheckTemporary(w) PROVE TypeOK'
    BY <2>6 DEF CheckTemporary
  <2>7. ASSUME NEW w \in Writer, WriteTemporary(w) PROVE TypeOK'
    BY <2>7 DEF WriteTemporary
  <2>8. ASSUME NEW w \in Writer, SyncTemporary(w) PROVE TypeOK'
    BY <2>8 DEF SyncTemporary
  <2>9. ASSUME NEW w \in Writer, CheckDirectories(w) PROVE TypeOK'
    BY <2>9 DEF CheckDirectories
  <2>10. ASSUME NEW w \in Writer, CheckFresh(w) PROVE TypeOK'
    BY <2>10 DEF CheckFresh
  <2>11. ASSUME NEW w \in Writer, LinkTemporary(w) PROVE TypeOK'
    <3>1. CASE temp[w] = evalDir[w] /\ target[evalDir[w]] = NoFile
      <4>1. target' \in [Dir -> Writer \cup {NoFile}]
        BY <2>11, <3>1 DEF LinkTemporary
      <4>2. created' \in [Writer -> BOOLEAN]
        BY <2>11, <3>1 DEF LinkTemporary
      <4>3. QED
        BY <2>11, <3>1, <4>1, <4>2 DEF LinkTemporary
    <3>2. CASE ~(temp[w] = evalDir[w] /\ target[evalDir[w]] = NoFile)
      BY <2>11, <3>2 DEF LinkTemporary
    <3>3. QED
      BY <3>1, <3>2
  <2>12. ASSUME NEW w \in Writer, Collide(w) PROVE TypeOK'
    BY <2>12 DEF Collide
  <2>13. ASSUME NEW w \in Writer, ReadBack(w) PROVE TypeOK'
    BY <2>13 DEF ReadBack
  <2>14. ASSUME NEW w \in Writer, Settle(w) PROVE TypeOK'
    BY <2>14 DEF Settle
  <2>15. ASSUME NEW w \in Writer, RollbackInspect(w) PROVE TypeOK'
    BY <2>15 DEF RollbackInspect
  <2>16. ASSUME NEW w \in Writer, RollbackUnlink(w) PROVE TypeOK'
    BY <2>16 DEF RollbackUnlink
  <2>17. ASSUME NEW w \in Writer, RollbackConfirm(w) PROVE TypeOK'
    BY <2>17 DEF RollbackConfirm
  <2>18. ASSUME NEW w \in Writer, CleanupTemporary(w) PROVE TypeOK'
    BY <2>18 DEF CleanupTemporary
  <2>19. CASE Load
    BY <2>19 DEF Load
  <2>20. CASE EditEpr
    BY <2>20 DEF EditEpr
  <2> USE DEF Spend, Incident
  <2>21. ASSUME NEW d \in Dir \cup {NoDir}, SwapDirectory(d) PROVE TypeOK'
    BY <2>21 DEF SwapDirectory
  <2>22. ASSUME NEW d \in Dir, RemoveTarget(d) PROVE TypeOK'
    BY <2>22 DEF RemoveTarget
  <2>23. ASSUME NEW w \in Writer, IoError(w) PROVE TypeOK'
    BY <2>23 DEF IoError
  <2>24. ASSUME NEW w \in Writer, CleanupError(w) PROVE TypeOK'
    BY <2>24 DEF CleanupError
  <2>25. ASSUME NEW w \in Writer, ReadBackError(w) PROVE TypeOK'
    BY <2>25 DEF ReadBackError
  <2>26. ASSUME NEW w \in Writer, Crash(w) PROVE TypeOK'
    BY <2>26 DEF Crash
  <2>27. CASE PowerLoss
    BY <2>27 DEF PowerLoss
  <2>28. CASE UNCHANGED vars
    BY <2>28 DEF vars
  <2>29. QED
    BY <2>1, <2>2, <2>3, <2>4, <2>5, <2>6, <2>7, <2>8, <2>9, <2>10, <2>11, <2>12,
       <2>13, <2>14, <2>15, <2>16, <2>17, <2>18, <2>19, <2>20, <2>21, <2>22, <2>23,
       <2>24, <2>25, <2>26, <2>27, <2>28 DEF Next, Step, Environment
<1>3. QED
  BY <1>1, <1>2, PTL DEF Spec

-----------------------------------------------------------------------------
(* The inductive invariant.  A call that is before its link, or that only  *)
(* adopted a result, has created nothing; a call that has linked its file  *)
(* knows the directory it did that in, and its content was synced before.  *)

BeforeLink == {"plan", "rebind", "mkdir", "existing", "mkstemp", "checktemp",
               "write", "sync", "checkdirs", "checkfresh", "link", "collide"}
HoldsLink  == {"readback", "settle", "inspect", "unlink"}

CallInv(w) ==
  /\ pc[w] \in {"existing", "mkstemp", "checktemp", "write", "sync", "checkdirs",
               "checkfresh", "link"} => evalDir[w] \in Dir
  /\ pc[w] \in BeforeLink => ~created[w]
  /\ pc[w] \in {"readback", "inspect", "unlink", "confirm"} => created[w]
  /\ created[w] => evalDir[w] \in Dir /\ bytes[w] = "durable"
  /\ pc[w] \in {"checkdirs", "checkfresh", "link"} => bytes[w] = "durable"
  /\ valid[w] => pc[w] \in {"cleanup", "done", "crashed"}
  /\ created[w] /\ pc[w] \in {"cleanup", "done"} => valid[w] \/ raised[w] = "rollback"

(* A link belongs to the call that created it, and sits in its directory.  *)
Owner(d, w) == target[d] = w => created[w] /\ evalDir[w] = d

(* While nobody deletes published files, a link stays until the call that  *)
(* created it takes it back; a verified one stays unless power is lost.    *)
LinkInv(w) ==
  used["removal"] = 0 /\ created[w] =>
    /\ pc[w] \in HoldsLink => target[evalDir[w]] = w
    /\ valid[w] /\ used["powerloss"] = 0 => target[evalDir[w]] = w

IInv ==
  /\ \A w \in Writer : CallInv(w)
  /\ \A d \in Dir, w \in Writer : Owner(d, w)
  /\ \A w \in Writer : LinkInv(w)

LEMMA InvInductive == TypeOK /\ IInv /\ [Next]_vars => IInv'
<1> SUFFICES ASSUME TypeOK, IInv, [Next]_vars PROVE IInv'
  OBVIOUS
<1> USE SentinelAssumption
    DEF TypeOK, IInv, CallInv, Owner, LinkInv, BeforeLink, HoldsLink, files, call,
        GoTo, Raise, Abort, Recover, RollbackFailed, RolledBack, Incident, Spend
<1>1. ASSUME NEW w \in Writer, NEW v \in Eer, BindPlan(w, v) PROVE IInv'
  BY <1>1 DEF BindPlan
<1>2. ASSUME NEW w \in Writer, Rebind(w) PROVE IInv'
  BY <1>2 DEF Rebind
<1>3. ASSUME NEW w \in Writer, MakeDirectory(w) PROVE IInv'
  BY <1>3 DEF MakeDirectory
<1>4. ASSUME NEW w \in Writer, CheckExisting(w) PROVE IInv'
  BY <1>4 DEF CheckExisting
<1>5. ASSUME NEW w \in Writer, CreateTemporary(w) PROVE IInv'
  BY <1>5 DEF CreateTemporary
<1>6. ASSUME NEW w \in Writer, CheckTemporary(w) PROVE IInv'
  BY <1>6 DEF CheckTemporary
<1>7. ASSUME NEW w \in Writer, WriteTemporary(w) PROVE IInv'
  BY <1>7 DEF WriteTemporary
<1>8. ASSUME NEW w \in Writer, SyncTemporary(w) PROVE IInv'
  BY <1>8 DEF SyncTemporary
<1>9. ASSUME NEW w \in Writer, CheckDirectories(w) PROVE IInv'
  BY <1>9 DEF CheckDirectories
<1>10. ASSUME NEW w \in Writer, CheckFresh(w) PROVE IInv'
  BY <1>10 DEF CheckFresh
<1>11. ASSUME NEW w \in Writer, LinkTemporary(w) PROVE IInv'
  (* The one step that creates a link: into a free name, by a call whose   *)
  (* content is durable.                                                   *)
  <2>1. CASE target' = target
    BY <1>11, <2>1 DEF LinkTemporary
  <2>2. CASE target' # target
    <3>1. /\ target[evalDir[w]] = NoFile
          /\ target' = [target EXCEPT ![evalDir[w]] = w]
          /\ created' = [created EXCEPT ![w] = TRUE]
          /\ pc' = [pc EXCEPT ![w] = "readback"]
          /\ UNCHANGED <<bytes, evalDir, valid, raised, used>>
      BY <1>11, <2>2 DEF LinkTemporary
    <3>2. evalDir[w] \in Dir /\ bytes[w] = "durable" /\ ~created[w] /\ ~valid[w]
      BY <1>11 DEF LinkTemporary
    <3>3. \A x \in Writer : CallInv(x)'
      BY <3>1, <3>2
    <3>4. \A d \in Dir, x \in Writer : Owner(d, x)'
      BY <3>1, <3>2
    <3>5. \A x \in Writer : LinkInv(x)'
      BY <3>1, <3>2
    <3>6. QED
      BY <3>3, <3>4, <3>5
  <2>3. QED
    BY <2>1, <2>2
<1>12. ASSUME NEW w \in Writer, Collide(w) PROVE IInv'
  BY <1>12 DEF Collide
<1>13. ASSUME NEW w \in Writer, ReadBack(w) PROVE IInv'
  BY <1>13 DEF ReadBack
<1>14. ASSUME NEW w \in Writer, Settle(w) PROVE IInv'
  BY <1>14 DEF Settle
<1>15. ASSUME NEW w \in Writer, RollbackInspect(w) PROVE IInv'
  BY <1>15 DEF RollbackInspect
<1>16. ASSUME NEW w \in Writer, RollbackUnlink(w) PROVE IInv'
  (* The one step of a call that removes a link.  Unless somebody deleted  *)
  (* a published file the link is the call's own, so no other call's link  *)
  (* invariant is disturbed.                                               *)
  <2>1. CASE target[evalDir[w]] = NoFile
    BY <1>16, <2>1 DEF RollbackUnlink
  <2>2. CASE target[evalDir[w]] # NoFile
    <3>1. /\ target' = [target EXCEPT ![evalDir[w]] = NoFile]
          /\ pc[w] = "unlink"
          /\ pc' = [pc EXCEPT ![w] = "confirm"]
          /\ UNCHANGED <<bytes, evalDir, created, valid, raised, used>>
      BY <1>16, <2>2 DEF RollbackUnlink
    <3>2. evalDir[w] \in Dir /\ created[w] /\ ~valid[w]
      BY <3>1
    <3>3. used["removal"] = 0 => target[evalDir[w]] = w
      BY <3>1, <3>2
    <3>4. \A x \in Writer : CallInv(x)'
      BY <3>1, <3>2
    <3>5. \A d \in Dir, x \in Writer : Owner(d, x)'
      BY <3>1, <3>2
    <3>6. \A x \in Writer : LinkInv(x)'
      BY <3>1, <3>2, <3>3
    <3>7. QED
      BY <3>4, <3>5, <3>6
  <2>3. QED
    BY <2>1, <2>2
<1>17. ASSUME NEW w \in Writer, RollbackConfirm(w) PROVE IInv'
  BY <1>17 DEF RollbackConfirm
<1>18. ASSUME NEW w \in Writer, CleanupTemporary(w) PROVE IInv'
  BY <1>18 DEF CleanupTemporary
<1>19. CASE Load
  BY <1>19 DEF Load
<1>20. CASE EditEpr
  BY <1>20 DEF EditEpr
<1>21. ASSUME NEW d \in Dir \cup {NoDir}, SwapDirectory(d) PROVE IInv'
  BY <1>21 DEF SwapDirectory
<1>22. ASSUME NEW d \in Dir, RemoveTarget(d) PROVE IInv'
  BY <1>22 DEF RemoveTarget
<1>23. ASSUME NEW w \in Writer, IoError(w) PROVE IInv'
  BY <1>23 DEF IoError, Running
<1>24. ASSUME NEW w \in Writer, CleanupError(w) PROVE IInv'
  BY <1>24 DEF CleanupError, Running
<1>25. ASSUME NEW w \in Writer, ReadBackError(w) PROVE IInv'
  BY <1>25 DEF ReadBackError, Running
<1>26. ASSUME NEW w \in Writer, Crash(w) PROVE IInv'
  BY <1>26 DEF Crash, Running
<1>27. CASE PowerLoss
  BY <1>27 DEF PowerLoss, Running
<1>28. CASE UNCHANGED vars
  BY <1>28 DEF vars
<1>29. QED
  BY <1>1, <1>2, <1>3, <1>4, <1>5, <1>6, <1>7, <1>8, <1>9, <1>10, <1>11, <1>12, <1>13, <1>14, <1>15, <1>16, <1>17, <1>18, <1>19, <1>20, <1>21, <1>22, <1>23, <1>24, <1>25, <1>26, <1>27, <1>28
  DEF Next, Step, Environment

(* IInv holds in every reachable state.                                    *)
THEOREM InvHolds == Spec => []IInv
<1>1. Init => IInv
  BY SentinelAssumption DEF Init, IInv, CallInv, Owner, LinkInv, BeforeLink, HoldsLink
<1>2. QED
  BY <1>1, TypeCorrect, InvInductive, PTL DEF Spec

(* A linked result is complete: its content was synced before the link was *)
(* made, so neither a failed write nor a power loss can tear it.           *)
THEOREM PublishedIsComplete == Spec => []PublishedComplete
<1>1. TypeOK /\ IInv => PublishedComplete
  BY DEF TypeOK, IInv, CallInv, Owner, PublishedComplete
<1>2. QED
  BY <1>1, TypeCorrect, InvHolds, PTL

(* An ordinary error leaves no link of the failed call behind.             *)
THEOREM FailureLeavesNoTarget == Spec => []FailedLeavesNoTarget
<1>1. TypeOK /\ IInv => FailedLeavesNoTarget
  BY DEF TypeOK, IInv, CallInv, Owner, FailedLeavesNoTarget
<1>2. QED
  BY <1>1, TypeCorrect, InvHolds, PTL

(* A call that published its own file and returned keeps it.               *)
THEOREM OwnSuccessIsKept == Spec => []CreatedSuccessKept
<1>1. TypeOK /\ IInv => CreatedSuccessKept
  BY DEF TypeOK, IInv, CallInv, LinkInv, CreatedSuccessKept, Succeeded
<1>2. QED
  BY <1>1, TypeCorrect, InvHolds, PTL

-----------------------------------------------------------------------------
(* Only four actions touch a target.                                       *)
LEMMA TargetSteps ==
  [Next]_vars =>
    \/ UNCHANGED target
    \/ \E w \in Writer : LinkTemporary(w) \/ RollbackUnlink(w)
    \/ \E d \in Dir : RemoveTarget(d)
    \/ PowerLoss
  BY DEF Next, Step, Environment, vars, files, call, BindPlan, Load, EditEpr, SwapDirectory,
         IoError, CleanupError, ReadBackError, Crash, Rebind, MakeDirectory, CheckExisting, CreateTemporary, CheckTemporary, WriteTemporary, SyncTemporary, CheckDirectories, CheckFresh, Collide, ReadBack, Settle, RollbackInspect, RollbackConfirm, CleanupTemporary

(* No step replaces a link by another one.                                 *)
THEOREM NeverClobbers == Spec => NoClobber
<1>1. TypeOK /\ [Next]_vars =>
        [\A d \in Dir : target[d] # NoFile => target'[d] \in {target[d], NoFile}]_vars
  <2> SUFFICES ASSUME TypeOK, [Next]_vars, NEW d \in Dir, target[d] # NoFile
               PROVE  target'[d] \in {target[d], NoFile}
    OBVIOUS
  <2> USE DEF TypeOK
  <2>1. CASE UNCHANGED target
    BY <2>1
  <2>2. ASSUME NEW w \in Writer, LinkTemporary(w) PROVE target'[d] = target[d]
    BY <2>2 DEF LinkTemporary
  <2>3. ASSUME NEW w \in Writer, RollbackUnlink(w) PROVE target'[d] \in {target[d], NoFile}
    BY <2>3 DEF RollbackUnlink
  <2>4. ASSUME NEW e \in Dir, RemoveTarget(e) PROVE target'[d] \in {target[d], NoFile}
    BY <2>4 DEF RemoveTarget
  <2>5. CASE PowerLoss
    BY <2>5 DEF PowerLoss
  <2>6. QED
    BY <2>1, <2>2, <2>3, <2>4, <2>5, TargetSteps
<1>2. QED
  BY <1>1, TypeCorrect, PTL DEF Spec, NoClobber

(* Only the call that created a link rolls it back.                        *)
THEOREM OnlyOwnerRemoves == Spec => OnlyOwnLinkRemoved
<1>1. TypeOK /\ IInv /\ [Next]_vars =>
        [\A d \in Dir :
           /\ target[d] # NoFile
           /\ target'[d] = NoFile
           /\ used'["removal"] = 0
           /\ used'["powerloss"] = used["powerloss"]
           => d = evalDir[target[d]] /\ pc[target[d]] = "unlink"]_vars
  <2> SUFFICES ASSUME TypeOK, IInv, [Next]_vars,
                      NEW d \in Dir,
                      target[d] # NoFile,
                      target'[d] = NoFile,
                      used'["removal"] = 0,
                      used'["powerloss"] = used["powerloss"]
               PROVE  d = evalDir[target[d]] /\ pc[target[d]] = "unlink"
    OBVIOUS
  <2> USE DEF TypeOK, Incident
  <2>1. CASE UNCHANGED target
    BY <2>1
  <2>2. ASSUME NEW w \in Writer, LinkTemporary(w) PROVE FALSE
    BY <2>2, SentinelAssumption DEF LinkTemporary
  <2>3. ASSUME NEW w \in Writer, RollbackUnlink(w)
        PROVE  d = evalDir[target[d]] /\ pc[target[d]] = "unlink"
    <3>1. pc[w] = "unlink" /\ d = evalDir[w] /\ used["removal"] = 0
      BY <2>3 DEF RollbackUnlink
    <3>2. target[evalDir[w]] = w
      BY <3>1 DEF IInv, CallInv, LinkInv, HoldsLink
    <3>3. QED
      BY <3>1, <3>2
  <2>4. ASSUME NEW e \in Dir, RemoveTarget(e) PROVE FALSE
    BY <2>4 DEF RemoveTarget, Spend
  <2>5. CASE PowerLoss
    BY <2>5 DEF PowerLoss, Spend
  <2>6. QED
    BY <2>1, <2>2, <2>3, <2>4, <2>5, TargetSteps
<1>2. QED
  BY <1>1, TypeCorrect, InvHolds, PTL DEF Spec, OnlyOwnLinkRemoved
-----------------------------------------------------------------------------
(* The temporary name.  With at most one replacement of a directory and no *)
(* failing system call before or in the clean-up, it is in the directory   *)
(* the call verified or in the one the pathname names: only a replacement  *)
(* separates the two, and there is none left to hide the temporary then.   *)
TempInv(w) ==
  used["swap"] <= 1 /\ used["io"] = 0 =>
    /\ pc[w] \in {"plan", "rebind", "mkdir", "existing", "mkstemp"} => temp[w] = NoDir
    /\ pc[w] \in {"existing", "mkstemp"} /\ evaluations # evalDir[w] => used["swap"] = 1
    /\ temp[w] # NoDir =>
         /\ temp[w] \in {evalDir[w], evaluations}
         /\ temp[w] # evalDir[w] => used["swap"] = 1
    /\ pc[w] = "done" => temp[w] = NoDir

LEMMA TempInductive ==
  TypeOK /\ IInv /\ (\A w \in Writer : TempInv(w)) /\ [Next]_vars => \A w \in Writer : TempInv(w)'
<1> SUFFICES ASSUME TypeOK, IInv, \A w \in Writer : TempInv(w), [Next]_vars, NEW w \in Writer
             PROVE  TempInv(w)'
  OBVIOUS
<1>1. evalDir[w] \in Dir \/ pc[w] \notin {"existing", "mkstemp"}
  BY DEF IInv, CallInv
<1>2. TempInv(w)
  OBVIOUS
<1> USE SentinelAssumption
    DEF TypeOK, TempInv, files, call, GoTo, Raise, Abort, Recover, RollbackFailed, RolledBack,
        Incident, Spend
<1>3. ASSUME NEW x \in Writer, NEW v \in Eer, BindPlan(x, v) PROVE TempInv(w)'
  BY <1>1, <1>2, <1>3 DEF BindPlan
<1>4. ASSUME NEW x \in Writer, Rebind(x) PROVE TempInv(w)'
  BY <1>1, <1>2, <1>4 DEF Rebind
<1>5. ASSUME NEW x \in Writer, MakeDirectory(x) PROVE TempInv(w)'
  BY <1>1, <1>2, <1>5 DEF MakeDirectory, Fresh
<1>6. ASSUME NEW x \in Writer, CheckExisting(x) PROVE TempInv(w)'
  BY <1>1, <1>2, <1>6 DEF CheckExisting, DirectoryIntact
<1>7. ASSUME NEW x \in Writer, CreateTemporary(x) PROVE TempInv(w)'
  BY <1>1, <1>2, <1>7 DEF CreateTemporary
<1>8. ASSUME NEW x \in Writer, CheckTemporary(x) PROVE TempInv(w)'
  BY <1>1, <1>2, <1>8 DEF CheckTemporary
<1>9. ASSUME NEW x \in Writer, WriteTemporary(x) PROVE TempInv(w)'
  BY <1>1, <1>2, <1>9 DEF WriteTemporary
<1>10. ASSUME NEW x \in Writer, SyncTemporary(x) PROVE TempInv(w)'
  BY <1>1, <1>2, <1>10 DEF SyncTemporary
<1>11. ASSUME NEW x \in Writer, CheckDirectories(x) PROVE TempInv(w)'
  BY <1>1, <1>2, <1>11 DEF CheckDirectories
<1>12. ASSUME NEW x \in Writer, CheckFresh(x) PROVE TempInv(w)'
  BY <1>1, <1>2, <1>12 DEF CheckFresh
<1>13. ASSUME NEW x \in Writer, LinkTemporary(x) PROVE TempInv(w)'
  BY <1>1, <1>2, <1>13 DEF LinkTemporary
<1>14. ASSUME NEW x \in Writer, Collide(x) PROVE TempInv(w)'
  BY <1>1, <1>2, <1>14 DEF Collide
<1>15. ASSUME NEW x \in Writer, ReadBack(x) PROVE TempInv(w)'
  BY <1>1, <1>2, <1>15 DEF ReadBack
<1>16. ASSUME NEW x \in Writer, Settle(x) PROVE TempInv(w)'
  BY <1>1, <1>2, <1>16 DEF Settle
<1>17. ASSUME NEW x \in Writer, RollbackInspect(x) PROVE TempInv(w)'
  BY <1>1, <1>2, <1>17 DEF RollbackInspect
<1>18. ASSUME NEW x \in Writer, RollbackUnlink(x) PROVE TempInv(w)'
  BY <1>1, <1>2, <1>18 DEF RollbackUnlink
<1>19. ASSUME NEW x \in Writer, RollbackConfirm(x) PROVE TempInv(w)'
  BY <1>1, <1>2, <1>19 DEF RollbackConfirm
<1>20. ASSUME NEW x \in Writer, CleanupTemporary(x) PROVE TempInv(w)'
  BY <1>1, <1>2, <1>20 DEF CleanupTemporary
<1>21. CASE Load
  BY <1>1, <1>2, <1>21 DEF Load
<1>22. CASE EditEpr
  BY <1>1, <1>2, <1>22 DEF EditEpr
<1>23. ASSUME NEW d \in Dir \cup {NoDir}, SwapDirectory(d) PROVE TempInv(w)'
  BY <1>1, <1>2, <1>23 DEF SwapDirectory
<1>24. ASSUME NEW d \in Dir, RemoveTarget(d) PROVE TempInv(w)'
  BY <1>1, <1>2, <1>24 DEF RemoveTarget
<1>25. ASSUME NEW x \in Writer, IoError(x) PROVE TempInv(w)'
  BY <1>1, <1>2, <1>25 DEF IoError
<1>26. ASSUME NEW x \in Writer, CleanupError(x) PROVE TempInv(w)'
  BY <1>1, <1>2, <1>26 DEF CleanupError
<1>27. ASSUME NEW x \in Writer, ReadBackError(x) PROVE TempInv(w)'
  BY <1>1, <1>2, <1>27 DEF ReadBackError
<1>28. ASSUME NEW x \in Writer, Crash(x) PROVE TempInv(w)'
  BY <1>1, <1>2, <1>28 DEF Crash, Running
<1>29. CASE PowerLoss
  BY <1>1, <1>2, <1>29 DEF PowerLoss, Running
<1>30. CASE UNCHANGED vars
  BY <1>1, <1>2, <1>30 DEF vars
<1> QED
  BY <1>3, <1>4, <1>5, <1>6, <1>7, <1>8, <1>9, <1>10, <1>11, <1>12, <1>13, <1>14, <1>15, <1>16, <1>17, <1>18, <1>19, <1>20, <1>21, <1>22, <1>23, <1>24, <1>25, <1>26, <1>27, <1>28, <1>29, <1>30
  DEF Next, Step, Environment

(* A call that has ended leaves no temporary name behind, for any number   *)
(* of calls and directories, if one directory at most was replaced and no  *)
(* system call failed but in reading back or rolling back.                 *)
THEOREM TemporaryIsRemoved == Spec => []TemporaryRemoved
<1>1. Init => \A w \in Writer : TempInv(w)
  BY DEF Init, TempInv
<1>2. (\A w \in Writer : TempInv(w)) => TemporaryRemoved
  BY DEF TempInv, TemporaryRemoved
<1>3. TypeOK /\ IInv /\ (\A w \in Writer : TempInv(w)) /\ [Next]_vars
        => (\A w \in Writer : TempInv(w))'
  BY TempInductive
<1>4. QED
  BY <1>1, <1>2, <1>3, TypeCorrect, InvHolds, PTL DEF Spec

-----------------------------------------------------------------------------
(* A call whose EPR has changed before the second freshness check is       *)
(* doomed: versions of the EPR never come back, so it stays unequal to the *)
(* bound one, and every way out of the checks ends the call without having *)
(* created a link.                                                         *)
BeforeFresh == {"rebind", "mkdir", "existing", "mkstemp", "checktemp", "write",
                "sync", "checkdirs", "checkfresh"}
BoundInPast == \A w \in Writer : bound[w] <= epr
Doomed(w) ==
  \/ pc[w] \in BeforeFresh /\ epr # bound[w]
  \/ pc[w] \in {"cleanup", "done", "crashed"} /\ ~created[w]

(* A plan is bound to an EPR version that exists.                          *)
LEMMA BindsThePast == Spec => []BoundInPast
<1>1. Init => BoundInPast
  <2> SUFFICES ASSUME Init, NEW w \in Writer PROVE bound[w] <= epr
    BY DEF BoundInPast
  <2>1. bound[w] = 0 /\ epr = 0
    BY DEF Init
  <2>2. QED
    BY <2>1
<1>2. TypeOK /\ BoundInPast /\ [Next]_vars => BoundInPast'
  <2> SUFFICES ASSUME TypeOK, BoundInPast, [Next]_vars PROVE BoundInPast'
    OBVIOUS
  <2>1. CASE UNCHANGED <<epr, bound>>
    BY <2>1 DEF BoundInPast
  <2>2. ASSUME NEW w \in Writer, NEW v \in Eer, BindPlan(w, v) PROVE BoundInPast'
    BY <2>2 DEF BindPlan, BoundInPast, TypeOK, files
  <2>3. CASE EditEpr
    BY <2>3 DEF EditEpr, BoundInPast, TypeOK, call
  <2>4. QED
    BY <2>1, <2>2, <2>3
    DEF Next, Step, Environment, vars, files, call, Rebind, MakeDirectory, CheckExisting,
        CreateTemporary, CheckTemporary, WriteTemporary, SyncTemporary, CheckDirectories,
        CheckFresh, LinkTemporary, Collide, ReadBack, Settle, RollbackInspect, RollbackUnlink,
        RollbackConfirm, CleanupTemporary, Load, SwapDirectory, RemoveTarget, IoError,
        CleanupError, ReadBackError, Crash, PowerLoss
<1>3. QED
  BY <1>1, <1>2, TypeCorrect, PTL DEF Spec

(* No step saves a doomed call.                                            *)
LEMMA DoomedStays ==
  ASSUME NEW w \in Writer, TypeOK, IInv, BoundInPast, Doomed(w), [Next]_vars
  PROVE  Doomed(w)'
<1>1. pc[w] \in BeforeFresh => ~created[w]
  BY DEF IInv, CallInv, BeforeFresh, BeforeLink
<1>2. bound[w] <= epr /\ bound[w] \in Nat /\ epr \in Nat
  BY BoundAssumption DEF BoundInPast, TypeOK
<1> USE DEF Doomed, BeforeFresh, TypeOK, files, call, GoTo, Raise, Abort, Recover,
            RollbackFailed, RolledBack
<1>3. ASSUME NEW x \in Writer, NEW v \in Eer, BindPlan(x, v) PROVE Doomed(w)'
  BY <1>1, <1>2, <1>3 DEF BindPlan
<1>4. ASSUME NEW x \in Writer, Rebind(x) PROVE Doomed(w)'
  BY <1>1, <1>2, <1>4 DEF Rebind
<1>5. ASSUME NEW x \in Writer, MakeDirectory(x) PROVE Doomed(w)'
  BY <1>1, <1>2, <1>5 DEF MakeDirectory
<1>6. ASSUME NEW x \in Writer, CheckExisting(x) PROVE Doomed(w)'
  BY <1>1, <1>2, <1>6 DEF CheckExisting
<1>7. ASSUME NEW x \in Writer, CreateTemporary(x) PROVE Doomed(w)'
  BY <1>1, <1>2, <1>7 DEF CreateTemporary
<1>8. ASSUME NEW x \in Writer, CheckTemporary(x) PROVE Doomed(w)'
  BY <1>1, <1>2, <1>8 DEF CheckTemporary
<1>9. ASSUME NEW x \in Writer, WriteTemporary(x) PROVE Doomed(w)'
  BY <1>1, <1>2, <1>9 DEF WriteTemporary
<1>10. ASSUME NEW x \in Writer, SyncTemporary(x) PROVE Doomed(w)'
  BY <1>1, <1>2, <1>10 DEF SyncTemporary
<1>11. ASSUME NEW x \in Writer, CheckDirectories(x) PROVE Doomed(w)'
  BY <1>1, <1>2, <1>11 DEF CheckDirectories
<1>12. ASSUME NEW x \in Writer, CheckFresh(x) PROVE Doomed(w)'
  BY <1>1, <1>2, <1>12 DEF CheckFresh
<1>13. ASSUME NEW x \in Writer, LinkTemporary(x) PROVE Doomed(w)'
  BY <1>1, <1>2, <1>13 DEF LinkTemporary
<1>14. ASSUME NEW x \in Writer, Collide(x) PROVE Doomed(w)'
  BY <1>1, <1>2, <1>14 DEF Collide
<1>15. ASSUME NEW x \in Writer, ReadBack(x) PROVE Doomed(w)'
  BY <1>1, <1>2, <1>15 DEF ReadBack
<1>16. ASSUME NEW x \in Writer, Settle(x) PROVE Doomed(w)'
  BY <1>1, <1>2, <1>16 DEF Settle
<1>17. ASSUME NEW x \in Writer, RollbackInspect(x) PROVE Doomed(w)'
  BY <1>1, <1>2, <1>17 DEF RollbackInspect
<1>18. ASSUME NEW x \in Writer, RollbackUnlink(x) PROVE Doomed(w)'
  BY <1>1, <1>2, <1>18 DEF RollbackUnlink
<1>19. ASSUME NEW x \in Writer, RollbackConfirm(x) PROVE Doomed(w)'
  BY <1>1, <1>2, <1>19 DEF RollbackConfirm
<1>20. ASSUME NEW x \in Writer, CleanupTemporary(x) PROVE Doomed(w)'
  BY <1>1, <1>2, <1>20 DEF CleanupTemporary
<1>21. CASE Load
  BY <1>1, <1>2, <1>21 DEF Load
<1>22. CASE EditEpr
  BY <1>1, <1>2, <1>22 DEF EditEpr
<1>23. ASSUME NEW d \in Dir \cup {NoDir}, SwapDirectory(d) PROVE Doomed(w)'
  BY <1>1, <1>2, <1>23 DEF SwapDirectory
<1>24. ASSUME NEW d \in Dir, RemoveTarget(d) PROVE Doomed(w)'
  BY <1>1, <1>2, <1>24 DEF RemoveTarget
<1>25. ASSUME NEW x \in Writer, IoError(x) PROVE Doomed(w)'
  BY <1>1, <1>2, <1>25 DEF IoError
<1>26. ASSUME NEW x \in Writer, CleanupError(x) PROVE Doomed(w)'
  BY <1>1, <1>2, <1>26 DEF CleanupError
<1>27. ASSUME NEW x \in Writer, ReadBackError(x) PROVE Doomed(w)'
  BY <1>1, <1>2, <1>27 DEF ReadBackError
<1>28. ASSUME NEW x \in Writer, Crash(x) PROVE Doomed(w)'
  BY <1>1, <1>2, <1>28 DEF Crash, Running
<1>29. CASE PowerLoss
  BY <1>1, <1>2, <1>29 DEF PowerLoss, Running
<1>30. CASE UNCHANGED vars
  BY <1>1, <1>2, <1>30 DEF vars
<1> QED
  BY <1>3, <1>4, <1>5, <1>6, <1>7, <1>8, <1>9, <1>10, <1>11, <1>12, <1>13, <1>14, <1>15, <1>16, <1>17, <1>18, <1>19, <1>20, <1>21, <1>22, <1>23, <1>24, <1>25, <1>26, <1>27, <1>28, <1>29, <1>30
  DEF Next, Step, Environment

(* A call whose EPR has changed before the second freshness check never    *)
(* publishes its result, whatever the other calls and the environment do.  *)
THEOREM StaleIsNeverPublished == Spec => StaleNeverPublished
<1> SUFFICES ASSUME NEW w \in Writer
             PROVE  Spec => [](/\ pc[w] \in {"rebind", "mkdir", "existing", "mkstemp", "checktemp",
                                             "write", "sync", "checkdirs", "checkfresh"}
                               /\ epr # bound[w]
                               => [](\A d \in Dir : target[d] # w))
  BY DEF StaleNeverPublished
<1>1. /\ pc[w] \in {"rebind", "mkdir", "existing", "mkstemp", "checktemp", "write", "sync",
                    "checkdirs", "checkfresh"}
      /\ epr # bound[w]
      => Doomed(w)
  BY DEF Doomed, BeforeFresh
<1>2. TypeOK /\ IInv /\ BoundInPast /\ Doomed(w) /\ [Next]_vars => Doomed(w)'
  BY DoomedStays
<1>3. IInv /\ Doomed(w) => \A d \in Dir : target[d] # w
  BY DEF IInv, Owner, CallInv, Doomed, BeforeFresh, BeforeLink
<1>4. QED
  BY <1>1, <1>2, <1>3, TypeCorrect, InvHolds, BindsThePast, PTL DEF Spec

-----------------------------------------------------------------------------
(* The writer implements WriteOnceStore, for any number of calls and       *)
(* results, when directories are not replaced, published files are neither *)
(* deleted by others nor lost with the power, and reading a published file *)
(* back never fails.  Editing the EPR, failing system calls before the     *)
(* link or in the clean-up, and killed processes are allowed.              *)
Calm == \A i \in {"swap", "readback", "removal", "powerloss"} : Budget[i] = 0

(* In a calm execution there is one directory, it holds the only link, and *)
(* no call ever rolls back.                                                *)
Published(w) == TargetAtPath # NoFile /\ eer[TargetAtPath] = eer[w]

CalmCall(w) ==
  /\ pc[w] \notin {"inspect", "unlink", "confirm"}
  /\ (pc[w] = "plan") <=> (eer[w] = NoEer)
  /\ evalDir[w] # NoDir => evaluations = evalDir[w]
  /\ pc[w] \in {"existing", "mkstemp", "checktemp", "write", "sync", "checkdirs", "checkfresh",
               "link", "collide", "readback", "settle"} => evalDir[w] # NoDir
  /\ raised[w] # "no" => pc[w] \in {"cleanup", "done", "crashed"}
  /\ pc[w] = "settle" => Published(w)
  /\ pc[w] \in {"cleanup", "done"} /\ raised[w] = "no" => Published(w) /\ evalDir[w] # NoDir

CalmInv ==
  /\ \A i \in {"swap", "readback", "removal", "powerloss"} : used[i] = 0
  /\ \A w \in Writer : CalmCall(w)
  /\ \A d \in Dir : target[d] # NoFile => d = evaluations

LEMMA CalmInductive ==
  ASSUME Calm, TypeOK, IInv, CalmInv, [Next]_vars
  PROVE  CalmInv'
<1> USE SentinelAssumption
    DEF Calm, TypeOK, IInv, CallInv, Owner, LinkInv, BeforeLink, HoldsLink, CalmInv, CalmCall,
        Published, TargetAtPath, files, call, GoTo, Raise, Abort, Recover, RollbackFailed,
        RolledBack, Incident, Spend
<1>1. ASSUME NEW w \in Writer, NEW v \in Eer, BindPlan(w, v) PROVE CalmInv'
  BY <1>1 DEF BindPlan
<1>2. ASSUME NEW w \in Writer, Rebind(w) PROVE CalmInv'
  BY <1>2 DEF Rebind
<1>3. ASSUME NEW w \in Writer, MakeDirectory(w) PROVE CalmInv'
  BY <1>3 DEF MakeDirectory, Fresh
<1>4. ASSUME NEW w \in Writer, CheckExisting(w) PROVE CalmInv'
  BY <1>4 DEF CheckExisting, SameBytes, DirectoryIntact
<1>5. ASSUME NEW w \in Writer, CreateTemporary(w) PROVE CalmInv'
  BY <1>5 DEF CreateTemporary
<1>6. ASSUME NEW w \in Writer, CheckTemporary(w) PROVE CalmInv'
  BY <1>6 DEF CheckTemporary
<1>7. ASSUME NEW w \in Writer, WriteTemporary(w) PROVE CalmInv'
  BY <1>7 DEF WriteTemporary
<1>8. ASSUME NEW w \in Writer, SyncTemporary(w) PROVE CalmInv'
  BY <1>8 DEF SyncTemporary
<1>9. ASSUME NEW w \in Writer, CheckDirectories(w) PROVE CalmInv'
  BY <1>9 DEF CheckDirectories
<1>10. ASSUME NEW w \in Writer, CheckFresh(w) PROVE CalmInv'
  BY <1>10 DEF CheckFresh
<1>11. ASSUME NEW w \in Writer, LinkTemporary(w) PROVE CalmInv'
  BY <1>11 DEF LinkTemporary
<1>12. ASSUME NEW w \in Writer, Collide(w) PROVE CalmInv'
  BY <1>12 DEF Collide, SameBytes, DirectoryIntact
<1>13. ASSUME NEW w \in Writer, ReadBack(w) PROVE CalmInv'
  BY <1>13 DEF ReadBack, SameBytes, DirectoryIntact
<1>14. ASSUME NEW w \in Writer, Settle(w) PROVE CalmInv'
  BY <1>14 DEF Settle, DirectoryIntact
<1>15. ASSUME NEW w \in Writer, RollbackInspect(w) PROVE CalmInv'
  BY <1>15 DEF RollbackInspect
<1>16. ASSUME NEW w \in Writer, RollbackUnlink(w) PROVE CalmInv'
  BY <1>16 DEF RollbackUnlink
<1>17. ASSUME NEW w \in Writer, RollbackConfirm(w) PROVE CalmInv'
  BY <1>17 DEF RollbackConfirm
<1>18. ASSUME NEW w \in Writer, CleanupTemporary(w) PROVE CalmInv'
  BY <1>18 DEF CleanupTemporary
<1>19. CASE Load
  BY <1>19 DEF Load
<1>20. CASE EditEpr
  BY <1>20 DEF EditEpr
<1>21. ASSUME NEW d \in Dir \cup {NoDir}, SwapDirectory(d) PROVE CalmInv'
  BY <1>21 DEF SwapDirectory
<1>22. ASSUME NEW d \in Dir, RemoveTarget(d) PROVE CalmInv'
  BY <1>22 DEF RemoveTarget
<1>23. ASSUME NEW w \in Writer, IoError(w) PROVE CalmInv'
  BY <1>23 DEF IoError, Running
<1>24. ASSUME NEW w \in Writer, CleanupError(w) PROVE CalmInv'
  BY <1>24 DEF CleanupError, Running
<1>25. ASSUME NEW w \in Writer, ReadBackError(w) PROVE CalmInv'
  BY <1>25 DEF ReadBackError, Running
<1>26. ASSUME NEW w \in Writer, Crash(w) PROVE CalmInv'
  BY <1>26 DEF Crash, Running
<1>27. CASE PowerLoss
  BY <1>27 DEF PowerLoss
<1>28. CASE UNCHANGED vars
  BY <1>28 DEF vars
<1>29. QED
  BY <1>1, <1>2, <1>3, <1>4, <1>5, <1>6, <1>7, <1>8, <1>9, <1>10, <1>11, <1>12, <1>13, <1>14, <1>15, <1>16, <1>17, <1>18, <1>19, <1>20, <1>21, <1>22, <1>23, <1>24, <1>25, <1>26, <1>27, <1>28
  DEF Next, Step, Environment

-----------------------------------------------------------------------------
(* How the steps map.  A call that finishes accepts or refuses; the link   *)
(* publishes; binding a plan submits; every other step stutters.           *)

LEMMA Stutters ==
  ASSUME UNCHANGED <<StoredEer, eer>>, UNCHANGED Reply
  PROVE  UNCHANGED Store!vars
  BY DEF Store!vars

(* A step of w that leaves the files and the results alone.                *)
LEMMA QuietStep ==
  ASSUME TypeOK, NEW w \in Writer, NEW l \in Label, NEW r,
         pc[w] \notin {"done"},
         UNCHANGED <<evaluations, target, eer>>,
         pc' = [pc EXCEPT ![w] = l],
         raised' = [raised EXCEPT ![w] = r],
         l = "done" /\ r = "no" => Published(w) /\ eer[w] # NoEer
  PROVE  [Store!Next]_Store!vars
<1>1. StoredEer' = StoredEer
  BY DEF StoredEer, TargetAtPath
<1>2. Reply[w] = "waiting"
  BY DEF Reply, Succeeded
<1>3. CASE l # "done"
  <2>1. Reply' = Reply
    BY <1>3 DEF Reply, Succeeded, TypeOK
  <2>2. QED
    BY <1>1, <2>1, Stutters
<1>4. CASE l = "done" /\ r = "no"
  <2>1. Reply' = [Reply EXCEPT ![w] = "accepted"]
    BY <1>4 DEF Reply, Succeeded, TypeOK
  <2>2. StoredEer = eer[w] /\ eer[w] # NoEer
    BY <1>4 DEF StoredEer, Published
  <2>3. Store!Accept(w)
    BY <1>1, <1>2, <2>1, <2>2 DEF Store!Accept
  <2>4. QED
    BY <2>3 DEF Store!Next
<1>5. CASE l = "done" /\ r # "no"
  <2>1. Reply' = [Reply EXCEPT ![w] = "refused"]
    BY <1>5 DEF Reply, Succeeded, TypeOK
  <2>2. Store!Refuse(w)
    BY <1>1, <1>2, <2>1 DEF Store!Refuse
  <2>3. QED
    BY <2>2 DEF Store!Next
<1>6. QED
  BY <1>3, <1>4, <1>5

(* What the step of a call does to its program counter and its exception.  *)
Moves(w) ==
  /\ pc[w] # "done"
  /\ UNCHANGED <<evaluations, target, eer>>
  /\ \E l \in Label, r \in {"no", "operation", "rollback", "cleanup"} :
       /\ pc' = [pc EXCEPT ![w] = l]
       /\ raised' = [raised EXCEPT ![w] = r]
       /\ l = "done" /\ r = "no" => Published(w) /\ eer[w] # NoEer

LEMMA MovesSimulate ==
  ASSUME TypeOK, NEW w \in Writer, Moves(w)
  PROVE  [Store!Next]_Store!vars
<1>1. PICK l \in Label, r \in {"no", "operation", "rollback", "cleanup"} :
        /\ pc' = [pc EXCEPT ![w] = l]
        /\ raised' = [raised EXCEPT ![w] = r]
        /\ l = "done" /\ r = "no" => Published(w) /\ eer[w] # NoEer
  BY DEF Moves
<1>2. pc[w] # "done" /\ UNCHANGED <<evaluations, target, eer>>
  BY DEF Moves
<1>3. QED
  BY <1>1, <1>2, QuietStep

LEMMA StepSimulation ==
  ASSUME Calm, TypeOK, IInv, CalmInv, [Next]_vars
  PROVE  [Store!Next]_Store!vars
<1>1. ASSUME NEW w \in Writer, NEW v \in Eer, BindPlan(w, v)
      PROVE  Store!Submit(w)
  <2> USE <1>1 DEF BindPlan, GoTo, files, TypeOK, CalmInv, CalmCall
  <2>1. eer[w] = NoEer /\ Reply[w] = "waiting"
    BY DEF Reply, Succeeded
  <2>2. Reply' = Reply
    BY DEF Reply, Succeeded
  <2>3. StoredEer' = StoredEer
    <3>1. ASSUME TargetAtPath # NoFile PROVE TargetAtPath # w
      BY <3>1 DEF TargetAtPath, IInv, CallInv, Owner, BeforeLink
    <3>2. TargetAtPath' = TargetAtPath /\ TargetAtPath \in Writer \cup {NoFile}
      BY DEF TargetAtPath
    <3>3. QED
      BY <3>1, <3>2 DEF StoredEer
  <2>4. QED
    BY <2>1, <2>2, <2>3 DEF Store!Submit
<1>2. ASSUME NEW w \in Writer, MakeDirectory(w)
      PROVE  UNCHANGED Store!vars
  (* A new directory is empty, and so was the missing one.                 *)
  <2>1. Reply' = Reply
    BY <1>2 DEF MakeDirectory, GoTo, Reply, Succeeded, TypeOK
  <2>2. TargetAtPath' = TargetAtPath
    BY <1>2 DEF MakeDirectory, TargetAtPath, Fresh, TypeOK
  <2>3. eer' = eer
    BY <1>2 DEF MakeDirectory
  <2>4. StoredEer' = StoredEer
    BY <2>2, <2>3 DEF StoredEer
  <2>5. QED
    BY <2>1, <2>3, <2>4, Stutters
<1>3. ASSUME NEW w \in Writer, LinkTemporary(w)
      PROVE  [Store!Next]_Store!vars
  <2>1. CASE target' = target
    <3>1. Moves(w)
      BY <1>3, <2>1 DEF LinkTemporary, Moves, GoTo, Recover, Raise, call, TypeOK, Label
    <3>2. QED
      BY <3>1, MovesSimulate
  <2>2. CASE target' # target
    <3>1. /\ pc[w] = "link"
          /\ target[evalDir[w]] = NoFile
          /\ target' = [target EXCEPT ![evalDir[w]] = w]
          /\ pc' = [pc EXCEPT ![w] = "readback"]
          /\ UNCHANGED <<evaluations, eer, raised>>
      BY <1>3, <2>2 DEF LinkTemporary, GoTo, call
    <3>2. evalDir[w] \in Dir /\ evaluations = evalDir[w] /\ eer[w] # NoEer
      BY <3>1, SentinelAssumption DEF TypeOK, CalmInv, CalmCall
    <3>3. TargetAtPath = NoFile /\ TargetAtPath' = w
      BY <3>1, <3>2, SentinelAssumption DEF TargetAtPath, TypeOK
    <3>4. StoredEer = NoEer /\ StoredEer' = eer[w]
      BY <3>1, <3>3, SentinelAssumption DEF StoredEer
    <3>5. Reply' = Reply /\ Reply[w] = "waiting"
      BY <3>1 DEF Reply, Succeeded, TypeOK
    <3>6. Store!Publish(w)
      BY <3>1, <3>2, <3>4, <3>5 DEF Store!Publish
    <3>7. QED
      BY <3>6 DEF Store!Next
  <2>3. QED
    BY <2>1, <2>2
<1>4. ASSUME NEW w \in Writer,
             \/ Rebind(w) \/ CheckExisting(w) \/ CreateTemporary(w) \/ CheckTemporary(w)
             \/ WriteTemporary(w) \/ SyncTemporary(w) \/ CheckDirectories(w) \/ CheckFresh(w)
             \/ Collide(w) \/ ReadBack(w) \/ Settle(w) \/ CleanupTemporary(w)
      PROVE  Moves(w)
  <2> USE DEF Moves, GoTo, Raise, Abort, Recover, files, call, TypeOK, Label, CalmInv, CalmCall
  <2>1. CASE Rebind(w)
    BY <2>1 DEF Rebind
  <2>2. CASE CheckExisting(w)
    BY <2>2 DEF CheckExisting, SameBytes, Published
  <2>3. CASE CreateTemporary(w)
    BY <2>3 DEF CreateTemporary
  <2>4. CASE CheckTemporary(w)
    BY <2>4 DEF CheckTemporary
  <2>5. CASE WriteTemporary(w)
    BY <2>5 DEF WriteTemporary
  <2>6. CASE SyncTemporary(w)
    BY <2>6 DEF SyncTemporary
  <2>7. CASE CheckDirectories(w)
    BY <2>7 DEF CheckDirectories
  <2>8. CASE CheckFresh(w)
    BY <2>8 DEF CheckFresh
  <2>9. CASE Collide(w)
    BY <2>9 DEF Collide
  <2>10. CASE ReadBack(w)
    BY <2>10 DEF ReadBack
  <2>11. CASE Settle(w)
    BY <2>11 DEF Settle
  <2>12. CASE CleanupTemporary(w)
    BY <2>12 DEF CleanupTemporary, Published
  <2>13. QED
    BY <1>4, <2>1, <2>2, <2>3, <2>4, <2>5, <2>6, <2>7, <2>8, <2>9, <2>10, <2>11, <2>12
<1>5. ASSUME NEW w \in Writer, IoError(w) \/ CleanupError(w) \/ ReadBackError(w) \/ Crash(w)
      PROVE  [Store!Next]_Store!vars
  <2> USE DEF Moves, Raise, Abort, Recover, files, call, TypeOK, Label, CalmInv, CalmCall, Calm,
              Spend, Incident
  <2>1. CASE IoError(w)
    <3>1. Moves(w)
      BY <2>1 DEF IoError
    <3>2. QED
      BY <3>1, MovesSimulate
  <2>2. CASE CleanupError(w)
    <3>1. Moves(w)
      BY <2>2 DEF CleanupError
    <3>2. QED
      BY <3>1, MovesSimulate
  <2>3. CASE ReadBackError(w)
    BY <2>3, BoundAssumption DEF ReadBackError
  <2>4. CASE Crash(w)
    <3>1. Moves(w)
      BY <2>4 DEF Crash, Running
    <3>2. QED
      BY <3>1, MovesSimulate
  <2>5. QED
    BY <1>5, <2>1, <2>2, <2>3, <2>4
<1>6. ASSUME NEW w \in Writer,
             RollbackInspect(w) \/ RollbackUnlink(w) \/ RollbackConfirm(w)
      PROVE  FALSE
  BY <1>6 DEF RollbackInspect, RollbackUnlink, RollbackConfirm, CalmInv, CalmCall
<1>7. CASE Load \/ EditEpr \/ UNCHANGED vars
  <2>1. UNCHANGED <<evaluations, target, eer, pc, raised>>
    BY <1>7 DEF Load, EditEpr, vars, files, call
  <2>2. UNCHANGED <<StoredEer, eer>> /\ UNCHANGED Reply
    BY <2>1 DEF StoredEer, TargetAtPath, Reply, Succeeded
  <2>3. QED
    BY <2>2, Stutters
<1>8. ~PowerLoss /\ (\A d \in Dir \cup {NoDir} : ~SwapDirectory(d)) /\ \A d \in Dir : ~RemoveTarget(d)
  BY BoundAssumption DEF PowerLoss, SwapDirectory, RemoveTarget, Spend, Calm, CalmInv
<1>9. QED
  BY <1>1, <1>2, <1>3, <1>4, <1>5, <1>6, <1>7, <1>8, MovesSimulate
  DEF Next, Step, Environment, Store!Next

(* The initial states of the writer are initial states of the store.       *)
LEMMA InitSimulation == Init => Store!Init
  BY SentinelAssumption DEF Init, Store!Init, StoredEer, TargetAtPath, Reply, Succeeded

(* The writer implements the write-once store.                             *)
THEOREM Refinement ==
  ASSUME Calm
  PROVE  Spec => ImplementsWriteOnceStore
<1>1. Init => CalmInv
  BY SentinelAssumption DEF Init, CalmInv, CalmCall, Incident
<1>2. TypeOK /\ IInv /\ CalmInv /\ [Next]_vars => CalmInv' /\ [Store!Next]_Store!vars
  BY CalmInductive, StepSimulation
<1>3. QED
  BY <1>1, <1>2, TypeCorrect, InvHolds, InitSimulation, PTL
  DEF Spec, ImplementsWriteOnceStore, Store!Spec

(* Every call that reports success, for having published or for having     *)
(* found the result, finds its bytes in the directory it verified.         *)
THEOREM SuccessIsBacked ==
  ASSUME Calm
  PROVE  Spec => []SuccessBacked
<1>1. Init => CalmInv
  BY SentinelAssumption DEF Init, CalmInv, CalmCall, Incident
<1>2. TypeOK /\ IInv /\ CalmInv /\ [Next]_vars => CalmInv'
  BY CalmInductive
<1>3. CalmInv => SuccessBacked
  BY DEF CalmInv, CalmCall, Published, TargetAtPath, SuccessBacked, Succeeded
<1>4. QED
  BY <1>1, <1>2, <1>3, TypeCorrect, InvHolds, PTL DEF Spec

-----------------------------------------------------------------------------
(* What readers have got is the published result, which stays.             *)
ReadInv == loaded # {} => TargetAtPath # NoFile /\ loaded \subseteq {eer[TargetAtPath]}

LEMMA ReadInductive ==
  ASSUME Calm, TypeOK, IInv, CalmInv, ReadInv, [Next]_vars
  PROVE  ReadInv'
<1>1. CASE loaded' = loaded
  <2>1. SUFFICES ASSUME loaded # {}, TargetAtPath # NoFile, loaded \subseteq {eer[TargetAtPath]}
                 PROVE  TargetAtPath' = TargetAtPath /\ eer'[TargetAtPath] = eer[TargetAtPath]
    BY <1>1 DEF ReadInv
  <2>2. evaluations # NoDir /\ TargetAtPath = target[evaluations] /\ evaluations \in Dir
    BY <2>1 DEF TargetAtPath, TypeOK
  <2>3. TargetAtPath \in Writer /\ created[TargetAtPath]
    BY <2>1, <2>2 DEF TypeOK, IInv, Owner
  <2>4. evaluations' = evaluations
    <3>1. \A d \in Dir \cup {NoDir} : ~SwapDirectory(d)
      BY BoundAssumption DEF SwapDirectory, Spend, Calm, CalmInv
    <3>2. \A w \in Writer : MakeDirectory(w) => UNCHANGED evaluations
      BY <2>2 DEF MakeDirectory
    <3> QED
      BY <3>1, <3>2 DEF Next, Step, Environment, vars, files, call, BindPlan, Load, EditEpr,
         RemoveTarget, IoError, CleanupError, ReadBackError, Crash, PowerLoss, Rebind,
         CheckExisting, CreateTemporary, CheckTemporary, WriteTemporary, SyncTemporary,
         CheckDirectories, CheckFresh, LinkTemporary, Collide, ReadBack, Settle,
         RollbackInspect, RollbackUnlink, RollbackConfirm, CleanupTemporary
  <2>5. target'[evaluations] = target[evaluations]
    <3>1. ~PowerLoss /\ \A d \in Dir : ~RemoveTarget(d)
      BY BoundAssumption DEF PowerLoss, RemoveTarget, Spend, Calm, CalmInv
    <3>2. \A w \in Writer : ~RollbackUnlink(w)
      BY DEF RollbackUnlink, CalmInv, CalmCall
    <3>3. ASSUME NEW w \in Writer, LinkTemporary(w)
          PROVE  target'[evaluations] = target[evaluations]
      BY <2>1, <2>2, <3>3 DEF LinkTemporary, TypeOK
    <3> QED
      BY <3>1, <3>2, <3>3, TargetSteps
  <2>6. eer'[TargetAtPath] = eer[TargetAtPath]
    <3>1. CASE eer' = eer
      BY <3>1
    <3>2. ASSUME NEW w \in Writer, NEW v \in Eer, BindPlan(w, v)
          PROVE  eer'[TargetAtPath] = eer[TargetAtPath]
      <4>1. ~created[w]
        BY <3>2 DEF BindPlan, IInv, CallInv, BeforeLink
      <4>2. w # TargetAtPath
        BY <4>1, <2>3
      <4> QED
        BY <4>2, <2>3, <3>2 DEF BindPlan, TypeOK
    <3>3. eer' = eer \/ \E w \in Writer, v \in Eer : BindPlan(w, v)
      BY DEF Next, Step, Environment, vars, files, call, Load, EditEpr, SwapDirectory,
         RemoveTarget, IoError, CleanupError, ReadBackError, Crash, PowerLoss, Rebind,
         MakeDirectory,
         CheckExisting, CreateTemporary, CheckTemporary, WriteTemporary, SyncTemporary,
         CheckDirectories, CheckFresh, LinkTemporary, Collide, ReadBack, Settle,
         RollbackInspect, RollbackUnlink, RollbackConfirm, CleanupTemporary
    <3> QED
      BY <3>1, <3>2, <3>3
  <2> QED
    BY <2>2, <2>4, <2>5, <2>6 DEF TargetAtPath
<1>2. CASE loaded' # loaded
  <2>1. Load
    BY <1>2 DEF Next, Step, Environment, vars, files, call, BindPlan, EditEpr, SwapDirectory,
       RemoveTarget, IoError, CleanupError, ReadBackError, Crash, PowerLoss, Rebind,
       MakeDirectory,
       CheckExisting, CreateTemporary, CheckTemporary, WriteTemporary, SyncTemporary,
       CheckDirectories, CheckFresh, LinkTemporary, Collide, ReadBack, Settle,
       RollbackInspect, RollbackUnlink, RollbackConfirm, CleanupTemporary
  <2>2. TargetAtPath # NoFile /\ TargetAtPath' = TargetAtPath /\ eer' = eer
        /\ loaded' = loaded \cup {eer[TargetAtPath]}
    BY <2>1 DEF Load, files, call, TargetAtPath
  <2> QED
    BY <2>2 DEF ReadInv
<1> QED
  BY <1>1, <1>2

(* All readers ever get the same result, the one of every call that        *)
(* reported success.                                                       *)
THEOREM ReadersAlwaysAgree ==
  ASSUME Calm
  PROVE  Spec => []ReadersAgree
<1>1. Init => CalmInv /\ ReadInv
  BY SentinelAssumption DEF Init, CalmInv, CalmCall, Incident, ReadInv
<1>2. TypeOK /\ IInv /\ CalmInv /\ ReadInv /\ [Next]_vars => CalmInv' /\ ReadInv'
  BY CalmInductive, ReadInductive
<1>3. CalmInv /\ ReadInv => ReadersAgree
  BY DEF CalmInv, CalmCall, Published, ReadInv, ReadersAgree, Succeeded
<1>4. QED
  BY <1>1, <1>2, <1>3, TypeCorrect, InvHolds, PTL DEF Spec
=============================================================================
