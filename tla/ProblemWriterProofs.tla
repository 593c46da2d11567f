------------------------ MODULE ProblemWriterProofs ------------------------
(* Proofs about ProblemWriter for any number of calls, sources,            *)
(* provenances and edits.                                                  *)
EXTENDS ProblemWriter, TLAPS

(* A turn of the loop over the provenances has a sidecar and an owner.     *)
LEMMA LinkTypes ==
  /\ Len(Linked) \in Nat
  /\ \A i \in Provenance : Linked[i].sidecar \in Sidecar /\ Linked[i].owner \in Sidecar
  /\ \A s \in Sidecar : s \in Source /\ Consults[s] \subseteq Source
<1>1. Len(Linked) \in Nat
  BY LinkAssumption
<1>2. \A i \in Provenance : Linked[i] \in [sidecar : Sidecar, owner : Sidecar]
  <2> DEFINE Pair == [sidecar : Sidecar, owner : Sidecar]
  <2>1. Linked \in Seq(Pair)
    BY LinkAssumption
  <2> HIDE DEF Pair
  <2>2. \A i \in 1..Len(Linked) : Linked[i] \in Pair
    BY <2>1
  <2>3. QED
    BY <2>2 DEF Pair, Provenance
<1>3. \A s \in Sidecar : s \in Source /\ Consults[s] \subseteq Source
  BY LinkAssumption DEF Source
<1>4. QED
  BY <1>1, <1>2, <1>3

(* What reaching the next provenance may change.                           *)
LEMMA ReachMoves ==
  ASSUME TypeOK, NEW w \in Writer, NEW i \in 1..(Len(Linked) + 1),
         recorded' \in [Writer -> SUBSET Source], Reach(w, i)
  PROVE  /\ turn' \in [Writer -> 1..(Len(Linked) + 1)]
         /\ todo' \in [Writer -> SUBSET Source]
         /\ pc' \in [Writer -> Label]
         /\ failed' = failed
         /\ \A x \in Writer : pc'[x] \in Reality => turn'[x] \in Provenance
         /\ turn'[w] = i
         /\ \/ i \in Provenance /\ pc'[w] = "hold"
            \/ i = Len(Linked) + 1 /\ pc'[w] = "verify" /\ todo'[w] = recorded'[w]
         /\ \A x \in Writer : x # w => UNCHANGED <<pc[x], turn[x], todo[x]>>
<1>1. Len(Linked) \in Nat
  BY LinkTypes
<1>2. i \notin Provenance => i = Len(Linked) + 1
  BY <1>1 DEF Provenance
<1>3. turn' = [turn EXCEPT ![w] = i] /\ failed' = failed
  BY DEF Reach, GoTo
<1>4. CASE i \in Provenance
  <2>1. pc' = [pc EXCEPT ![w] = "hold"] /\ todo' = [todo EXCEPT ![w] = {}]
    BY <1>4 DEF Reach, GoTo
  <2>2. QED
    BY <1>3, <1>4, <2>1 DEF TypeOK, Label, Compiling, Reality
<1>5. CASE i \notin Provenance
  <2>1. pc' = [pc EXCEPT ![w] = "verify"] /\ todo' = [todo EXCEPT ![w] = recorded'[w]]
    BY <1>5 DEF Reach, GoTo
  <2>2. QED
    BY <1>2, <1>3, <1>5, <2>1 DEF TypeOK, Label, Compiling, Reality
<1>6. QED
  BY <1>4, <1>5

(* What one visit of a source may change.                                  *)
LEMMA VisitMoves ==
  ASSUME TypeOK, NEW w \in Writer, NEW s, NEW l \in Label, Visit(w, s, l)
  PROVE  /\ todo' \in [Writer -> SUBSET Source]
         /\ pc' \in [Writer -> Label]
         /\ failed' = failed
         /\ s \in todo[w] /\ s \in Source
         /\ todo'[w] = todo[w] \ {s}
         /\ pc'[w] \in {pc[w], l}
         /\ todo[w] = {s} => pc'[w] = l
         /\ todo[w] # {s} => pc' = pc
         /\ \A x \in Writer : x # w => UNCHANGED <<pc[x], todo[x]>>
BY DEF TypeOK, Visit, GoTo

(* The steps of the compiler after it has been called.                     *)
CompileStep(w) ==
  \/ \E s \in Source : ReadNumbered(w, s) \/ CheckSidecar(w, s) \/ CheckOwner(w, s)
  \/ HoldSidecar(w) \/ HoldOwner(w) \/ CommitOwner(w) \/ CommitSidecar(w) \/ SidecarError(w)

(* All that belongs to one call, its file included.                        *)
Local(w) == <<pc[w], turn[w], todo[w], held[w], recorded[w], seen[w], verdict[w],
              basis[w], asOf[w], author[w], failed[w], bytes[w]>>

(* The compiler's steps touch nothing but the call's own local state.      *)
LEMMA CompileFrame ==
  ASSUME TypeOK, NEW w \in Writer, CompileStep(w)
  PROVE  /\ TypeOK'
         /\ UNCHANGED <<version, files, asOf, author, failed>>
         /\ pc[w] \in Compiling /\ pc'[w] \in Compiling \cup {"verify"}
         /\ \A x \in Writer : x # w => UNCHANGED Local(x)
<1> USE LinkTypes
<1>0. \A s \in Source : version[s] \in 0..MaxEdits
  BY DEF TypeOK, Version
<1>1. ASSUME NEW s \in Source, ReadNumbered(w, s)
      PROVE  /\ TypeOK'
             /\ UNCHANGED <<version, files, asOf, author, failed>>
             /\ pc[w] \in Compiling /\ pc'[w] \in Compiling \cup {"verify"}
             /\ \A x \in Writer : x # w => UNCHANGED Local(x)
  <2>1. /\ UNCHANGED <<version, files, held, verdict, asOf, author>> /\ pc[w] = "read"
        /\ seen' = [seen EXCEPT ![w] = [seen[w] EXCEPT ![s] = version[s]]]
        /\ recorded' = [recorded EXCEPT ![w] = @ \cup {s}]
        /\ basis' = [basis EXCEPT ![w] = [basis[w] EXCEPT ![s] = {version[s]}]]
    BY <1>1 DEF ReadNumbered, TypeOK
  <2>2. [seen[w] EXCEPT ![s] = version[s]] \in Version
    BY <1>0 DEF TypeOK, Version
  <2>3. [basis[w] EXCEPT ![s] = {version[s]}] \in [Source -> SUBSET (0..MaxEdits)]
    BY <1>0 DEF TypeOK
  <2>4. seen' \in [Writer -> Version] /\ recorded' \in [Writer -> SUBSET Source]
        /\ basis' \in [Writer -> [Source -> SUBSET (0..MaxEdits)]]
    BY <2>1, <2>2, <2>3 DEF TypeOK
  <2>5. \A x \in Writer : x # w => UNCHANGED <<seen[x], recorded[x], basis[x]>>
    BY <2>1 DEF TypeOK
  <2>6. CASE Reach(w, 1)
    <3>1. 1 \in 1..(Len(Linked) + 1)
      OBVIOUS
    <3>2. /\ turn' \in [Writer -> 1..(Len(Linked) + 1)] /\ todo' \in [Writer -> SUBSET Source]
          /\ pc' \in [Writer -> Label] /\ failed' = failed
          /\ \A x \in Writer : pc'[x] \in Reality => turn'[x] \in Provenance
          /\ pc'[w] \in {"hold", "verify"}
          /\ \A x \in Writer : x # w => UNCHANGED <<pc[x], turn[x], todo[x]>>
      BY <3>1, <2>4, <2>6, ReachMoves
    <3>3. TypeOK'
      BY <2>1, <2>4, <3>2 DEF TypeOK, files
    <3>4. UNCHANGED <<version, files, asOf, author, failed>>
      BY <2>1, <3>2
    <3>5. pc[w] \in Compiling /\ pc'[w] \in Compiling \cup {"verify"}
      BY <2>1, <3>2 DEF Compiling, Reality
    <3>6. \A x \in Writer : x # w => UNCHANGED Local(x)
      BY <2>1, <2>5, <3>2 DEF files, Local
    <3>7. QED
      BY <3>3, <3>4, <3>5, <3>6
  <2>7. CASE todo' = [todo EXCEPT ![w] = @ \ {s}] /\ UNCHANGED <<pc, failed, turn>>
    BY <2>1, <2>4, <2>5, <2>7 DEF TypeOK, files, Local, Compiling, Reality
  <2>8. QED
    BY <1>1, <2>6, <2>7 DEF ReadNumbered
<1>2. ASSUME NEW s \in Sidecar, NEW l \in Reality, NEW next \in Reality, Hold(w, s, l, next)
      PROVE  /\ TypeOK'
             /\ UNCHANGED <<version, files, asOf, author, failed>>
             /\ pc[w] \in Compiling /\ pc'[w] \in Compiling \cup {"verify"}
             /\ \A x \in Writer : x # w => UNCHANGED Local(x)
  <2>1. /\ UNCHANGED <<version, files, turn, recorded, seen, verdict, asOf, author, failed>>
        /\ pc[w] = l /\ pc' = [pc EXCEPT ![w] = next]
        /\ held' = [held EXCEPT ![w] = [held[w] EXCEPT ![s] = version[s]]]
        /\ basis' = [basis EXCEPT ![w] = [basis[w] EXCEPT ![s] = {version[s]}]]
        /\ todo' = [todo EXCEPT ![w] = Consults[s]]
    BY <1>2 DEF Hold, GoTo, TypeOK
  <2>2. [held[w] EXCEPT ![s] = version[s]] \in [Sidecar -> 0..MaxEdits]
    BY <1>0 DEF TypeOK
  <2>3. [basis[w] EXCEPT ![s] = {version[s]}] \in [Source -> SUBSET (0..MaxEdits)]
    BY <1>0 DEF TypeOK
  <2>4. TypeOK'
    BY <2>1, <2>2, <2>3 DEF TypeOK, files, Label, Compiling
  <2>5. QED
    BY <2>1, <2>4 DEF TypeOK, files, Local, Compiling
<1>3. ASSUME NEW s \in Source, NEW own, NEW l \in Reality, NEW next \in Reality,
             CheckFile(w, own, s, l, next)
      PROVE  /\ TypeOK'
             /\ UNCHANGED <<version, files, asOf, author, failed>>
             /\ pc[w] \in Compiling /\ pc'[w] \in Compiling \cup {"verify"}
             /\ \A x \in Writer : x # w => UNCHANGED Local(x)
  <2>1. /\ UNCHANGED <<version, files, turn, held, recorded, seen, verdict, asOf, author>>
        /\ pc[w] = l /\ Visit(w, s, next)
        /\ basis' = [basis EXCEPT ![w] = [basis[w] EXCEPT ![s] = @ \cup {version[s]}]]
    BY <1>3 DEF CheckFile, TypeOK
  <2>2. [basis[w] EXCEPT ![s] = @ \cup {version[s]}] \in [Source -> SUBSET (0..MaxEdits)]
    BY <1>0 DEF TypeOK
  <2>3. next \in Label
    BY DEF Label, Compiling
  <2>4. TypeOK'
    BY <2>1, <2>2, <2>3, VisitMoves DEF TypeOK, files
  <2>5. QED
    BY <2>1, <2>3, <2>4, VisitMoves DEF TypeOK, files, Local, Compiling
<1>4. ASSUME NEW s \in Sidecar, NEW l \in Reality, pc[w] = l, Record(w, s) \/ UNCHANGED <<recorded, seen>>,
             \/ GoTo(w, "commit") /\ UNCHANGED <<todo, turn, verdict>>
             \/ \E why \in Verdict : Finding(w, why),
             UNCHANGED <<version, files, held, basis, asOf, author>>
      PROVE  /\ TypeOK'
             /\ UNCHANGED <<version, files, asOf, author, failed>>
             /\ pc[w] \in Compiling /\ pc'[w] \in Compiling \cup {"verify"}
             /\ \A x \in Writer : x # w => UNCHANGED Local(x)
  <2>1. [seen[w] EXCEPT ![s] = held[w][s]] \in Version
    BY DEF TypeOK, Version
  <2>2. \/ UNCHANGED <<recorded, seen>>
        \/ /\ seen' = [seen EXCEPT ![w] = [seen[w] EXCEPT ![s] = held[w][s]]]
           /\ recorded' = [recorded EXCEPT ![w] = @ \cup {s}]
    BY <1>4 DEF Record, TypeOK
  <2>3. /\ seen' \in [Writer -> Version] /\ recorded' \in [Writer -> SUBSET Source]
        /\ \A x \in Writer : x # w => UNCHANGED <<seen[x], recorded[x]>>
    <3>1. s \in Source
      OBVIOUS
    <3>2. CASE UNCHANGED <<recorded, seen>>
      BY <3>2 DEF TypeOK
    <3>3. CASE /\ seen' = [seen EXCEPT ![w] = [seen[w] EXCEPT ![s] = held[w][s]]]
               /\ recorded' = [recorded EXCEPT ![w] = @ \cup {s}]
      BY <2>1, <3>1, <3>3 DEF TypeOK
    <3>4. QED
      BY <2>2, <3>2, <3>3
  <2>4. turn[w] \in Provenance /\ turn[w] + 1 \in 1..(Len(Linked) + 1)
    BY <1>4 DEF TypeOK, Provenance
  <2>5. CASE GoTo(w, "commit") /\ UNCHANGED <<todo, turn, verdict>>
    BY <1>4, <2>3, <2>4, <2>5 DEF TypeOK, GoTo, files, Local, Label, Compiling, Reality
  <2>6. ASSUME NEW why \in Verdict, Finding(w, why)
        PROVE  /\ TypeOK'
               /\ UNCHANGED <<version, files, asOf, author, failed>>
               /\ pc[w] \in Compiling /\ pc'[w] \in Compiling \cup {"verify"}
               /\ \A x \in Writer : x # w => UNCHANGED Local(x)
    <3>1. verdict' = [verdict EXCEPT ![w] = [verdict[w] EXCEPT ![turn[w]] = why]]
      BY <2>6 DEF Finding, TypeOK
    <3>2. [verdict[w] EXCEPT ![turn[w]] = why] \in [Provenance -> Verdict]
      BY DEF TypeOK
    <3>3. verdict' \in [Writer -> [Provenance -> Verdict]]
          /\ \A x \in Writer : x # w => UNCHANGED verdict[x]
      BY <3>1, <3>2 DEF TypeOK
    <3>4. Reach(w, turn[w] + 1)
      BY <2>6 DEF Finding
    <3>5. TypeOK'
      BY <1>4, <2>3, <2>4, <3>3, <3>4, ReachMoves DEF TypeOK, files
    <3>6. QED
      BY <1>4, <2>3, <2>4, <3>3, <3>4, <3>5, ReachMoves DEF files, Local, Compiling, Reality
  <2>7. QED
    BY <1>4, <2>5, <2>6
<1>5. pc[w] \in Reality => turn[w] \in Provenance /\ Linking(w) \in Sidecar /\ Owning(w) \in Sidecar
  BY DEF TypeOK, Linking, Owning
<1>6. ASSUME NEW s \in Source, CheckSidecar(w, s) \/ CheckOwner(w, s)
      PROVE  /\ TypeOK'
             /\ UNCHANGED <<version, files, asOf, author, failed>>
             /\ pc[w] \in Compiling /\ pc'[w] \in Compiling \cup {"verify"}
             /\ \A x \in Writer : x # w => UNCHANGED Local(x)
  <2> DEFINE next == IF Owning(w) = Linking(w) THEN "commit" ELSE "holdOwner"
  <2>1. next \in Reality /\ {"check", "checkOwner", "commitOwner"} \subseteq Reality
    BY DEF Reality
  <2>2. \/ CheckFile(w, Linking(w), s, "check", next)
        \/ CheckFile(w, Owning(w), s, "checkOwner", "commitOwner")
    BY <1>6 DEF CheckSidecar, CheckOwner
  <2> HIDE DEF next
  <2>3. QED
    BY <1>3, <2>1, <2>2
<1>7. HoldSidecar(w) \/ HoldOwner(w)
      => \E s \in Sidecar, l \in Reality, next \in Reality : Hold(w, s, l, next)
  BY <1>5 DEF HoldSidecar, HoldOwner, Hold, Reality
<1>8. CASE CommitOwner(w)
  BY <1>4, <1>5, <1>8 DEF CommitOwner, Reality, Verdict
<1>9. CASE CommitSidecar(w)
  BY <1>4, <1>5, <1>9 DEF CommitSidecar, Reality, Verdict
<1>10. CASE SidecarError(w)
  BY <1>4, <1>5, <1>10 DEF SidecarError, Reality, Verdict
<1>11. QED
  BY <1>1, <1>2, <1>3, <1>6, <1>7, <1>8, <1>9, <1>10 DEF CompileStep

LEMMA FreshMoves ==
  ASSUME TypeOK, NEW w \in Writer, NEW s \in Source, NEW l,
         NEW next \in Label, NEW abort \in Label, AssertSourceFresh(w, s, l, next, abort),
         {l, next, abort} \cap Reality = {}
  PROVE  TypeOK'
<1>1. CASE Visit(w, s, next)
  BY <1>1, VisitMoves DEF AssertSourceFresh, TypeOK, files, readings, epr
<1>2. CASE Fail(w, abort) /\ UNCHANGED todo
  BY <1>2 DEF AssertSourceFresh, TypeOK, files, readings, epr, Fail
<1>3. QED
  BY <1>1, <1>2 DEF AssertSourceFresh

(* Every variable stays in its range.                                      *)
THEOREM TypeCorrect == Spec => []TypeOK
<1>1. Init => TypeOK
  <2> SUFFICES ASSUME Init PROVE TypeOK
    OBVIOUS
  <2>1. version \in Version /\ 0 \in 0..MaxEdits
    BY BoundAssumption DEF Init, Version
  <2>2. turn \in [Writer -> 1..(Len(Linked) + 1)]
    BY LinkTypes DEF Init
  <2>3. verdict \in [Writer -> [Provenance -> Verdict]]
    BY DEF Init, Verdict
  <2>4. todo \in [Writer -> SUBSET Source]
    BY DEF Init, Source
  <2>5. QED
    BY <2>1, <2>2, <2>3, <2>4 DEF Init, TypeOK, Label, Compiling, Reality
<1>2. TypeOK /\ [Next]_vars => TypeOK'
  <2> SUFFICES ASSUME TypeOK, [Next]_vars PROVE TypeOK'
    OBVIOUS
  <2>1. ASSUME NEW w \in Writer, CompileStep(w) PROVE TypeOK'
    BY <2>1, CompileFrame
  <2>2. ASSUME NEW w \in Writer, NEW s \in Source, VerifySource(w, s) PROVE TypeOK'
    BY <2>2, FreshMoves DEF VerifySource, Label, Reality
  <2>3. ASSUME NEW w \in Writer, NEW s \in Source, ReverifySource(w, s) PROVE TypeOK'
    BY <2>3, FreshMoves DEF ReverifySource, Label, Reality
  <2> USE DEF TypeOK, Label, Compiling, Reality, files, readings, epr, GoTo, Fail
  <2>4. ASSUME NEW w \in Writer, Compile(w) PROVE TypeOK'
    BY <2>4 DEF Compile
  <2>5. ASSUME NEW w \in Writer, CheckExisting(w) PROVE TypeOK'
    BY <2>5 DEF CheckExisting
  <2>6. ASSUME NEW w \in Writer, CreateTemporary(w) PROVE TypeOK'
    BY <2>6 DEF CreateTemporary
  <2>7. ASSUME NEW w \in Writer, WriteTemporary(w) PROVE TypeOK'
    BY <2>7 DEF WriteTemporary
  <2>8. ASSUME NEW w \in Writer, SyncTemporary(w) PROVE TypeOK'
    BY <2>8 DEF SyncTemporary
  <2>9. ASSUME NEW w \in Writer, LinkTemporary(w) PROVE TypeOK'
    BY <2>9 DEF LinkTemporary
  <2>10. ASSUME NEW w \in Writer, Collide(w) PROVE TypeOK'
    BY <2>10 DEF Collide
  <2>11. ASSUME NEW w \in Writer, Cleanup(w) PROVE TypeOK'
    BY <2>11 DEF Cleanup
  <2>12. ASSUME NEW w \in Writer, IoError(w) PROVE TypeOK'
    BY <2>12 DEF IoError
  <2>13. ASSUME NEW w \in Writer, Crash(w) PROVE TypeOK'
    BY <2>13 DEF Crash, Killed
  <2>14. ASSUME NEW s \in Source, EditSource(s) PROVE TypeOK'
    BY <2>14, BoundAssumption DEF EditSource, Version
  <2>15. CASE PowerLoss
    BY <2>15 DEF PowerLoss, Killed
  <2>16. CASE UNCHANGED vars
    BY <2>16 DEF vars
  <2>17. QED
    BY <2>1, <2>2, <2>3, <2>4, <2>5, <2>6, <2>7, <2>8, <2>9, <2>10, <2>11, <2>12, <2>13,
       <2>14, <2>15, <2>16 DEF Next, Step, CompileStep
<1>3. QED
  BY <1>1, <1>2, PTL DEF Spec

-----------------------------------------------------------------------------
(* The inductive invariant of the writer.  Versions only grow, so a source *)
(* found unchanged in the last pass had that version when the pass began.  *)

Published == {"cleanup", "done", "crashed"}

Fresh(w) == \A s \in recorded[w] : seen[w][s] = asOf[w][s]

Backed(w) == target # NoFile /\ Epr(target) = Epr(w)

SnapInv(w) ==
  /\ \A s \in Source : seen[w][s] <= version[s] /\ asOf[w][s] <= version[s]
  /\ \A s \in Sidecar : held[w][s] <= version[s]
  /\ pc[w] = "reverify" => \A s \in recorded[w] :
       seen[w][s] <= asOf[w][s] /\ (s \notin todo[w] => seen[w][s] = asOf[w][s])
  /\ pc[w] = "link" => Fresh(w)

FileInv(w) ==
  /\ pc[w] = "sync" => bytes[w] = "cached"
  /\ pc[w] \in {"reverify", "link"} => bytes[w] = "durable"
  /\ target = w => pc[w] \in Published /\ bytes[w] = "durable" /\ Fresh(w)

BackedInv(w) ==
  ~entryLost /\ ~failed[w] /\ pc[w] \in {"cleanup", "done"} => Backed(w)

IInv == \A w \in Writer : SnapInv(w) /\ FileInv(w) /\ BackedInv(w)

(* What an unchanged call knows does not change with another call's step.  *)
LEMMA OthersKept ==
  ASSUME TypeOK, IInv, NEW w \in Writer, CompileStep(w), NEW x \in Writer, x # w
  PROVE  SnapInv(x)' /\ FileInv(x)' /\ BackedInv(x)'
<1>1. UNCHANGED <<version, target, entryLost>> /\ UNCHANGED Local(x) /\ pc[w] \in Compiling
  BY CompileFrame DEF files
<1>2. UNCHANGED <<pc[x], todo[x], held[x], recorded[x], seen[x], verdict[x], asOf[x], author[x],
                  failed[x], bytes[x]>>
  BY <1>1 DEF Local
<1>3. SnapInv(x)' /\ FileInv(x)'
  BY <1>1, <1>2 DEF IInv, SnapInv, FileInv, Fresh
<1>4. target # w
  BY <1>1 DEF IInv, FileInv, Published, Compiling, Reality
<1>5. \A y \in Writer : y # w => Epr(y)' = Epr(y)
  BY CompileFrame DEF Epr, Local
<1>6. Backed(x) => Backed(x)'
  BY <1>1, <1>4, <1>5 DEF Backed, TypeOK
<1>7. QED
  BY <1>1, <1>2, <1>3, <1>6 DEF IInv, BackedInv

LEMMA CompileInductive ==
  ASSUME TypeOK, IInv, NEW w \in Writer, CompileStep(w)
  PROVE  IInv'
<1>1. /\ UNCHANGED <<version, target, asOf>> /\ pc[w] \in Compiling
      /\ pc'[w] \in Compiling \cup {"verify"}
  BY CompileFrame DEF files
<1>2. /\ seen[w] \in Version /\ version \in Version /\ held[w] \in [Sidecar -> 0..MaxEdits]
      /\ \A s \in Source : version[s] \in Nat
      /\ \A s \in Sidecar : s \in Source
  BY LinkTypes, BoundAssumption DEF TypeOK, Version
<1>3. /\ \A s \in Source : seen'[w][s] <= version[s]
      /\ \A s \in Sidecar : held'[w][s] <= version[s]
  <2>1. ASSUME NEW s \in Source, ReadNumbered(w, s)
        PROVE  /\ \A x \in Source : seen'[w][x] <= version[x]
               /\ \A x \in Sidecar : held'[w][x] <= version[x]
    <3>1. seen'[w] = [seen[w] EXCEPT ![s] = version[s]] /\ held' = held
      BY <2>1 DEF ReadNumbered, TypeOK
    <3>2. QED
      BY <3>1, <1>2 DEF IInv, SnapInv, Version
  <2>2. ASSUME NEW s \in Sidecar, NEW l, NEW next, Hold(w, s, l, next)
        PROVE  /\ \A x \in Source : seen'[w][x] <= version[x]
               /\ \A x \in Sidecar : held'[w][x] <= version[x]
    <3>1. held'[w] = [held[w] EXCEPT ![s] = version[s]] /\ seen' = seen
      BY <2>2 DEF Hold, TypeOK
    <3>2. QED
      BY <3>1, <1>2 DEF IInv, SnapInv
  <2>3. ASSUME NEW s \in Sidecar, Record(w, s), held' = held
        PROVE  /\ \A x \in Source : seen'[w][x] <= version[x]
               /\ \A x \in Sidecar : held'[w][x] <= version[x]
    <3>1. seen'[w] = [seen[w] EXCEPT ![s] = held[w][s]]
      BY <2>3 DEF Record, TypeOK
    <3>2. QED
      BY <3>1, <2>3, <1>2 DEF IInv, SnapInv, Version
  <2>4. CASE UNCHANGED <<seen, held>>
    BY <2>4 DEF IInv, SnapInv
  <2>5. pc[w] \in Reality => Linking(w) \in Sidecar /\ Owning(w) \in Sidecar
    BY LinkTypes DEF TypeOK, Linking, Owning
  <2>6. CASE HoldSidecar(w) \/ HoldOwner(w)
    BY <2>2, <2>5, <2>6 DEF HoldSidecar, HoldOwner, Hold, Reality
  <2>7. CASE CommitOwner(w) \/ CommitSidecar(w)
    BY <2>3, <2>5, <2>7 DEF CommitOwner, CommitSidecar, Reality
  <2>8. QED
    BY <2>1, <2>4, <2>6, <2>7 DEF CompileStep, CheckSidecar, CheckOwner, CheckFile, SidecarError
<1>4. SnapInv(w)'
  BY <1>1, <1>3 DEF IInv, SnapInv, Compiling, Reality
<1>5. FileInv(w)' /\ BackedInv(w)'
  BY <1>1 DEF IInv, FileInv, BackedInv, Published, Compiling, Reality
<1>6. QED
  BY <1>4, <1>5, OthersKept DEF IInv

LEMMA FreshInductive ==
  ASSUME TypeOK, IInv, NEW w \in Writer, NEW s \in Source, NEW l, NEW next, NEW abort,
         <<l, next, abort>> \in {<<"verify", "existing", "done">>, <<"reverify", "link", "cleanup">>},
         AssertSourceFresh(w, s, l, next, abort)
  PROVE  IInv'
<1> USE DEF AssertSourceFresh
<1>1. UNCHANGED <<version, target, bytes, entryLost, held, recorded, seen, verdict, asOf, author>>
  BY DEF files, readings, epr
<1>2. pc[w] = l /\ failed' \in [Writer -> BOOLEAN]
  BY DEF Visit, GoTo, Fail, TypeOK
<1>0. /\ \A x \in Writer : Epr(x)' = Epr(x)
      /\ target \in Writer \cup {NoFile}
  BY <1>1 DEF Epr, TypeOK
<1>00. /\ pc \in [Writer -> Label] /\ failed \in [Writer -> BOOLEAN] /\ todo \in [Writer -> SUBSET Source]
  BY DEF TypeOK
<1>3. CASE version[s] # seen[w][s]
  <2>1. pc' = [pc EXCEPT ![w] = abort] /\ failed' = [failed EXCEPT ![w] = TRUE] /\ todo' = todo
    BY <1>3 DEF Visit, Fail
  <2>2. \A x \in Writer : SnapInv(x)'
    BY <1>1, <1>2, <1>00, <2>1 DEF IInv, SnapInv, Fresh
  <2>3. \A x \in Writer : FileInv(x)'
    BY <1>1, <1>2, <1>0, <1>00, <2>1 DEF IInv, FileInv, Fresh, Published
  <2>4. \A x \in Writer : BackedInv(x)'
    BY <1>1, <1>2, <1>0, <1>00, <2>1 DEF IInv, BackedInv, Backed
  <2>5. QED
    BY <2>2, <2>3, <2>4 DEF IInv
<1>4. CASE version[s] = seen[w][s] /\ Visit(w, s, next)
  <2>1. seen[w] \in Version /\ asOf[w] \in Version /\ version \in Version
    BY DEF TypeOK
  <2>2. l = "reverify" /\ s \in recorded[w] => seen[w][s] = asOf[w][s]
    <3>1. SnapInv(w)
      BY DEF IInv
    <3>2. SUFFICES ASSUME pc[w] = "reverify", s \in recorded[w] PROVE seen[w][s] = asOf[w][s]
      BY <1>2
    <3>3. seen[w][s] <= asOf[w][s] /\ asOf[w][s] <= version[s]
      BY <3>1, <3>2 DEF SnapInv
    <3>4. seen[w][s] \in Nat /\ asOf[w][s] \in Nat /\ version[s] \in Nat
      BY <2>1, BoundAssumption DEF Version
    <3>5. QED
      BY <1>4, <3>3, <3>4
  <2>3. failed' = failed /\ s \in todo[w]
    BY <1>4 DEF Visit, GoTo
  <2>4. CASE todo[w] = {s}
    <3>1. todo' = [todo EXCEPT ![w] = todo[w] \ {s}] /\ pc' = [pc EXCEPT ![w] = next]
      BY <1>4, <2>4 DEF Visit, GoTo
    <3>2. l = "reverify" => Fresh(w)
      BY <1>2, <2>2, <2>4 DEF IInv, SnapInv, Fresh
    <3>3. \A x \in Writer : SnapInv(x)'
      BY <1>1, <1>2, <1>00, <3>1, <3>2 DEF IInv, SnapInv, Fresh
    <3>4. \A x \in Writer : FileInv(x)'
      BY <1>1, <1>2, <1>0, <1>00, <3>1 DEF IInv, FileInv, Fresh, Published
    <3>5. \A x \in Writer : BackedInv(x)'
      BY <1>1, <1>2, <1>0, <1>00, <2>3, <3>1 DEF IInv, BackedInv, Backed
    <3>6. QED
      BY <3>3, <3>4, <3>5 DEF IInv
  <2>5. CASE todo[w] # {s}
    <3>1. todo' = [todo EXCEPT ![w] = todo[w] \ {s}] /\ pc' = pc
      BY <1>4, <2>5 DEF Visit
    <3>2. \A x \in Writer : SnapInv(x)'
      BY <1>1, <1>2, <1>00, <2>2, <3>1 DEF IInv, SnapInv, Fresh
    <3>3. \A x \in Writer : FileInv(x)'
      BY <1>1, <1>2, <1>0, <1>00, <3>1 DEF IInv, FileInv, Fresh, Published
    <3>4. \A x \in Writer : BackedInv(x)'
      BY <1>1, <1>2, <1>0, <1>00, <2>3, <3>1 DEF IInv, BackedInv, Backed
    <3>5. QED
      BY <3>2, <3>3, <3>4 DEF IInv
  <2>6. QED
    BY <2>4, <2>5
<1>5. QED
  BY <1>3, <1>4

LEMMA InvInductive == TypeOK /\ IInv /\ [Next]_vars => IInv'
<1> SUFFICES ASSUME TypeOK, IInv, [Next]_vars PROVE IInv'
  OBVIOUS
<1>1. ASSUME NEW w \in Writer, CompileStep(w) PROVE IInv'
  BY <1>1, CompileInductive
<1>2. ASSUME NEW w \in Writer, NEW s \in Source, VerifySource(w, s) PROVE IInv'
  BY <1>2, FreshInductive DEF VerifySource
<1>3. ASSUME NEW w \in Writer, NEW s \in Source, ReverifySource(w, s) PROVE IInv'
  BY <1>3, FreshInductive DEF ReverifySource
<1> USE DEF IInv, SnapInv, FileInv, BackedInv, Backed, Fresh, Published, files, readings, epr,
            GoTo, Fail
<1>a. /\ pc \in [Writer -> Label] /\ failed \in [Writer -> BOOLEAN]
      /\ todo \in [Writer -> SUBSET Source] /\ target \in Writer \cup {NoFile}
      /\ bytes \in [Writer -> {"empty", "torn", "cached", "durable"}]
  BY DEF TypeOK
<1>b. /\ version \in Version /\ seen \in [Writer -> Version] /\ asOf \in [Writer -> Version]
      /\ held \in [Writer -> [Sidecar -> 0..MaxEdits]] /\ recorded \in [Writer -> SUBSET Source]
  BY DEF TypeOK
<1>c. UNCHANGED <<seen, verdict, author>> => \A x \in Writer : Epr(x)' = Epr(x)
  BY DEF Epr
<1>4. ASSUME NEW w \in Writer, Compile(w) PROVE IInv'
  BY <1>4, <1>a, <1>c DEF Compile
<1>5. ASSUME NEW w \in Writer, CheckExisting(w) PROVE IInv'
  BY <1>5, <1>a, <1>c DEF CheckExisting
<1>6. ASSUME NEW w \in Writer, CreateTemporary(w) PROVE IInv'
  BY <1>6, <1>a, <1>c DEF CreateTemporary
<1>7. ASSUME NEW w \in Writer, WriteTemporary(w) PROVE IInv'
  BY <1>7, <1>a, <1>c DEF WriteTemporary
<1>8. ASSUME NEW w \in Writer, SyncTemporary(w) PROVE IInv'
  BY <1>8, <1>a, <1>b, <1>c, BoundAssumption DEF SyncTemporary, Version
<1>9. ASSUME NEW w \in Writer, LinkTemporary(w) PROVE IInv'
  BY <1>9, <1>a, <1>c, SentinelAssumption DEF LinkTemporary
<1>10. ASSUME NEW w \in Writer, Collide(w) PROVE IInv'
  BY <1>10, <1>a, <1>c DEF Collide
<1>11. ASSUME NEW w \in Writer, Cleanup(w) PROVE IInv'
  BY <1>11, <1>a, <1>c DEF Cleanup
<1>12. ASSUME NEW w \in Writer, IoError(w) PROVE IInv'
  BY <1>12, <1>a, <1>c DEF IoError, Compiling, Reality
<1>13. ASSUME NEW w \in Writer, Crash(w) PROVE IInv'
  BY <1>13, <1>a, <1>c DEF Crash, Killed, Running, Compiling, Reality
<1>14. ASSUME NEW s \in Source, EditSource(s) PROVE IInv'
  BY <1>14, <1>a, <1>b, <1>c, BoundAssumption, LinkTypes DEF EditSource, Version
<1>15. CASE PowerLoss
  <2>1. ASSUME NEW w \in Writer PROVE SnapInv(w)' /\ FileInv(w)' /\ BackedInv(w)'
    <3>1. /\ UNCHANGED <<version, todo, held, recorded, seen, verdict, asOf, author, failed>>
          /\ target' = target \/ (target' = NoFile /\ entryLost')
          /\ entryLost => entryLost'
      BY <1>15 DEF PowerLoss
    <3>2. pc'[w] = IF Running(w) THEN Killed(w) ELSE pc[w]
      BY <1>15 DEF PowerLoss
    <3>3. bytes[w] = "durable" => bytes'[w] = "durable"
      BY <1>15 DEF PowerLoss
    <3>4. pc'[w] = pc[w] \/ pc'[w] \in {"crashed", "uncompiled"}
      BY <3>2 DEF Killed
    <3>5. SnapInv(w)'
      BY <3>1, <3>4
    <3>6. pc[w] = "sync" => pc'[w] = "crashed"
      BY <3>2 DEF Running, Killed, Compiling, Reality
    <3>7. pc[w] \in Published => pc'[w] \in Published
      BY <3>2 DEF Running, Killed, Compiling, Reality
    <3>8. FileInv(w)'
      BY <3>1, <3>3, <3>4, <3>6, <3>7, SentinelAssumption
    <3>9. BackedInv(w)'
      <4>1. Epr(w)' = Epr(w)
        BY <1>c, <3>1 DEF Epr
      <4>2. target' = target => Epr(target)' = Epr(target)
        BY <3>1 DEF Epr
      <4>3. QED
        BY <4>1, <4>2, <3>1, <3>4
    <3>10. QED
      BY <3>5, <3>8, <3>9
  <2> HIDE DEF SnapInv, FileInv, BackedInv
  <2>2. QED
    BY <2>1
<1>16. CASE UNCHANGED vars
  <2>1. Epr(target)' = Epr(target) /\ \A w \in Writer : Epr(w)' = Epr(w)
    BY <1>16 DEF vars, Epr
  <2>2. QED
    BY <1>16, <2>1 DEF vars
<1>17. QED
  BY <1>1, <1>2, <1>3, <1>4, <1>5, <1>6, <1>7, <1>8, <1>9, <1>10, <1>11, <1>12, <1>13,
     <1>14, <1>15, <1>16 DEF Next, Step, CompileStep

LEMMA InvHolds == Spec => []IInv
<1>1. Init => IInv
  BY BoundAssumption, SentinelAssumption, LinkTypes
  DEF Init, IInv, SnapInv, FileInv, BackedInv, Published
<1>2. QED
  BY <1>1, TypeCorrect, InvInductive, PTL DEF Spec

(* A published EPR is complete, whatever fails.                            *)
THEOREM PublishedIsComplete == Spec => []PublishedComplete
<1>1. TypeOK /\ IInv => PublishedComplete
  BY DEF TypeOK, IInv, FileInv, PublishedComplete
<1>2. QED
  BY <1>1, TypeCorrect, InvHolds, PTL

(* A call that reports success finds its own EPR published.                *)
THEOREM SuccessIsBacked == Spec => []SuccessBacked
<1>1. IInv => SuccessBacked
  BY DEF IInv, BackedInv, Backed, SuccessBacked, Succeeded
<1>2. QED
  BY <1>1, InvHolds, PTL

-----------------------------------------------------------------------------
(* What has been recorded.  A provenance that has been dealt with and has  *)
(* no finding has everything it rests on recorded; and its sidecar keeps   *)
(* the hash declared, if no later provenance records it.                   *)

Answered(w, i) ==
  /\ Linked[i].sidecar \in recorded[w] /\ Linked[i].owner \in recorded[w]
  /\ RecordsLast(i) => seen[w][Linked[i].sidecar] = Declares[author[w]][i]

RecordInv(w) ==
  /\ pc[w] \in {"compile", "read"} => turn[w] = 1 /\ Numbered \subseteq todo[w] \cup recorded[w]
  /\ pc[w] \notin {"compile", "read", "uncompiled"} => Numbered \subseteq recorded[w]
  /\ pc[w] \notin Compiling \cup {"compile", "uncompiled"} => turn[w] = Len(Linked) + 1
  /\ pc[w] = "commit" => Owning(w) \in recorded[w] \cup {Linking(w)}
  /\ \A i \in Provenance : i < turn[w] /\ verdict[w][i] = "supported" => Answered(w, i)

(* Whatever was read of a recorded source since it was read for its hash   *)
(* lies between the version recorded and the current one, and where these  *)
(* are equal nothing else can have been read.  The bytes in hand are to    *)
(* the reads of a validator what the hash will be.                         *)

Known(w, s) ==
  basis[w][s] # {} /\ \A v \in basis[w][s] : seen[w][s] <= v /\ v <= version[s]

InHand(w, s) ==
  basis[w][s] # {} /\ \A v \in basis[w][s] : held[w][s] <= v /\ v <= version[s]

Exact(w) == \A s \in recorded[w] : basis[w][s] = {seen[w][s]}

Checked == {"existing", "mkstemp", "write", "sync", "reverify", "link"}

BasisInv(w) ==
  /\ pc[w] \in Compiling \cup {"compile", "verify"} => \A s \in recorded[w] : Known(w, s)
  /\ pc[w] \in Reality \ {"hold"} => InHand(w, Linking(w))
  /\ pc[w] \in {"checkOwner", "commitOwner"} => InHand(w, Owning(w))
  /\ pc[w] = "verify" => \A s \in recorded[w] : s \in todo[w] \/ basis[w][s] = {seen[w][s]}
  /\ pc[w] \in Checked \/ target = w => Exact(w)

(* A numbered file is recorded as it is read.                              *)
LEMMA NumberedKnown ==
  ASSUME TypeOK, IInv, NEW w \in Writer, RecordInv(w), BasisInv(w),
         NEW s \in Source, ReadNumbered(w, s)
  PROVE  RecordInv(w)' /\ BasisInv(w)'
<1>1. /\ pc[w] = "read" /\ s \in todo[w] /\ UNCHANGED <<version, target, verdict, author>>
      /\ seen'[w] = [seen[w] EXCEPT ![s] = version[s]]
      /\ recorded'[w] = recorded[w] \cup {s}
      /\ basis'[w] = [basis[w] EXCEPT ![s] = {version[s]}]
  BY DEF ReadNumbered, files, TypeOK
<1>2. /\ seen[w] \in Version /\ recorded[w] \subseteq Source /\ version[s] \in Nat
      /\ basis[w] \in [Source -> SUBSET (0..MaxEdits)]
      /\ \A x \in Source : seen'[w][x] = IF x = s THEN version[s] ELSE seen[w][x]
      /\ \A x \in Source : basis'[w][x] = IF x = s THEN {version[s]} ELSE basis[w][x]
  BY <1>1, BoundAssumption DEF TypeOK, Version
<1>3. \A x \in recorded'[w] : Known(w, x)'
  BY <1>1, <1>2 DEF BasisInv, Known, Compiling
<1>4. target # w
  BY <1>1 DEF IInv, FileInv, Published
<1>5. turn[w] = 1 /\ Numbered \subseteq todo[w] \cup recorded[w]
  BY <1>1 DEF RecordInv
<1>6. CASE todo[w] = {s}
  <2>1. Reach(w, 1) /\ 1 \in 1..(Len(Linked) + 1) /\ recorded' \in [Writer -> SUBSET Source]
    BY <1>6, LinkTypes, CompileFrame DEF ReadNumbered, CompileStep, TypeOK
  <2>2. /\ turn'[w] = 1
        /\ \/ pc'[w] = "hold"
           \/ pc'[w] = "verify" /\ todo'[w] = recorded'[w] /\ turn'[w] = Len(Linked) + 1
    BY <2>1, ReachMoves
  <2>3. Numbered \subseteq recorded'[w]
    BY <1>1, <1>5, <1>6
  <2>4. RecordInv(w)'
    BY <2>2, <2>3 DEF RecordInv, Provenance, Compiling, Reality
  <2>5. BasisInv(w)'
    BY <1>1, <1>3, <1>4, <2>2 DEF BasisInv, Checked, Reality
  <2>6. QED
    BY <2>4, <2>5
<1>7. CASE todo[w] # {s}
  <2>1. todo'[w] = todo[w] \ {s} /\ pc' = pc /\ turn' = turn
    BY <1>7 DEF ReadNumbered, TypeOK
  <2>2. RecordInv(w)'
    BY <1>1, <1>5, <2>1 DEF RecordInv, Provenance, Compiling
  <2>3. BasisInv(w)'
    BY <1>1, <1>3, <1>4, <2>1 DEF BasisInv, Checked, Reality
  <2>4. QED
    BY <2>2, <2>3
<1>8. QED
  BY <1>6, <1>7

(* The bytes of a sidecar are taken in hand.                               *)
LEMMA HoldKnown ==
  ASSUME TypeOK, IInv, NEW w \in Writer, RecordInv(w), BasisInv(w),
         HoldSidecar(w) \/ HoldOwner(w)
  PROVE  RecordInv(w)' /\ BasisInv(w)'
<1>1. pc[w] \in Reality /\ Linking(w) \in Sidecar /\ Owning(w) \in Sidecar
  BY LinkTypes DEF TypeOK, Linking, Owning, HoldSidecar, HoldOwner, Hold, Reality
<1>2. PICK s \in {Linking(w), Owning(w)} :
        /\ \/ s = Linking(w) /\ pc[w] = "hold" /\ pc'[w] = "check"
           \/ s = Owning(w) /\ pc[w] = "holdOwner" /\ pc'[w] = "checkOwner"
        /\ UNCHANGED <<version, target, turn, recorded, seen, verdict, author>>
        /\ held'[w] = [held[w] EXCEPT ![s] = version[s]]
        /\ basis'[w] = [basis[w] EXCEPT ![s] = {version[s]}]
  BY DEF HoldSidecar, HoldOwner, Hold, GoTo, files, TypeOK
<1>3. /\ s \in Sidecar /\ s \in Source /\ version[s] \in Nat
      /\ recorded[w] \subseteq Source
      /\ held[w] \in [Sidecar -> 0..MaxEdits] /\ basis[w] \in [Source -> SUBSET (0..MaxEdits)]
  <2>1. s \in Sidecar
    BY <1>1
  <2>2. s \in Source
    BY <2>1, LinkTypes
  <2>3. version[s] \in Nat
    BY <2>2, BoundAssumption DEF TypeOK, Version
  <2>4. QED
    BY <2>1, <2>2, <2>3 DEF TypeOK
<1>4. /\ \A x \in Source : basis'[w][x] = IF x = s THEN {version[s]} ELSE basis[w][x]
      /\ \A x \in Sidecar : held'[w][x] = IF x = s THEN version[s] ELSE held[w][x]
  BY <1>2, <1>3
<1>5. Linking(w)' = Linking(w) /\ Owning(w)' = Owning(w)
  BY <1>2 DEF Linking, Owning
<1>6. RecordInv(w)'
  BY <1>2, <1>5 DEF RecordInv, Answered, Compiling, Reality
<1>7. seen[w][s] <= version[s]
  BY <1>3 DEF IInv, SnapInv
<1>8. \A x \in recorded[w] : Known(w, x)'
  BY <1>1, <1>2, <1>3, <1>4, <1>7 DEF BasisInv, Known, Compiling
<1>9. InHand(w, s)'
  BY <1>2, <1>3, <1>4 DEF InHand
<1>10. pc[w] = "holdOwner" => InHand(w, Linking(w))'
  BY <1>1, <1>2, <1>3, <1>4, <1>5, <1>9, LinkTypes DEF BasisInv, InHand, Reality
<1>11. target # w
  BY <1>1 DEF IInv, FileInv, Published, Reality
<1>12. QED
  BY <1>2, <1>5, <1>6, <1>8, <1>9, <1>10, <1>11 DEF BasisInv, Checked, Reality

(* A validator reads a file.                                               *)
LEMMA CheckKnown ==
  ASSUME TypeOK, IInv, NEW w \in Writer, RecordInv(w), BasisInv(w),
         NEW s \in Source, CheckSidecar(w, s) \/ CheckOwner(w, s)
  PROVE  RecordInv(w)' /\ BasisInv(w)'
<1> DEFINE next == IF Owning(w) = Linking(w) THEN "commit" ELSE "holdOwner"
<1>1. \/ CheckFile(w, Linking(w), s, "check", next)
      \/ CheckFile(w, Owning(w), s, "checkOwner", "commitOwner")
  BY DEF CheckSidecar, CheckOwner
<1>2. /\ UNCHANGED <<version, target, turn, held, recorded, seen, verdict, author>>
      /\ basis'[w] = [basis[w] EXCEPT ![s] = @ \cup {version[s]}]
      /\ \/ pc[w] = "check" /\ pc'[w] \in {"check", next}
         \/ pc[w] = "checkOwner" /\ pc'[w] \in {"checkOwner", "commitOwner"}
  <2>1. {next, "commitOwner"} \subseteq Label
    BY DEF Label, Compiling, Reality
  <2> HIDE DEF next
  <2>2. QED
    BY <1>1, <2>1, VisitMoves DEF CheckFile, files, TypeOK
<1>3. /\ Linking(w) \in Sidecar /\ Owning(w) \in Sidecar /\ pc[w] \in Reality
      /\ Linking(w)' = Linking(w) /\ Owning(w)' = Owning(w)
  BY <1>2, LinkTypes DEF TypeOK, Linking, Owning, Reality
<1>4. /\ version[s] \in Nat /\ recorded[w] \subseteq Source
      /\ basis[w] \in [Source -> SUBSET (0..MaxEdits)]
      /\ \A x \in Source : basis'[w][x] = IF x = s THEN basis[w][s] \cup {version[s]} ELSE basis[w][x]
  BY <1>2, BoundAssumption DEF TypeOK, Version
<1>5. \A x \in Source : Known(w, x) => Known(w, x)'
  BY <1>2, <1>4 DEF Known, IInv, SnapInv
<1>6. \A x \in Sidecar : InHand(w, x) => InHand(w, x)'
  BY <1>2, <1>4, LinkTypes DEF InHand, IInv, SnapInv
<1>7. RecordInv(w)'
  BY <1>2, <1>3 DEF RecordInv, Answered, Compiling, Reality
<1>8. target # w
  BY <1>3 DEF IInv, FileInv, Published, Reality
<1>9. BasisInv(w)'
  BY <1>2, <1>3, <1>4, <1>5, <1>6, <1>8 DEF BasisInv, Compiling, Checked, Reality
<1>10. QED
  BY <1>7, <1>9

(* Recording keeps what the earlier provenances answered for, and what is  *)
(* known of the sources recorded.                                          *)
LEMMA RecordKeeps ==
  ASSUME TypeOK, NEW w \in Writer, RecordInv(w), BasisInv(w), pc[w] \in Reality,
         NEW s \in {Linking(w), Owning(w)}, InHand(w, s), Record(w, s) \/ UNCHANGED <<recorded, seen>>,
         UNCHANGED <<version, held, basis, author>>
  PROVE  /\ recorded[w] \subseteq recorded'[w] /\ recorded'[w] \subseteq recorded[w] \cup {s}
         /\ \A x \in recorded'[w] : Known(w, x)'
         /\ \A i \in Provenance : i < turn[w] /\ Answered(w, i) => Answered(w, i)'
<1>1. turn[w] \in Provenance /\ Provenance \subseteq Nat /\ s \in Sidecar /\ s \in Source
  BY LinkTypes DEF TypeOK, Linking, Owning, Provenance
<1>2. recorded[w] \subseteq Source /\ \A x \in recorded[w] : Known(w, x)
  BY DEF TypeOK, BasisInv, Compiling
<1>3. CASE UNCHANGED <<recorded, seen>>
  BY <1>2, <1>3 DEF Known, Answered
<1>4. CASE Record(w, s)
  <2>1. /\ recorded'[w] = recorded[w] \cup {s}
        /\ \A x \in Source : seen'[w][x] = IF x = s THEN held[w][s] ELSE seen[w][x]
    BY <1>1, <1>4 DEF Record, TypeOK, Version
  <2>2. \A x \in recorded'[w] : Known(w, x)'
    BY <1>1, <1>2, <2>1 DEF Known, InHand
  <2>3. ASSUME NEW i \in Provenance, i < turn[w], Answered(w, i) PROVE Answered(w, i)'
    <3>1. RecordsLast(i) => Linked[i].sidecar # s
      BY <1>1, <2>3 DEF RecordsLast, Linking, Owning
    <3>2. Linked[i].sidecar \in Source
      BY LinkTypes
    <3>3. QED
      BY <2>1, <2>3, <3>1, <3>2 DEF Answered, RecordsLast
  <2>4. QED
    BY <2>1, <2>2, <2>3
<1>5. QED
  BY <1>3, <1>4

(* A provenance is recorded, or has failed.                                *)
LEMMA CommitKnown ==
  ASSUME TypeOK, IInv, NEW w \in Writer, RecordInv(w), BasisInv(w),
         CommitOwner(w) \/ CommitSidecar(w) \/ SidecarError(w)
  PROVE  RecordInv(w)' /\ BasisInv(w)'
<1>1. pc[w] \in Reality /\ turn[w] \in Provenance
  BY DEF CommitOwner, CommitSidecar, SidecarError, Reality, TypeOK
<1>2. /\ Linking(w) \in Sidecar /\ Owning(w) \in Sidecar /\ Len(Linked) \in Nat
      /\ turn[w] \in Nat /\ turn[w] + 1 \in 1..(Len(Linked) + 1)
  BY <1>1, LinkTypes DEF Linking, Owning, Provenance
<1>3. target # w /\ TypeOK' /\ UNCHANGED <<version, target>>
  BY <1>1, CompileFrame DEF IInv, FileInv, Published, Reality, CompileStep, files
<1>4. UNCHANGED <<version, held, basis, author>>
  BY DEF CommitOwner, CommitSidecar, SidecarError
<1>5. PICK s \in {Linking(w), Owning(w)} :
        /\ (Record(w, s) /\ InHand(w, s)) \/ UNCHANGED <<recorded, seen>>
        /\ CommitOwner(w) => s = Owning(w) /\ Record(w, s)
        /\ CommitSidecar(w) => s = Linking(w) /\ Record(w, s)
  <2>1. CASE CommitOwner(w)
    BY <2>1 DEF CommitOwner, CommitSidecar, BasisInv
  <2>2. CASE CommitSidecar(w)
    BY <2>2 DEF CommitOwner, CommitSidecar, BasisInv, Reality
  <2>3. CASE SidecarError(w)
    BY <2>3 DEF CommitOwner, CommitSidecar, SidecarError
  <2>4. QED
    BY <2>1, <2>2, <2>3
<1>6. /\ recorded[w] \subseteq recorded'[w]
      /\ \A x \in recorded'[w] : Known(w, x)'
      /\ \A i \in Provenance : i < turn[w] /\ Answered(w, i) => Answered(w, i)'
  <2>1. CASE Record(w, s) /\ InHand(w, s)
    BY <1>1, <1>4, <1>5, <2>1, RecordKeeps
  <2>2. CASE UNCHANGED <<recorded, seen>>
    BY <1>1, <1>4, <2>2 DEF BasisInv, Compiling, Known, Answered
  <2>3. QED
    BY <1>5, <2>1, <2>2
<1>7. Numbered \subseteq recorded'[w]
  BY <1>1, <1>6 DEF RecordInv, Reality
<1>8. CASE GoTo(w, "commit") /\ UNCHANGED <<todo, turn, verdict>> /\ CommitOwner(w)
  <2>1. pc'[w] = "commit" /\ pc[w] = "commitOwner"
    BY <1>8 DEF GoTo, TypeOK, CommitOwner
  <2>2. Owning(w)' = Owning(w) /\ Linking(w)' = Linking(w)
    BY <1>8 DEF Owning, Linking
  <2>3. Owning(w) \in recorded'[w]
    BY <1>5, <1>8 DEF Record, TypeOK
  <2>4. InHand(w, Linking(w))'
    BY <1>4, <2>1, <2>2 DEF BasisInv, InHand, Reality
  <2>5. RecordInv(w)'
    BY <1>6, <1>7, <1>8, <2>1, <2>2, <2>3 DEF RecordInv, Compiling, Reality
  <2>6. QED
    BY <1>3, <1>6, <2>1, <2>2, <2>4, <2>5 DEF BasisInv, Checked, Reality
<1>9. ASSUME NEW why, Finding(w, why), NEW t, t = turn[w], why = "supported" => Answered(w, t)'
      PROVE  RecordInv(w)' /\ BasisInv(w)'
  <2>1. /\ turn'[w] = turn[w] + 1
        /\ \/ pc'[w] = "hold"
           \/ pc'[w] = "verify" /\ todo'[w] = recorded'[w] /\ turn'[w] = Len(Linked) + 1
    <3>1. Reach(w, turn[w] + 1) /\ recorded' \in [Writer -> SUBSET Source]
      BY <1>3, <1>9 DEF Finding, TypeOK
    <3>2. QED
      BY <1>2, <3>1, ReachMoves
  <2>2. \A i \in Provenance : verdict'[w][i] = IF i = turn[w] THEN why ELSE verdict[w][i]
    BY <1>9 DEF Finding, TypeOK
  <2>3. \A i \in Provenance : i < turn'[w] /\ verdict'[w][i] = "supported" => Answered(w, i)'
    <3>1. SUFFICES ASSUME NEW i \in Provenance, i < turn[w] + 1, verdict'[w][i] = "supported"
                   PROVE  Answered(w, i)'
      BY <2>1
    <3>2. CASE i = t
      BY <1>9, <2>2, <3>1, <3>2
    <3>3. CASE i # t
      <4>1. i < turn[w]
        BY <1>2, <1>9, <3>1, <3>3 DEF Provenance
      <4>2. QED
        BY <1>6, <1>9, <2>2, <3>1, <3>3, <4>1 DEF RecordInv
    <3>4. QED
      BY <3>2, <3>3
  <2>4. RecordInv(w)'
    BY <1>7, <2>1, <2>3 DEF RecordInv, Compiling, Reality
  <2>5. QED
    BY <1>3, <1>6, <2>1, <2>4 DEF BasisInv, Checked, Reality
<1>10. CASE CommitOwner(w)
  BY <1>8, <1>9, <1>10 DEF CommitOwner
<1>11. CASE CommitSidecar(w)
  <2>1. CASE Finding(w, "rejected")
    BY <1>9, <2>1
  <2>2. CASE held[w][Linking(w)] = Declares[author[w]][turn[w]] /\ Finding(w, "supported")
    <3>1. /\ recorded'[w] = recorded[w] \cup {Linking(w)}
          /\ seen'[w][Linking(w)] = held[w][Linking(w)]
      BY <1>2, <1>4, <1>5, <1>11, LinkTypes DEF Record, TypeOK, Version
    <3>2. Owning(w) \in recorded'[w]
      BY <1>11, <3>1 DEF CommitSidecar, RecordInv
    <3>3. PICK t : t = turn[w]
      OBVIOUS
    <3>4. Answered(w, t)'
      BY <1>4, <2>2, <3>1, <3>2, <3>3 DEF Answered, Linking, Owning
    <3>5. QED
      BY <1>9, <2>2, <3>3, <3>4
  <2>3. QED
    BY <1>11, <2>1, <2>2 DEF CommitSidecar
<1>12. CASE SidecarError(w)
  BY <1>9, <1>12 DEF SidecarError
<1>13. QED
  BY <1>10, <1>11, <1>12

(* After the compiler nothing a call has recorded changes, while versions  *)
(* may grow; only a checked call comes to be linked.                       *)
Late == Checked \cup Published \cup {"collide"}

LEMMA KeptKnown ==
  ASSUME TypeOK, NEW w \in Writer, RecordInv(w), BasisInv(w),
         UNCHANGED <<turn[w], held[w], recorded[w], seen[w], verdict[w], basis[w], author[w]>>,
         version' \in Version, \A s \in Source : version[s] <= version'[s],
         \/ UNCHANGED <<pc[w], todo[w]>>
         \/ pc[w] = "compile" /\ pc'[w] = "read" /\ UNCHANGED todo[w]
         \/ pc'[w] = "uncompiled"
         \/ pc[w] = "verify" /\ pc'[w] \in {"done", "crashed"}
         \/ pc[w] \in Late /\ pc'[w] \in Late /\ (pc'[w] \in Checked => pc[w] \in Checked),
         target' = w => target = w \/ pc[w] = "link"
  PROVE  RecordInv(w)' /\ BasisInv(w)'
<1>1. Linking(w)' = Linking(w) /\ Owning(w)' = Owning(w)
  BY DEF Linking, Owning
<1>2. \A i \in Provenance : Answered(w, i)' <=> Answered(w, i)
  BY DEF Answered, RecordsLast
<1>3. RecordInv(w)'
  BY <1>1, <1>2 DEF RecordInv, Late, Checked, Published, Compiling, Reality
<1>4. /\ recorded[w] \subseteq Source /\ version \in Version
      /\ basis[w] \in [Source -> SUBSET (0..MaxEdits)]
      /\ pc[w] \in Reality => Linking(w) \in Source /\ Owning(w) \in Source
  BY LinkTypes DEF TypeOK, Linking, Owning
<1>5. \A s \in Source, v \in 0..MaxEdits : v <= version[s] => v <= version'[s]
  BY <1>4, BoundAssumption DEF Version
<1>6. \A s \in Source : (Known(w, s) => Known(w, s)') /\ (InHand(w, s) => InHand(w, s)')
  BY <1>4, <1>5 DEF Known, InHand
<1>7. Exact(w)' <=> Exact(w)
  BY DEF Exact
<1>8. BasisInv(w)'
  BY <1>1, <1>4, <1>6, <1>7 DEF BasisInv, Late, Checked, Published, Compiling, Reality
<1>9. QED
  BY <1>3, <1>8

(* A source that is found unchanged has only been read as it was recorded. *)
LEMMA VerifyKnown ==
  ASSUME TypeOK, IInv, NEW w \in Writer, RecordInv(w), BasisInv(w),
         NEW s \in Source, VerifySource(w, s)
  PROVE  RecordInv(w)' /\ BasisInv(w)'
<1>1. /\ UNCHANGED <<version, target, turn, held, recorded, seen, verdict, basis, author>>
      /\ pc[w] = "verify" /\ version \in Version /\ target # w
  BY DEF VerifySource, AssertSourceFresh, files, readings, epr, IInv, FileInv, Published, TypeOK
<1>2. CASE version[s] # seen[w][s]
  <2>1. pc'[w] = "done"
    BY <1>2 DEF VerifySource, AssertSourceFresh, Fail, TypeOK
  <2>2. \A x \in Source : version[x] <= version'[x]
    BY <1>1, BoundAssumption DEF Version
  <2>3. QED
    BY <1>1, <2>1, <2>2, KeptKnown
<1>3. CASE version[s] = seen[w][s] /\ Visit(w, s, "existing")
  <2>1. /\ todo'[w] = todo[w] \ {s} /\ pc'[w] \in {"verify", "existing"}
        /\ pc'[w] = "existing" => todo[w] = {s}
    <3>1. "existing" \in Label
      BY DEF Label
    <3>2. QED
      BY <1>1, <1>3, <3>1, VisitMoves
  <2>2. s \in recorded[w] => basis[w][s] = {seen[w][s]}
    <3>1. SUFFICES ASSUME s \in recorded[w] PROVE basis[w][s] = {seen[w][s]}
      OBVIOUS
    <3>2. Known(w, s) /\ version[s] \in Nat /\ basis[w][s] \subseteq Nat
      BY <1>1, <3>1, BoundAssumption DEF BasisInv, TypeOK, Version
    <3>3. \A v \in basis[w][s] : v = version[s]
      BY <1>3, <3>2 DEF Known
    <3>4. QED
      BY <1>3, <3>2, <3>3 DEF Known
  <2>3. \A x \in recorded[w] : x \in todo'[w] \/ basis[w][x] = {seen[w][x]}
    BY <1>1, <2>1, <2>2 DEF BasisInv
  <2>4. RecordInv(w)'
    <3>1. \A i \in Provenance : Answered(w, i)' <=> Answered(w, i)
      BY <1>1 DEF Answered, RecordsLast
    <3>2. QED
      BY <1>1, <2>1, <3>1 DEF RecordInv, Compiling, Reality
  <2>5. pc'[w] = "existing" => Exact(w)'
    BY <1>1, <2>1, <2>3 DEF Exact
  <2>6. \A x \in recorded[w] : Known(w, x)'
    BY <1>1 DEF BasisInv, Known
  <2>7. BasisInv(w)'
    BY <1>1, <2>1, <2>3, <2>5, <2>6 DEF BasisInv, Checked, Compiling, Reality
  <2>8. QED
    BY <2>4, <2>7
<1>4. QED
  BY <1>2, <1>3 DEF VerifySource, AssertSourceFresh

RInv == \A w \in Writer : RecordInv(w) /\ BasisInv(w)

LEMMA KnownInductive == TypeOK /\ TypeOK' /\ IInv /\ RInv /\ [Next]_vars => RInv'
<1> SUFFICES ASSUME TypeOK, TypeOK', IInv, RInv, [Next]_vars PROVE RInv'
  OBVIOUS
<1>0. /\ pc \in [Writer -> Label] /\ todo \in [Writer -> SUBSET Source]
      /\ target \in Writer \cup {NoFile} /\ version \in Version /\ version' \in Version
  BY DEF TypeOK
<1>1. ASSUME NEW x \in Writer,
             UNCHANGED <<turn[x], held[x], recorded[x], seen[x], verdict[x], basis[x], author[x]>>,
             \A s \in Source : version[s] <= version'[s],
             \/ UNCHANGED <<pc[x], todo[x]>>
             \/ pc[x] = "compile" /\ pc'[x] = "read" /\ UNCHANGED todo[x]
             \/ pc'[x] = "uncompiled"
             \/ pc[x] = "verify" /\ pc'[x] \in {"done", "crashed"}
             \/ pc[x] \in Late /\ pc'[x] \in Late /\ (pc'[x] \in Checked => pc[x] \in Checked),
             target' = x => target = x \/ pc[x] = "link"
      PROVE  RecordInv(x)' /\ BasisInv(x)'
  BY <1>0, <1>1, KeptKnown DEF RInv
<1>2. UNCHANGED version => \A s \in Source : version[s] <= version'[s]
  BY <1>0, BoundAssumption DEF Version
<1>3. ASSUME NEW w \in Writer, CompileStep(w) PROVE RInv'
  <2>1. RecordInv(w)' /\ BasisInv(w)'
    BY <1>3, NumberedKnown, HoldKnown, CheckKnown, CommitKnown DEF CompileStep, RInv
  <2>2. ASSUME NEW x \in Writer, x # w PROVE RecordInv(x)' /\ BasisInv(x)'
    <3>1. UNCHANGED <<version, target>> /\ UNCHANGED Local(x)
      BY <1>3, <2>2, CompileFrame DEF files
    <3>2. QED
      BY <1>1, <1>2, <3>1 DEF Local
  <2>3. QED
    BY <2>1, <2>2 DEF RInv
<1>4. ASSUME UNCHANGED <<turn, held, recorded, seen, verdict, basis, author>>,
             \A s \in Source : version[s] <= version'[s],
             \A x \in Writer :
               /\ \/ UNCHANGED <<pc[x], todo[x]>>
                  \/ pc[x] = "compile" /\ pc'[x] = "read" /\ UNCHANGED todo[x]
                  \/ pc'[x] = "uncompiled"
                  \/ pc[x] = "verify" /\ pc'[x] \in {"done", "crashed"}
                  \/ pc[x] \in Late /\ pc'[x] \in Late /\ (pc'[x] \in Checked => pc[x] \in Checked)
               /\ target' = x => target = x \/ pc[x] = "link"
      PROVE  RInv'
  BY <1>1, <1>4 DEF RInv
<1>5. ASSUME NEW w \in Writer, NEW s \in Source, VerifySource(w, s) PROVE RInv'
  <2>1. RecordInv(w)' /\ BasisInv(w)'
    BY <1>5, VerifyKnown DEF RInv
  <2>2. /\ UNCHANGED <<version, target, turn, held, recorded, seen, verdict, basis, author>>
        /\ \A x \in Writer : x # w => UNCHANGED <<pc[x], todo[x]>>
    BY <1>0, <1>5 DEF VerifySource, AssertSourceFresh, Visit, GoTo, Fail, files, readings, epr
  <2>3. QED
    BY <1>1, <1>2, <2>1, <2>2 DEF RInv
<1> USE DEF Late, Checked, Published, files, readings, epr, GoTo, Fail
<1>6. ASSUME NEW w \in Writer, NEW s \in Source, ReverifySource(w, s) PROVE RInv'
  BY <1>0, <1>2, <1>4, <1>6 DEF ReverifySource, AssertSourceFresh, Visit
<1>7. ASSUME NEW w \in Writer, Compile(w) PROVE RInv'
  BY <1>0, <1>2, <1>4, <1>7 DEF Compile
<1>8. ASSUME NEW w \in Writer, CheckExisting(w) PROVE RInv'
  BY <1>0, <1>2, <1>4, <1>8 DEF CheckExisting
<1>9. ASSUME NEW w \in Writer, CreateTemporary(w) \/ WriteTemporary(w) \/ SyncTemporary(w) PROVE RInv'
  BY <1>0, <1>2, <1>4, <1>9 DEF CreateTemporary, WriteTemporary, SyncTemporary
<1>10. ASSUME NEW w \in Writer, LinkTemporary(w) PROVE RInv'
  BY <1>0, <1>2, <1>4, <1>10, SentinelAssumption DEF LinkTemporary
<1>11. ASSUME NEW w \in Writer, Collide(w) \/ Cleanup(w) PROVE RInv'
  BY <1>0, <1>2, <1>4, <1>11 DEF Collide, Cleanup
<1>12. ASSUME NEW w \in Writer, IoError(w) PROVE RInv'
  BY <1>0, <1>2, <1>4, <1>12 DEF IoError
<1>13. ASSUME NEW w \in Writer, Crash(w) PROVE RInv'
  BY <1>0, <1>2, <1>4, <1>13 DEF Crash, Running, Killed, Label
<1>14. ASSUME NEW s \in Source, EditSource(s) PROVE RInv'
  <2>1. \A x \in Source : version[x] <= version'[x]
    BY <1>0, <1>14, BoundAssumption DEF EditSource, Version
  <2>2. QED
    BY <1>4, <1>14, <2>1 DEF EditSource
<1>15. CASE PowerLoss
  BY <1>0, <1>2, <1>4, <1>15, SentinelAssumption DEF PowerLoss, Running, Killed, Label
<1>16. CASE UNCHANGED vars
  BY <1>2, <1>4, <1>16 DEF vars
<1>17. QED
  BY <1>3, <1>5, <1>6, <1>7, <1>8, <1>9, <1>10, <1>11, <1>12, <1>13, <1>14, <1>15, <1>16
  DEF Next, Step, CompileStep

LEMMA KnownHolds == Spec => []RInv
<1>1. Init => RInv
  <2> SUFFICES ASSUME Init, NEW w \in Writer PROVE RecordInv(w) /\ BasisInv(w)
    BY DEF RInv
  <2>1. pc[w] = "compile" /\ turn[w] = 1 /\ todo[w] = Numbered /\ recorded[w] = {} /\ target # w
    BY SentinelAssumption DEF Init
  <2>2. RecordInv(w)
    BY <2>1, LinkTypes DEF RecordInv, Provenance, Compiling, Reality
  <2>3. QED
    BY <2>1, <2>2 DEF BasisInv, Checked, Compiling, Reality
<1>2. QED
  BY <1>1, TypeCorrect, InvHolds, KnownInductive, PTL DEF Spec

(* What a published EPR records was the case, all together, at one instant *)
(* of the call that published it, whatever provenance failed half way.     *)
THEOREM SnapshotIsFresh == Spec => []SnapshotFresh
<1>1. TypeOK /\ IInv /\ RInv => SnapshotFresh
  <2> SUFFICES ASSUME TypeOK, IInv, RInv, target # NoFile PROVE SnapshotFresh
    BY DEF SnapshotFresh
  <2>1. target \in Writer
    BY DEF TypeOK
  <2>2. Fresh(target) /\ pc[target] \in Published
    BY <2>1 DEF IInv, FileInv
  <2>3. RecordInv(target)
    BY <2>1 DEF RInv
  <2>4. turn[target] = Len(Linked) + 1 /\ Numbered \subseteq recorded[target]
    BY <2>2, <2>3 DEF RecordInv, Published, Compiling, Reality
  <2>5. \A i \in Provenance : i < turn[target]
    BY <2>4, LinkTypes DEF Provenance
  <2>6. ASSUME NEW i \in Provenance, verdict[target][i] = "supported" PROVE Answered(target, i)
    BY <2>3, <2>5, <2>6 DEF RecordInv
  <2>7. QED
    BY <2>2, <2>4, <2>6 DEF SnapshotFresh, Fresh, Answered
<1>2. QED
  BY <1>1, TypeCorrect, InvHolds, KnownHolds, PTL

(* No read since the one that was hashed saw other bytes.                  *)
THEOREM BasisIsRecorded == Spec => []RecordsItsBasis
<1>1. TypeOK /\ RInv => RecordsItsBasis
  BY DEF TypeOK, RInv, BasisInv, Exact, RecordsItsBasis
<1>2. QED
  BY <1>1, TypeCorrect, KnownHolds, PTL

-----------------------------------------------------------------------------
(* The writer implements WriteOnceStore, for any number of calls, as long  *)
(* as no power loss undoes the link.                                       *)

Raw(w) == pc[w] \in Compiling \cup {"compile", "uncompiled"}

LEMMA EprType == TypeOK => \A w \in Writer : Epr(w) \in Content /\ Epr(w) # NoEpr
  BY EprAssumption DEF TypeOK, Epr, Content, Version, Source

LEMMA StoredKept ==
  ASSUME TypeOK, IInv, target' = target,
         \A x \in Writer : ~Raw(x) => UNCHANGED Epr(x)
  PROVE  Stored' = Stored
<1>1. \A w \in Writer : target = w => ~Raw(w)
  BY DEF IInv, FileInv, Published, Raw, Compiling, Reality
<1>2. QED
  BY <1>1 DEF Stored, TypeOK

(* Most steps do not show in the store.                                    *)
LEMMA QuietStep ==
  ASSUME TypeOK, IInv, target' = target,
         \A x \in Writer : /\ Raw(x)' <=> Raw(x)
                           /\ ~Raw(x) => UNCHANGED Epr(x)
                           /\ pc'[x] = "done" <=> pc[x] = "done"
                           /\ pc[x] = "done" => UNCHANGED failed[x]
  PROVE  UNCHANGED Store!vars
<1>1. Stored' = Stored
  BY StoredKept
<1>2. Wants' = Wants
  BY DEF Wants, Raw
<1>3. Reply' = Reply
  BY DEF Reply, Succeeded
<1>4. QED
  BY <1>1, <1>2, <1>3 DEF Store!vars

(* A call returns or raises, which is the store's answer.                  *)
LEMMA LastStep ==
  ASSUME TypeOK, IInv, TypeOK', IInv', ~entryLost', NEW w \in Writer,
         UNCHANGED <<target, seen, verdict, author>>,
         ~Raw(w), pc[w] # "done", pc' = [pc EXCEPT ![w] = "done"],
         \A x \in Writer : x # w => UNCHANGED failed[x]
  PROVE  [Store!Next]_Store!vars
<1>1. \A x \in Writer : UNCHANGED Epr(x)
  BY DEF Epr
<1>2. pc'[w] = "done" /\ \A x \in Writer : x # w => pc'[x] = pc[x]
  BY DEF TypeOK
<1>3. Stored' = Stored
  BY <1>1, StoredKept
<1>4. \A x \in Writer : Raw(x)' <=> Raw(x)
  BY <1>2 DEF Raw, Compiling, Reality
<1>5. Wants' = Wants
  BY <1>1, <1>4 DEF Wants, Raw
<1>6. Reply[w] = "waiting" /\ Wants[w] = Epr(w) /\ Epr(w) # NoEpr
  BY EprType DEF Reply, Succeeded, Wants, Raw
<1>7. CASE ~failed'[w]
  <2>1. target' # NoFile /\ Epr(target)' = Epr(w)'
    BY <1>2, <1>7 DEF IInv, BackedInv, Backed
  <2>2. Stored = Wants[w]
    BY <1>1, <1>3, <1>6, <2>1 DEF Stored
  <2>3. Reply' = [Reply EXCEPT ![w] = "accepted"]
    BY <1>2, <1>7 DEF Reply, Succeeded
  <2>4. Store!Accept(w)
    BY <1>3, <1>5, <1>6, <2>2, <2>3 DEF Store!Accept
  <2>5. QED
    BY <2>4 DEF Store!Next
<1>8. CASE failed'[w]
  <2>1. Reply' = [Reply EXCEPT ![w] = "refused"]
    BY <1>2, <1>8 DEF Reply, Succeeded
  <2>2. Store!Refuse(w)
    BY <1>3, <1>5, <1>6, <2>1 DEF Store!Refuse
  <2>3. QED
    BY <2>2 DEF Store!Next
<1>9. QED
  BY <1>7, <1>8

(* What is compiled when the compiler has done is submitted.               *)
LEMMA CompileSimulates ==
  ASSUME TypeOK, IInv, TypeOK', NEW w \in Writer, CompileStep(w)
  PROVE  [Store!Next]_Store!vars
<1>1. /\ UNCHANGED <<target, failed>>
      /\ pc[w] \in Compiling /\ pc'[w] \in Compiling \cup {"verify"}
      /\ \A x \in Writer : x # w => UNCHANGED Local(x)
  BY CompileFrame DEF files
<1>2. Raw(w) /\ \A x \in Writer : x # w => UNCHANGED Epr(x) /\ (Raw(x)' <=> Raw(x))
  BY <1>1 DEF Local, Epr, Raw
<1>3. Stored' = Stored
  BY <1>1, <1>2, StoredKept
<1>4. pc[w] # "done" /\ pc'[w] # "done"
  BY <1>1 DEF Compiling, Reality
<1>5. CASE pc'[w] = "verify"
  <2>1. ~Raw(w)'
    BY <1>5 DEF Raw, Compiling, Reality
  <2>2. Wants' = [Wants EXCEPT ![w] = Epr(w)'] /\ Wants[w] = NoEpr
    BY <1>1, <1>2, <2>1 DEF Wants, Raw, Local
  <2>3. Reply' = Reply /\ Reply[w] = "waiting"
    BY <1>1, <1>4 DEF Reply, Succeeded, Local
  <2>4. Epr(w)' \in Content
    BY EprType DEF TypeOK, Epr, Content, Version, Source
  <2>5. Store!Submit(w)
    BY <1>3, <2>2, <2>3, <2>4 DEF Store!Submit
  <2>6. QED
    BY <2>5 DEF Store!Next
<1>6. CASE pc'[w] \in Compiling
  <2>1. Raw(w)'
    BY <1>6 DEF Raw
  <2>2. \A x \in Writer : x # w => UNCHANGED <<pc[x], failed[x]>>
    BY <1>1 DEF Local
  <2>3. QED
    BY <1>1, <1>2, <1>4, <2>1, <2>2, QuietStep
<1>7. QED
  BY <1>1, <1>5, <1>6

LEMMA StepSimulation ==
  ASSUME TypeOK, IInv, TypeOK', IInv', ~entryLost, ~entryLost', [Next]_vars
  PROVE  [Store!Next]_Store!vars
<1>0. /\ pc \in [Writer -> Label] /\ failed \in [Writer -> BOOLEAN]
      /\ target \in Writer \cup {NoFile}
  BY DEF TypeOK
<1>1. ASSUME NEW w \in Writer, CompileStep(w) PROVE [Store!Next]_Store!vars
  BY <1>1, CompileSimulates
<1>2. ASSUME UNCHANGED <<target, seen, verdict, author>>,
             \A x \in Writer : /\ Raw(x)' <=> Raw(x)
                               /\ pc'[x] = "done" <=> pc[x] = "done"
                               /\ pc[x] = "done" => UNCHANGED failed[x]
      PROVE  UNCHANGED Store!vars
  BY <1>2, QuietStep DEF Epr
<1>3. ASSUME NEW w \in Writer, UNCHANGED <<target, seen, verdict, author>>,
             NEW l \in Label, pc' = [pc EXCEPT ![w] = l], ~Raw(w), pc[w] # "done",
             \/ l = "done"
             \/ l \notin Compiling \cup {"compile", "uncompiled", "done"},
             \A x \in Writer : x # w => UNCHANGED failed[x]
      PROVE  [Store!Next]_Store!vars
  <2>1. CASE l = "done"
    BY <1>3, <2>1, LastStep
  <2>2. CASE l # "done"
    BY <1>0, <1>2, <1>3, <2>2 DEF Raw
  <2>3. QED
    BY <2>1, <2>2
<1> USE DEF files, readings, epr, GoTo, Fail
<1>4. ASSUME NEW w \in Writer, NEW s \in Source, VerifySource(w, s) \/ ReverifySource(w, s)
      PROVE  [Store!Next]_Store!vars
  <2>1. CASE UNCHANGED <<pc, failed>>
    BY <1>2, <1>4, <2>1 DEF VerifySource, ReverifySource, AssertSourceFresh, Raw
  <2>2. CASE \E l \in {"existing", "done", "link", "cleanup"} : pc' = [pc EXCEPT ![w] = l]
    <3>1. pc[w] \in {"verify", "reverify"} /\ \A x \in Writer : x # w => UNCHANGED failed[x]
      BY <1>0, <1>4 DEF VerifySource, ReverifySource, AssertSourceFresh, Visit
    <3>2. QED
      BY <1>0, <1>3, <1>4, <2>2, <3>1
      DEF VerifySource, ReverifySource, AssertSourceFresh, Raw, Label, Compiling, Reality
  <2>3. QED
    BY <1>4, <2>1, <2>2 DEF VerifySource, ReverifySource, AssertSourceFresh, Visit
<1>5. ASSUME NEW w \in Writer, Compile(w) PROVE [Store!Next]_Store!vars
  BY <1>0, <1>2, <1>5 DEF Compile, Raw, Compiling, Reality
<1>6. ASSUME NEW w \in Writer, CheckExisting(w) PROVE [Store!Next]_Store!vars
  BY <1>0, <1>3, <1>6 DEF CheckExisting, Raw, Label, Compiling, Reality
<1>7. ASSUME NEW w \in Writer, CreateTemporary(w) \/ WriteTemporary(w) \/ SyncTemporary(w)
      PROVE  [Store!Next]_Store!vars
  BY <1>0, <1>3, <1>7
  DEF CreateTemporary, WriteTemporary, SyncTemporary, Raw, Label, Compiling, Reality
<1>8. ASSUME NEW w \in Writer, LinkTemporary(w) PROVE [Store!Next]_Store!vars
  <2>1. /\ pc[w] = "link" /\ UNCHANGED <<failed, seen, verdict, author>>
        /\ pc' = [pc EXCEPT ![w] = pc'[w]] /\ pc'[w] \in {"cleanup", "collide"}
    BY <1>0, <1>8 DEF LinkTemporary
  <2>2. CASE target' = target
    BY <1>0, <1>3, <2>1, <2>2 DEF Raw, Label, Compiling, Reality
  <2>3. CASE target' # target
    <3>1. target = NoFile /\ target' = w
      BY <1>8, <2>3 DEF LinkTemporary
    <3>2. \A x \in Writer : UNCHANGED Epr(x)
      BY <2>1 DEF Epr
    <3>3. \A x \in Writer : (Raw(x)' <=> Raw(x)) /\ (pc'[x] = "done" <=> pc[x] = "done")
      BY <1>0, <2>1 DEF Raw, Compiling, Reality
    <3>4. Wants' = Wants
      BY <3>2, <3>3 DEF Wants, Raw
    <3>5. Reply' = Reply
      BY <2>1, <3>3 DEF Reply, Succeeded
    <3>6. Stored = NoEpr /\ Stored' = Epr(w)
      BY <3>1, <3>2, SentinelAssumption DEF Stored
    <3>7. Wants[w] = Epr(w) /\ Epr(w) # NoEpr /\ Reply[w] = "waiting"
      BY <2>1, EprType DEF Wants, Reply, Succeeded, Compiling, Reality
    <3>8. Store!Publish(w)
      BY <3>4, <3>5, <3>6, <3>7 DEF Store!Publish
    <3>9. QED
      BY <3>8 DEF Store!Next
  <2>4. QED
    BY <2>2, <2>3
<1>9. ASSUME NEW w \in Writer, Collide(w) \/ Cleanup(w) PROVE [Store!Next]_Store!vars
  BY <1>0, <1>3, <1>9 DEF Collide, Cleanup, Raw, Label, Compiling, Reality
<1>10. ASSUME NEW w \in Writer, IoError(w) PROVE [Store!Next]_Store!vars
  <2>1. CASE pc[w] \in Compiling
    BY <1>0, <1>2, <1>10, <2>1 DEF IoError, Raw, Compiling, Reality
  <2>2. CASE pc[w] \notin Compiling
    BY <1>0, <1>3, <1>10, <2>2 DEF IoError, Raw, Label, Compiling, Reality
  <2>3. QED
    BY <2>1, <2>2
<1>11. ASSUME NEW w \in Writer, Crash(w) PROVE [Store!Next]_Store!vars
  BY <1>0, <1>2, <1>11 DEF Crash, Running, Killed, Raw, Compiling, Reality
<1>12. ASSUME NEW s \in Source, EditSource(s) PROVE [Store!Next]_Store!vars
  BY <1>2, <1>12 DEF EditSource, Raw
<1>13. CASE PowerLoss
  BY <1>0, <1>2, <1>13 DEF PowerLoss, Running, Killed, Raw, Compiling, Reality
<1>14. CASE UNCHANGED vars
  BY <1>2, <1>14 DEF vars, Raw
<1>15. QED
  BY <1>1, <1>4, <1>5, <1>6, <1>7, <1>8, <1>9, <1>10, <1>11, <1>12, <1>13, <1>14
  DEF Next, Step, CompileStep

LEMMA InitSimulation == Init => Store!Init
  BY DEF Init, Store!Init, Stored, Wants, Reply, Succeeded, Compiling, Reality

(* Every behaviour in which no power loss undoes the link is one of the    *)
(* write-once store.                                                       *)
THEOREM Refinement == Spec /\ []~entryLost => ImplementsWriteOnceStore
<1>1. TypeOK /\ TypeOK' /\ IInv /\ IInv' /\ ~entryLost /\ (~entryLost)' /\ [Next]_vars
      => [Store!Next]_Store!vars
  BY StepSimulation
<1>2. QED
  BY <1>1, InitSimulation, TypeCorrect, InvHolds, PTL DEF Spec, ImplementsWriteOnceStore, Store!Spec
=============================================================================
