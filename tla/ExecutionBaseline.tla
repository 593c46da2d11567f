------------------------- MODULE ExecutionBaseline -------------------------
(***************************************************************************)
(* labos.benchmarks.execution_baseline: the protected files of the         *)
(* repository are measured one by one, and the record names the commit     *)
(* they are said to come from.  The record is committed.  Later it is      *)
(* verified in two layers, against the working tree and against Git, while *)
(* people edit, commit and check out.  External: what Git answers.         *)
(***************************************************************************)
EXTENDS Integers, Sequences, FiniteSets

CONSTANTS Protected,     \* tuple of what is measured, in order: files and trees
          Version,       \* what each of them can contain
          NoRecord,
          MaxGitSteps    \* bound on what people do, and on commits

Item == {Protected[n] : n \in DOMAIN Protected}

ASSUME BaselineAssumption ==
  /\ Protected \in Seq(Item) /\ Len(Protected) > 0
  /\ Version # {} /\ MaxGitSteps \in Nat

VARIABLES work,      \* the working tree: protected content, and the record file
          commits,   \* the repository; commit 1 is the protocol merge
          head,      \* what is checked out
          steps,     \* what people did
          baseline   \* the command

git == <<work, commits, head, steps>>

Content == [Item -> Version]
CommitId == 1..MaxGitSteps + 1
Record == [commit : CommitId, content : Content]
Tree == [content : Content, record : Record \cup {NoRecord}]
Commit == [parent : CommitId \cup {0}, tree : Tree]

TypeOK ==
  /\ work \in Tree
  /\ commits \in Seq(Commit) /\ Len(commits) <= steps + 1
  /\ head \in DOMAIN commits
  /\ steps \in 0..MaxGitSteps
  /\ baseline \in [ phase : {"idle", "measure", "verify", "frozen", "mismatch"},
                    commit : CommitId, record : Record \cup {NoRecord}, read : Seq(Version),
                    ref : CommitId, began : 0..MaxGitSteps ]

GitInit(v) ==
  /\ work = [content |-> [i \in Item |-> v], record |-> NoRecord]
  /\ commits = <<[parent |-> 0, tree |-> work]>>
  /\ head = 1
  /\ steps = 0

BaselineInit ==
  baseline = [ phase |-> "idle", commit |-> 1, record |-> NoRecord, read |-> <<>>, ref |-> 1,
               began |-> 0 ]

-----------------------------------------------------------------------------
(* People.                                                                 *)

Act == steps < MaxGitSteps /\ steps' = steps + 1

EditItem ==
  /\ Act
  /\ \E i \in Item : \E v \in Version \ {work.content[i]} : work' = [work EXCEPT !.content[i] = v]
  /\ UNCHANGED <<commits, head, baseline>>

(* git commit of some of what differs.                                     *)
CommitSome ==
  /\ Act
  /\ \E chosen \in SUBSET Item, withRecord \in BOOLEAN :
       LET old == commits[head].tree
           new == [content |-> [i \in Item |-> IF i \in chosen THEN work.content[i] ELSE old.content[i]],
                   record |-> IF withRecord THEN work.record ELSE old.record]
       IN /\ new # old
          /\ commits' = Append(commits, [parent |-> head, tree |-> new])
  /\ head' = Len(commits) + 1
  /\ UNCHANGED <<work, baseline>>

(* A clean checkout of a commit.                                           *)
Checkout ==
  /\ Act
  /\ \E c \in DOMAIN commits : head' = c /\ work' = commits[c].tree
  /\ UNCHANGED <<commits, baseline>>

RemoveRecord ==
  /\ Act
  /\ work.record # NoRecord
  /\ work' = [work EXCEPT !.record = NoRecord]
  /\ UNCHANGED <<commits, head, baseline>>

-----------------------------------------------------------------------------
(* build_execution_baseline_record, write_new_execution_baseline_record.   *)

(* The commit is named by the caller and not compared with anything.       *)
BeginMeasuring ==
  /\ baseline.phase = "idle"
  /\ \E c \in DOMAIN commits : baseline' = [baseline EXCEPT !.phase = "measure", !.commit = c]
  /\ UNCHANGED git

Measured(read) == [i \in Item |-> read[CHOOSE n \in DOMAIN Protected : Protected[n] = i]]

ReadItem(phase) ==
  /\ baseline.phase = phase /\ Len(baseline.read) < Len(Protected)
  /\ baseline' = [baseline EXCEPT !.read = Append(@, work.content[Protected[Len(@) + 1]])]
  /\ UNCHANGED git

WriteRecord ==
  /\ baseline.phase = "measure" /\ Len(baseline.read) = Len(Protected)
  /\ IF work.record # NoRecord THEN UNCHANGED work
     ELSE work' = [work EXCEPT !.record = [commit |-> baseline.commit, content |-> Measured(baseline.read)]]
  /\ baseline' = [baseline EXCEPT !.phase = "idle", !.read = <<>>]
  /\ UNCHANGED <<commits, head, steps>>

-----------------------------------------------------------------------------
(* verify_execution_baseline and verify_execution_baseline_git.            *)

LoadRecord ==
  /\ baseline.phase = "idle" /\ work.record # NoRecord
  /\ \E ref \in DOMAIN commits :
       baseline' = [baseline EXCEPT !.phase = "verify", !.record = work.record, !.ref = ref, !.read = <<>>,
                                    !.began = steps]
  /\ UNCHANGED git

Ancestors[c \in DOMAIN commits] == {c} \cup (IF commits[c].parent = 0 THEN {} ELSE Ancestors[commits[c].parent])

(* Faulty variant: the protected paths of the two commits are not compared.*)
GitFindings_Ancestry(record, ref) ==
  {n \in 1..5 :
     \/ n = 1 /\ ref # head
     \/ n = 2 /\ commits[ref].tree.record # record
     \/ n = 3 /\ 1 \notin Ancestors[record.commit]
     \/ n = 4 /\ record.commit \notin Ancestors[ref]}

(* git_ref_not_checked_out, baseline_record_git_mismatch or not_committed, *)
(* protocol_not_ancestor, protected_content_not_ancestor,                  *)
(* protected_scope_git_mismatch or dependency_manifest_git_mismatch.       *)
GitFindings(record, ref) ==
  {n \in 1..5 :
     \/ n = 1 /\ ref # head
     \/ n = 2 /\ commits[ref].tree.record # record
     \/ n = 3 /\ 1 \notin Ancestors[record.commit]
     \/ n = 4 /\ record.commit \notin Ancestors[ref]
     \/ n = 5 /\ commits[record.commit].tree.content # commits[ref].tree.content}

(* The Git questions are asked in one step.                                *)
EndVerify ==
  /\ baseline.phase = "verify" /\ Len(baseline.read) = Len(Protected)
  /\ baseline' = [baseline EXCEPT
       !.phase = IF /\ Measured(baseline.read) = baseline.record.content
                    /\ GitFindings(baseline.record, baseline.ref) = {}
                 THEN "frozen" ELSE "mismatch"]
  /\ UNCHANGED git

BaselineStep ==
  \/ BeginMeasuring \/ ReadItem("measure") \/ WriteRecord
  \/ LoadRecord \/ ReadItem("verify") \/ EndVerify

GitStep == EditItem \/ CommitSome \/ Checkout \/ RemoveRecord

-----------------------------------------------------------------------------
(* What the freeze relies on: if both layers find nothing, and the working *)
(* tree was a clean checkout that nobody touched during verification, then *)
(* what was measured, what is checked out and what the named commit        *)
(* contains are the same bytes, that commit descends from the protocol and *)
(* is an ancestor, and the record is committed; whatever was edited,       *)
(* committed or checked out while the record was made.                     *)
FrozenIsReviewed ==
  baseline.phase = "frozen" /\ steps = baseline.began /\ work = commits[head].tree =>
    /\ baseline.record.content = commits[baseline.record.commit].tree.content
    /\ baseline.record.content = work.content
    /\ baseline.record.commit \in Ancestors[head]
    /\ work.record = baseline.record
=============================================================================
