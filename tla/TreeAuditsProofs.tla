-------------------------- MODULE TreeAuditsProofs --------------------------
(***************************************************************************)
(* What the commands that read files which others change guarantee, for    *)
(* any tree of the three levels, any files in it and any number of         *)
(* changes: the execution baseline, the verification of a sealed folder,   *)
(* the projection of a measurement and the leakage audit.                  *)
(***************************************************************************)
EXTENDS TreeAudits, WellFoundedInduction, TLAPS

-----------------------------------------------------------------------------
(* The execution baseline: any protected files and contents, any number of *)
(* edits, commits and checkouts while it was made and verified.            *)

(* Every step of the specification, as the repository and the command see  *)
(* it: a step of either, or none.                                          *)
BaselineNext == BaselineStep \/ GitStep \/ UNCHANGED <<git, baseline>>

LEMMA StepsSeen == [Next]_vars => BaselineNext
  BY DEF Next, vars, Adapter, Scan, Seal, Baseline, Others, BaselineNext, git

LEMMA InitSeen == Init => BaselineInit /\ \E v \in Version : GitInit(v)
  BY BaselineAssumption DEF Init

LEMMA ItemsAreRead ==
  /\ \A n \in 1..Len(Protected) : Protected[n] \in Item
  /\ \A i \in Item : \E n \in 1..Len(Protected) : Protected[n] = i
<1>1. DOMAIN Protected = 1..Len(Protected)
  BY BaselineAssumption
<1> QED
  BY <1>1 DEF Item

LEMMA MeasuredType ==
  ASSUME NEW read \in Seq(Version), Len(read) = Len(Protected)
  PROVE  Measured(read) \in Content
<1> SUFFICES ASSUME NEW i \in Item
             PROVE  read[CHOOSE n \in DOMAIN Protected : Protected[n] = i] \in Version
  BY DEF Measured, Content
<1>1. DOMAIN Protected = 1..Len(Protected) /\ Len(Protected) \in Nat
  BY BaselineAssumption
<1>2. \E n \in DOMAIN Protected : Protected[n] = i
  BY <1>1, ItemsAreRead
<1>3. (CHOOSE n \in DOMAIN Protected : Protected[n] = i) \in 1..Len(Protected)
  BY <1>1, <1>2
<1> QED
  BY <1>3

-----------------------------------------------------------------------------
(* Type correctness.                                                       *)

LEMMA TypeInit == Init => TypeOK
<1> SUFFICES ASSUME Init PROVE TypeOK
  OBVIOUS
<1>1. PICK v \in Version : GitInit(v)
  BY InitSeen
<1>2. BaselineInit
  BY InitSeen
<1>3. MaxGitSteps \in Nat /\ 1 \in CommitId
  BY BaselineAssumption DEF CommitId
<1>4. work \in Tree
  BY <1>1 DEF GitInit, Tree, Content
<1>5. /\ commits \in Seq(Commit) /\ Len(commits) <= steps + 1
      /\ head \in DOMAIN commits
      /\ steps \in 0..MaxGitSteps
  BY <1>1, <1>3, <1>4 DEF GitInit, Commit
<1>6. <<>> \in Seq(Version)
  OBVIOUS
<1>7. 0 \in 0..MaxGitSteps
  BY <1>3
<1>8. baseline \in [ phase : {"idle", "measure", "verify", "frozen", "mismatch"},
                     commit : CommitId, record : Record \cup {NoRecord}, read : Seq(Version),
                     ref : CommitId, began : 0..MaxGitSteps ]
  BY <1>2, <1>3, <1>6, <1>7 DEF BaselineInit
<1> QED
  BY <1>4, <1>5, <1>8 DEF TypeOK

LEMMA TypeStep == TypeOK /\ BaselineNext => TypeOK'
<1> SUFFICES ASSUME TypeOK, BaselineNext PROVE TypeOK'
  OBVIOUS
<1> USE DEF TypeOK
<1>1. MaxGitSteps \in Nat /\ DOMAIN commits = 1..Len(commits) /\ Len(commits) \in Nat
  BY BaselineAssumption
<1>2. DOMAIN commits \subseteq CommitId
  BY <1>1 DEF CommitId
<1>3. \A c \in DOMAIN commits : commits[c].tree \in Tree
  <2>1. \A c \in 1..Len(commits) : commits[c] \in Commit
    OBVIOUS
  <2> QED
    BY <1>1, <2>1 DEF Commit
<1>4. <<>> \in Seq(Version)
  OBVIOUS
<1>a. CASE EditItem
  <2>1. PICK i \in Item, v \in Version : work' = [work EXCEPT !.content[i] = v]
    BY <1>a DEF EditItem
  <2>2. work' \in Tree
    BY <2>1 DEF Tree, Content
  <2> QED
    BY <1>a, <1>1, <2>2 DEF EditItem, Act
<1>b. CASE CommitSome
  <2>1. PICK chosen \in SUBSET Item, withRecord \in BOOLEAN :
          commits' = Append(commits,
            [ parent |-> head,
              tree |-> [ content |-> [i \in Item |-> IF i \in chosen THEN work.content[i]
                                                     ELSE commits[head].tree.content[i]],
                         record |-> IF withRecord THEN work.record ELSE commits[head].tree.record ] ])
    BY <1>b DEF CommitSome
  <2> DEFINE new == [ content |-> [i \in Item |-> IF i \in chosen THEN work.content[i]
                                                  ELSE commits[head].tree.content[i]],
                      record |-> IF withRecord THEN work.record ELSE commits[head].tree.record ]
  <2>2. new \in Tree
    BY <1>3 DEF Tree, Content
  <2>3. [parent |-> head, tree |-> new] \in Commit
    BY <1>2, <2>2 DEF Commit
  <2> HIDE DEF new
  <2>4. commits' = Append(commits, [parent |-> head, tree |-> new])
    BY <2>1 DEF new
  <2>5. commits' \in Seq(Commit) /\ Len(commits') = Len(commits) + 1
    BY <2>3, <2>4
  <2>6. steps' = steps + 1 /\ steps < MaxGitSteps /\ head' = Len(commits) + 1 /\ UNCHANGED <<work, baseline>>
    BY <1>b DEF CommitSome, Act
  <2> QED
    BY <1>1, <2>5, <2>6
<1>c. CASE Checkout
  BY <1>c, <1>1, <1>3 DEF Checkout, Act
<1>d. CASE RemoveRecord
  BY <1>d, <1>1 DEF RemoveRecord, Act, Tree
<1>e. CASE BeginMeasuring
  BY <1>e, <1>2 DEF BeginMeasuring, git
<1>f. ASSUME NEW phase \in {"measure", "verify"}, ReadItem(phase) PROVE TypeOK'
  <2>1. Len(baseline.read) + 1 \in 1..Len(Protected)
    BY <1>f, BaselineAssumption DEF ReadItem
  <2>2. work.content[Protected[Len(baseline.read) + 1]] \in Version
    BY <2>1, ItemsAreRead DEF Tree, Content
  <2>3. baseline' = [baseline EXCEPT
          !.read = Append(baseline.read, work.content[Protected[Len(baseline.read) + 1]])]
    BY <1>f DEF ReadItem
  <2>4. Append(baseline.read, work.content[Protected[Len(baseline.read) + 1]]) \in Seq(Version)
    BY <2>2
  <2> QED
    BY <1>f, <2>3, <2>4 DEF ReadItem, git
<1>g. CASE WriteRecord
  <2>1. Measured(baseline.read) \in Content
    BY <1>g, MeasuredType DEF WriteRecord
  <2>2. work' \in Tree
    BY <1>g, <2>1 DEF WriteRecord, Tree, Record
  <2> QED
    BY <1>4, <1>g, <2>2 DEF WriteRecord
<1>h. CASE LoadRecord
  BY <1>h, <1>2, <1>4 DEF LoadRecord, git, Tree
<1>i. CASE EndVerify
  BY <1>i DEF EndVerify, git
<1>j. CASE UNCHANGED <<git, baseline>>
  BY <1>j DEF git
<1> QED
  BY <1>a, <1>b, <1>c, <1>d, <1>e, <1>f, <1>g, <1>h, <1>i, <1>j
     DEF BaselineNext, BaselineStep, GitStep

-----------------------------------------------------------------------------
(* The strengthening: the files read so far are those of the working tree  *)
(* as long as nobody has touched it, and the verdict "frozen" stands for   *)
(* the two comparisons it was drawn from.                                  *)
IInv ==
  /\ TypeOK
  /\ baseline.began <= steps
  /\ baseline.phase = "idle" => baseline.read = <<>>
  /\ baseline.phase \in {"verify", "frozen"} /\ steps = baseline.began =>
       \A n \in 1..Len(baseline.read) :
         n <= Len(Protected) /\ baseline.read[n] = work.content[Protected[n]]
  /\ baseline.phase = "frozen" /\ steps = baseline.began =>
       /\ Len(baseline.read) = Len(Protected)
       /\ Measured(baseline.read) = baseline.record.content
       /\ GitFindings(baseline.record, baseline.ref) = {}

LEMMA IInvInit == Init => IInv
<1> SUFFICES ASSUME Init PROVE IInv
  OBVIOUS
<1>1. TypeOK
  BY TypeInit
<1>2. baseline.phase = "idle" /\ baseline.read = <<>> /\ baseline.began = 0
  BY InitSeen DEF BaselineInit
<1> QED
  BY <1>1, <1>2, BaselineAssumption DEF IInv, TypeOK

(* People count their steps, so that the last two parts say nothing of the *)
(* states after them.                                                      *)
LEMMA IInvStep == IInv /\ BaselineNext => IInv'
<1> SUFFICES ASSUME IInv, BaselineNext PROVE IInv'
  OBVIOUS
<1>1. TypeOK /\ TypeOK'
  BY TypeStep DEF IInv
<1>2. /\ steps \in Nat /\ baseline.began \in Nat /\ baseline.read \in Seq(Version)
      /\ Len(baseline.read) \in Nat /\ Len(Protected) \in Nat
  BY <1>1, BaselineAssumption DEF TypeOK
<1>a. CASE GitStep
  <2>1. steps' = steps + 1 /\ UNCHANGED baseline
    BY <1>a DEF GitStep, EditItem, CommitSome, Checkout, RemoveRecord, Act
  <2> QED
    BY <1>1, <1>2, <2>1 DEF IInv
<1>b. CASE BeginMeasuring
  <2>1. baseline'.phase = "measure" /\ baseline'.began = baseline.began /\ steps' = steps
    BY <1>1, <1>b DEF BeginMeasuring, git, TypeOK
  <2> QED
    BY <1>1, <2>1 DEF IInv
<1>c. ASSUME NEW phase \in {"measure", "verify"}, ReadItem(phase) PROVE IInv'
  <2> DEFINE n == Len(baseline.read) + 1
  <2>1. /\ baseline.phase = phase /\ n <= Len(Protected)
        /\ baseline'.read = Append(baseline.read, work.content[Protected[n]])
        /\ baseline'.phase = phase /\ baseline'.began = baseline.began
        /\ steps' = steps /\ work' = work
    BY <1>1, <1>2, <1>c DEF ReadItem, git, TypeOK
  <2>2. /\ Len(baseline'.read) = n /\ baseline'.read[n] = work.content[Protected[n]]
        /\ \A k \in 1..Len(baseline.read) : baseline'.read[k] = baseline.read[k]
    BY <1>2, <2>1
  <2>3. ASSUME phase = "verify", steps = baseline.began
        PROVE  \A k \in 1..Len(baseline'.read) :
                 k <= Len(Protected) /\ baseline'.read[k] = work.content[Protected[k]]
    <3>1. \A k \in 1..Len(baseline.read) :
            k <= Len(Protected) /\ baseline.read[k] = work.content[Protected[k]]
      BY <2>1, <2>3 DEF IInv
    <3>2. \A k \in 1..n : k = n \/ k \in 1..Len(baseline.read)
      BY <1>2
    <3> QED
      BY <2>1, <2>2, <3>1, <3>2
  <2> HIDE DEF n
  <2> QED
    BY <1>1, <1>c, <2>1, <2>3 DEF IInv
<1>d. CASE WriteRecord
  <2>1. baseline'.phase = "idle" /\ baseline'.read = <<>>
        /\ baseline'.began = baseline.began /\ steps' = steps
    BY <1>1, <1>d DEF WriteRecord, TypeOK
  <2> QED
    BY <1>1, <2>1 DEF IInv
<1>e. CASE LoadRecord
  <2>1. baseline'.phase = "verify" /\ baseline'.read = <<>> /\ baseline'.began = steps /\ steps' = steps
    BY <1>1, <1>e DEF LoadRecord, git, TypeOK
  <2>2. \A k \in 1..Len(baseline'.read) :
          k <= Len(Protected) /\ baseline'.read[k] = work'.content[Protected[k]]
    BY <2>1
  <2> QED
    BY <1>1, <1>2, <2>1, <2>2 DEF IInv
<1>f. CASE EndVerify
  <2> DEFINE clean == /\ Measured(baseline.read) = baseline.record.content
                      /\ GitFindings(baseline.record, baseline.ref) = {}
  <2>1. /\ baseline.phase = "verify" /\ Len(baseline.read) = Len(Protected)
        /\ baseline'.phase = IF clean THEN "frozen" ELSE "mismatch"
        /\ baseline'.read = baseline.read /\ baseline'.record = baseline.record
        /\ baseline'.ref = baseline.ref /\ baseline'.began = baseline.began
        /\ UNCHANGED git
    BY <1>1, <1>f DEF EndVerify, TypeOK
  <2>2. clean' = clean
    BY <2>1 DEF GitFindings, Ancestors, Measured, git
  <2>3. steps' = steps /\ work' = work
    BY <2>1 DEF git
  <2> HIDE DEF clean
  <2>4. baseline'.phase = "frozen" => clean'
    BY <2>1, <2>2
  <2> QED
    BY <1>1, <2>1, <2>3, <2>4 DEF IInv, clean
<1>g. CASE UNCHANGED <<git, baseline>>
  <2>1. GitFindings(baseline.record, baseline.ref)' = GitFindings(baseline.record, baseline.ref)
    BY <1>g DEF GitFindings, Ancestors, git
  <2>2. Measured(baseline.read)' = Measured(baseline.read)
    BY <1>g DEF Measured
  <2> QED
    BY <1>g, <1>1, <2>1, <2>2 DEF IInv, git
<1> QED
  BY <1>a, <1>b, <1>c, <1>d, <1>e, <1>f, <1>g DEF BaselineNext, BaselineStep

LEMMA IInvHolds == Spec => []IInv
<1>1. Init => IInv
  BY IInvInit
<1>2. IInv /\ [Next]_vars => IInv'
  BY StepsSeen, IInvStep
<1> QED
  BY <1>1, <1>2, PTL DEF Spec

-----------------------------------------------------------------------------
(* The working tree, the repository and the baseline command stay          *)
(* well-typed.                                                             *)
THEOREM BaselineTypeCorrect == Spec => []TypeOK
<1>1. IInv => TypeOK
  BY DEF IInv
<1> QED
  BY <1>1, IInvHolds, PTL

(* Both layers together vouch for the named commit                         *)
(* (verify_execution_baseline and verify_execution_baseline_git): however  *)
(* the record came about, content, checkout and commit agree.              *)
THEOREM FrozenBaselineIsReviewed == Spec => []FrozenIsReviewed
<1>1. IInv => FrozenIsReviewed
  <2> SUFFICES ASSUME IInv, baseline.phase = "frozen", steps = baseline.began,
                      work = commits[head].tree
               PROVE  /\ baseline.record.content = commits[baseline.record.commit].tree.content
                      /\ baseline.record.content = work.content
                      /\ baseline.record.commit \in Ancestors[head]
                      /\ work.record = baseline.record
    BY DEF FrozenIsReviewed
  <2>1. GitFindings(baseline.record, baseline.ref) = {}
    BY DEF IInv
  <2>2. /\ baseline.ref = head
        /\ commits[baseline.ref].tree.record = baseline.record
        /\ baseline.record.commit \in Ancestors[baseline.ref]
        /\ commits[baseline.record.commit].tree.content = commits[baseline.ref].tree.content
    <3> DEFINE question(n) ==
          \/ n = 1 /\ baseline.ref # head
          \/ n = 2 /\ commits[baseline.ref].tree.record # baseline.record
          \/ n = 3 /\ 1 \notin Ancestors[baseline.record.commit]
          \/ n = 4 /\ baseline.record.commit \notin Ancestors[baseline.ref]
          \/ n = 5 /\ commits[baseline.record.commit].tree.content # commits[baseline.ref].tree.content
    <3>1. {n \in 1..5 : question(n)} = {}
      BY <2>1 DEF GitFindings
    <3>2. \A n \in 1..5 : ~question(n)
      BY <3>1
    <3> QED
      BY <3>2
  <2>3. Measured(baseline.read) = work.content
    <3>1. \A n \in 1..Len(Protected) : baseline.read[n] = work.content[Protected[n]]
      BY DEF IInv
    <3>2. ASSUME NEW i \in Item
          PROVE  baseline.read[CHOOSE n \in DOMAIN Protected : Protected[n] = i] = work.content[i]
      <4> DEFINE k == CHOOSE n \in DOMAIN Protected : Protected[n] = i
      <4>1. DOMAIN Protected = 1..Len(Protected)
        BY BaselineAssumption
      <4>2. \E n \in DOMAIN Protected : Protected[n] = i
        BY <4>1, ItemsAreRead
      <4>3. k \in 1..Len(Protected) /\ Protected[k] = i
        BY <4>1, <4>2
      <4> HIDE DEF k
      <4>4. baseline.read[k] = work.content[i]
        BY <3>1, <4>3
      <4> QED
        BY <4>4 DEF k
    <3>3. work.content \in [Item -> Version]
      BY DEF IInv, TypeOK, Tree, Content
    <3> QED
      BY <3>2, <3>3 DEF Measured
  <2> QED
    BY <2>2, <2>3 DEF IInv
<1> QED
  BY <1>1, IInvHolds, PTL

-----------------------------------------------------------------------------
(* Paths.                                                                  *)

LEMMA PathFacts ==
  /\ Top \in Path
  /\ \A p \in Path \ {Top} :
       /\ Parent[p] \in Path /\ Parent[p] # p
       /\ p \in Names(Parent[p]) /\ Parent[p] \in Directories
  /\ \A d \in Directories : d \in Path /\ (d = Top \/ d \in Names(Top))
  /\ Top \in Directories
  /\ MaxChanges \in Nat
<1>1. \A p \in Path \ {Top} : Parent[p] \in Path /\ p \in Names(Parent[p])
  BY TreeAssumption DEF Names
<1>2. \A p \in Path \ {Top} : Parent[p] = Top \/ Parent[Parent[p]] = Top
  BY TreeAssumption
<1>3. ASSUME NEW p \in Path \ {Top} PROVE Parent[p] # p /\ Parent[p] \in Directories
  BY <1>1, <1>2 DEF Directories
<1>4. ASSUME NEW d \in Directories PROVE d = Top \/ d \in Names(Top)
  <2>1. PICK q \in Path \ {Top} : Parent[q] = d
    BY DEF Directories, Names
  <2>2. d \in Path
    BY DEF Directories
  <2> QED
    BY <2>1, <2>2, <1>2 DEF Names
<1>5. Top \in Directories
  <2>1. PICK p \in Path : p # Top
    BY AdapterAssumption DEF Names
  <2>2. Parent[p] = Top \/ (Parent[p] \in Path \ {Top} /\ Parent[Parent[p]] = Top)
    BY <1>1, <1>2, <2>1
  <2>3. \E q \in Path \ {Top} : Parent[q] = Top
    BY <2>1, <2>2
  <2> QED
    BY <2>3, TreeAssumption DEF Directories, Names
<1>6. Directories \subseteq Path
  BY DEF Directories
<1> QED
  BY <1>1, <1>3, <1>4, <1>5, <1>6, TreeAssumption

(* What is not below p has no directory below p.                           *)
LEMMA BelowFacts ==
  ASSUME NEW p \in Path, NEW q \in Path
  PROVE  /\ p \in Below(p) /\ Below(p) \subseteq Path
         /\ q \notin Below(p) => p # Top
         /\ q \notin Below(p) /\ q # Top => Parent[q] \in Path \ Below(p)
         /\ q \in Below(p) => \/ q = p
                              \/ q # Top /\ Parent[q] = p
                              \/ q # Top /\ Parent[q] # Top /\ Parent[Parent[q]] = p
<1>1. p \in Below(p) /\ Below(p) \subseteq Path
  BY DEF Below
<1>2. q \in Below(Top)
  <2>1. CASE q = Top
    BY <2>1 DEF Below
  <2>2. CASE q # Top
    BY <2>2, PathFacts DEF Below
  <2> QED
    BY <2>1, <2>2
<1>3. ASSUME q \notin Below(p), q # Top PROVE Parent[q] \in Path \ Below(p)
  <2>1. Parent[q] \in Path /\ Parent[q] # p /\ Parent[q] \notin Names(p)
    BY <1>3, PathFacts DEF Below, Names
  <2>2. CASE Parent[q] = Top
    BY <2>1, <2>2 DEF Below, Names
  <2>3. CASE Parent[q] # Top
    <3>1. Parent[q] \in Names(Top)
      BY <1>3, <2>3, PathFacts
    <3>2. Top \notin Names(p)
      BY DEF Names
    <3> QED
      BY <2>1, <3>1, <3>2 DEF Below, Names
  <2> QED
    BY <2>2, <2>3
<1>4. q \in Below(p) => \/ q = p
                        \/ q # Top /\ Parent[q] = p
                        \/ q # Top /\ Parent[q] # Top /\ Parent[Parent[q]] = p
  BY DEF Below, Names
<1> QED
  BY <1>1, <1>2, <1>3, <1>4

-----------------------------------------------------------------------------
(* Objects.                                                                *)

(* An object is a record, and its names lead to objects made so far.       *)
WellFormed(u) ==
  /\ u = [kind |-> u.kind, stamp |-> u.stamp, data |-> u.data, names |-> u.names]
  /\ u.kind \in {"none", "file", "link", "dir"}
  /\ \A q \in DOMAIN u.names : u.names[q] \in Moment

Fits(p, u) ==
  /\ WellFormed(u)
  /\ p \in Directories => u.kind # "file"
  /\ p \notin Directories => u.kind # "dir"

TreeOK ==
  /\ DOMAIN object = Path \X Moment
  /\ \A p \in Path, i \in Moment : Fits(p, object[<<p, i>>])
  /\ top \in Moment /\ clock \in Moment
  /\ late \subseteq Path

LEMMA MomentFacts == Missing \notin Moment /\ 0 \in Moment /\ \A i \in Moment : i \in Nat
  BY PathFacts DEF Missing, Moment

(* Named, as a function of the objects.                                    *)
Leads(o, d, i, q) ==
  IF i # Missing /\ q \in DOMAIN o[<<d, i>>].names THEN o[<<d, i>>].names[q] ELSE Missing

LEMMA ResolveStep ==
  /\ Resolve(Top) = top
  /\ \A p \in Path \ {Top} : Resolve(p) = Leads(object, Parent[p], Resolve(Parent[p]), p)
  /\ Resolve(Top)' = top'
  /\ \A p \in Path \ {Top} : Resolve(p)' = Leads(object', Parent[p], Resolve(Parent[p])', p)
<1>1. Resolve(Top) = top /\ Resolve(Top)' = top'
  <2>1. Top \notin Names(Top)
    BY DEF Names
  <2> QED
    BY <2>1 DEF Resolve
<1>2. ASSUME NEW p \in Path \ {Top}, Parent[p] = Top
      PROVE  /\ Resolve(p) = Leads(object, Top, top, p)
             /\ Resolve(p)' = Leads(object', Top, top', p)
  <2>1. p \in Names(Top)
    BY <1>2, PathFacts
  <2> QED
    BY <2>1 DEF Resolve, Named, Leads
<1>3. ASSUME NEW p \in Path \ {Top}, Parent[p] # Top
      PROVE  /\ Resolve(p) = Leads(object, Parent[p], Resolve(Parent[p]), p)
             /\ Resolve(p)' = Leads(object', Parent[p], Resolve(Parent[p])', p)
  <2>1. Parent[p] \in Names(Top) /\ p \notin Names(Top) /\ Parent[Parent[p]] = Top /\ Parent[p] \in Path \ {Top}
    BY <1>3, PathFacts, TreeAssumption DEF Names
  <2>2. Resolve(Parent[p]) = Named(Top, top, Parent[p]) /\ Resolve(Parent[p])' = Leads(object', Top, top', Parent[p])
    BY <1>2, <1>3, <2>1 DEF Resolve
  <2>3. Resolve(p) = Named(Parent[p], Named(Top, top, Parent[p]), p)
    BY <1>3, <2>1 DEF Resolve
  <2>4. Resolve(p)' = Leads(object', Parent[p], Leads(object', Top, top', Parent[p]), p)
    BY <1>3, <2>1 DEF Resolve, Named, Leads
  <2>5. Resolve(p) = Leads(object, Parent[p], Resolve(Parent[p]), p)
    BY <2>2, <2>3 DEF Named, Leads
  <2> QED
    BY <2>2, <2>4, <2>5
<1> QED
  BY <1>1, <1>2, <1>3

LEMMA ResolveType ==
  ASSUME TreeOK, NEW p \in Path
  PROVE  Resolve(p) \in Moment \cup {Missing}
<1>1. ASSUME NEW d \in Path, NEW i \in Moment \cup {Missing}, NEW q
      PROVE  Leads(object, d, i, q) \in Moment \cup {Missing}
  BY <1>1 DEF Leads, TreeOK, Fits, WellFormed
<1>2. CASE p = Top
  BY <1>2, ResolveStep DEF TreeOK
<1>3. CASE p # Top /\ Parent[p] = Top
  BY <1>1, <1>3, ResolveStep, PathFacts DEF TreeOK
<1>4. CASE p # Top /\ Parent[p] # Top
  <2>1. Parent[p] \in Path \ {Top} /\ Parent[Parent[p]] = Top
    BY <1>4, PathFacts, TreeAssumption
  <2>2. Resolve(Parent[p]) \in Moment \cup {Missing}
    BY <1>1, <2>1, ResolveStep, PathFacts DEF TreeOK
  <2> QED
    BY <1>1, <1>4, <2>1, <2>2, ResolveStep
<1> QED
  BY <1>2, <1>3, <1>4

-----------------------------------------------------------------------------
(* Changes.                                                                *)

(* What an object keeps when the name p is changed.                        *)
Kept(p, u, v) ==
  /\ v.kind = u.kind /\ v.data = u.data
  /\ \A q \in Path \ {p} :
       /\ q \in DOMAIN v.names <=> q \in DOMAIN u.names
       /\ q \in DOMAIN u.names => v.names[q] = u.names[q]

(* What becomes of the object u = <<a, i>> when the name p goes to id.     *)
Renamed(p, id, a, i, u, v) ==
  /\ Fits(a, v) /\ Kept(p, u, v)
  /\ v = u \/ v.stamp = clock + 1
  /\ <<a, i>> \in {<<Parent[p], Resolve(Parent[p])>>, <<p, Resolve(p)>>, <<p, id>>} =>
       v.stamp = clock + 1
  /\ <<a, i>> = <<Parent[p], Resolve(Parent[p])>> =>
       /\ p \in DOMAIN v.names <=> id # Missing
       /\ id # Missing => v.names[p] = id
  /\ \A q \in DOMAIN v.names :
       \/ q = p /\ v.names[q] = id
       \/ q \in DOMAIN u.names /\ v.names[q] = u.names[q]

LEMMA RenameEffect ==
  ASSUME NEW o, DOMAIN o = Path \X Moment, NEW p \in Path \ {Top}, NEW id \in Moment \cup {Missing},
         NEW a \in Path, NEW i \in Moment, Fits(a, o[<<a, i>>])
  PROVE  /\ DOMAIN Rename(o, p, id) = Path \X Moment
         /\ Renamed(p, id, a, i, o[<<a, i>>], Rename(o, p, id)[<<a, i>>])
<1> DEFINE r == Rename(o, p, id)
           d == <<Parent[p], Resolve(Parent[p])>>
           u == o[<<a, i>>]
           names == [q \in (DOMAIN o[d].names \ {p}) \cup (IF id = Missing THEN {} ELSE {p}) |->
                       IF q = p THEN id ELSE o[d].names[q]]
<1>1. DOMAIN r = Path \X Moment
  BY DEF Rename
<1>2. <<a, i>> \in DOMAIN o
  OBVIOUS
<1>3. u = [kind |-> u.kind, stamp |-> u.stamp, data |-> u.data, names |-> u.names]
  BY DEF Fits, WellFormed
<1>4. CASE <<a, i>> = d
  <2>1. r[<<a, i>>] = [u EXCEPT !.names = names, !.stamp = clock + 1]
    BY <1>2, <1>4 DEF Rename
  <2>2. r[<<a, i>>] = [kind |-> u.kind, stamp |-> clock + 1, data |-> u.data, names |-> names]
    BY <1>3, <2>1
  <2>3. /\ p \in DOMAIN names <=> id # Missing
        /\ id # Missing => names[p] = id
        /\ \A q \in Path \ {p} : /\ q \in DOMAIN names <=> q \in DOMAIN u.names
                                 /\ q \in DOMAIN u.names => names[q] = u.names[q]
    BY <1>4
  <2>4. \A q \in DOMAIN names :
          /\ names[q] \in Moment
          /\ (q = p /\ names[q] = id) \/ (q \in DOMAIN u.names /\ names[q] = u.names[q])
    BY <1>4 DEF Fits, WellFormed
  <2> HIDE DEF names, r, u
  <2>5. Fits(a, r[<<a, i>>]) /\ Kept(p, u, r[<<a, i>>])
    BY <2>2, <2>3, <2>4 DEF Fits, WellFormed, Kept, u
  <2>6. r[<<a, i>>].names = names /\ r[<<a, i>>].stamp = clock + 1
    BY <2>2
  <2> DEFINE v == r[<<a, i>>]
  <2> HIDE DEF v
  <2>a. Fits(a, v) /\ Kept(p, u, v) /\ v.stamp = clock + 1 /\ v.names = names
    BY <2>5, <2>6 DEF v
  <2>b. /\ p \in DOMAIN v.names <=> id # Missing
        /\ id # Missing => v.names[p] = id
    BY <2>3, <2>a
  <2>c. \A q \in DOMAIN v.names : (q = p /\ v.names[q] = id) \/ (q \in DOMAIN u.names /\ v.names[q] = u.names[q])
    BY <2>4, <2>a
  <2>7. Renamed(p, id, a, i, u, v)
    BY <2>a, <2>b, <2>c, Zenon DEF Renamed
  <2> QED
    BY <1>1, <2>7 DEF r, u, v
<1>5. CASE <<a, i>> # d /\ <<a, i>> \in {<<p, Resolve(p)>>, <<p, id>>}
  <2>1. r[<<a, i>>] = [u EXCEPT !.stamp = clock + 1]
    BY <1>2, <1>5 DEF Rename
  <2>2. r[<<a, i>>] = [kind |-> u.kind, stamp |-> clock + 1, data |-> u.data, names |-> u.names]
    BY <1>3, <2>1
  <2> HIDE DEF r, u
  <2>3. Fits(a, r[<<a, i>>]) /\ Kept(p, u, r[<<a, i>>])
    BY <2>2 DEF Fits, WellFormed, Kept, u
  <2> QED
    BY <1>1, <1>5, <2>2, <2>3 DEF r, u, Renamed
<1>6. CASE <<a, i>> \notin {d, <<p, Resolve(p)>>, <<p, id>>}
  <2>1. r[<<a, i>>] = u
    BY <1>2, <1>6 DEF Rename
  <2> QED
    BY <1>1, <1>6, <2>1 DEF Kept, Renamed
<1> QED
  BY <1>4, <1>5, <1>6

(* If nothing but the objects below p changes, and p's place, every other  *)
(* path leads to what it led to.                                           *)
LEMMA Elsewhere ==
  ASSUME TreeOK, NEW p \in Path, p # Top => top' = top,
         \A a \in Path \ Below(p), i \in Moment : Kept(p, object[<<a, i>>], object'[<<a, i>>])
  PROVE  \A q \in Path \ Below(p) : Resolve(q)' = Resolve(q)
<1>1. ASSUME NEW a \in Path \ Below(p), NEW i \in Moment \cup {Missing}, NEW q \in Path \ {p}
      PROVE  Leads(object', a, i, q) = Leads(object, a, i, q)
  BY <1>1 DEF Leads, Kept
<1>2. ASSUME NEW q \in Path \ Below(p), q = Top PROVE Resolve(q)' = Resolve(q)
  BY <1>2, BelowFacts, ResolveStep
<1>3. ASSUME NEW q \in Path \ Below(p), q # Top,
             Resolve(Parent[q])' = Resolve(Parent[q])
      PROVE  Resolve(q)' = Resolve(q)
  <2>1. Parent[q] \in Path \ Below(p) /\ q # p
    BY <1>3, BelowFacts
  <2>2. Resolve(Parent[q]) \in Moment \cup {Missing}
    BY <2>1, ResolveType
  <2> QED
    BY <1>1, <1>3, <2>1, <2>2, ResolveStep
<1>4. ASSUME NEW q \in Path \ Below(p), q # Top PROVE Resolve(q)' = Resolve(q)
  <2>1. Parent[q] \in Path \ Below(p)
    BY <1>4, BelowFacts
  <2>2. CASE Parent[q] = Top
    BY <1>2, <1>3, <1>4, <2>1, <2>2
  <2>3. CASE Parent[q] # Top
    <3>1. Parent[Parent[q]] = Top /\ Parent[Parent[q]] \in Path \ Below(p)
      BY <1>4, <2>1, <2>3, TreeAssumption, BelowFacts
    <3>2. Resolve(Parent[q])' = Resolve(Parent[q])
      BY <1>2, <1>3, <2>1, <2>3, <3>1
    <3> QED
      BY <1>3, <1>4, <3>2
  <2> QED
    BY <2>2, <2>3
<1> QED
  BY <1>2, <1>4

(* Stamps and names do not come from the future.                           *)
Within(u, t) == u.stamp \in 0..t /\ \A q \in DOMAIN u.names : u.names[q] <= t

Stamped ==
  /\ top <= clock
  /\ \A a \in Path, i \in Moment :
       Within(object[<<a, i>>], clock) /\ (i > clock => object[<<a, i>>] = NoObject)

(* All that the proofs need to know of what people do to the path p:       *)
(* what is not below p stays, an object that changes is stamped, and so    *)
(* are those that leave and arrive; nothing of old takes the topmost place.*)
Change(p) ==
  /\ p \in Path /\ clock' = clock + 1 /\ late' = late \cup Below(p)
  /\ TreeOK' /\ (Stamped => Stamped')
  /\ p # Top => top' = top
  /\ \A a \in Path \ Below(p), i \in Moment : Kept(p, object[<<a, i>>], object'[<<a, i>>])
  /\ \A a \in Path, i \in Moment :
       i # clock + 1 => object'[<<a, i>>] = object[<<a, i>>] \/ object'[<<a, i>>].stamp = clock + 1
  /\ p = Top => \A q \in Names(Top) \cup {Top} : Resolve(q)' = clock + 1
  /\ p # Top /\ p \in Directories => object'[<<Parent[p], Resolve(Parent[p])>>].stamp = clock + 1
  /\ p # Top /\ Resolve(p) # Missing => object'[<<p, Resolve(p)>>].stamp = clock + 1
  /\ p # Top /\ Resolve(p)' # Missing => object'[<<p, Resolve(p)'>>].stamp = clock + 1

LEMMA ResolveBound ==
  ASSUME TreeOK, Stamped, NEW p \in Path, Resolve(p) # Missing
  PROVE  Resolve(p) \in Moment /\ Resolve(p) <= clock
<1>1. Resolve(p) \in Moment
  BY ResolveType
<1>2. CASE p = Top
  BY <1>1, <1>2, ResolveStep DEF Stamped
<1>3. CASE p # Top
  <2>1. Parent[p] \in Path /\ Resolve(p) = Leads(object, Parent[p], Resolve(Parent[p]), p)
    BY <1>3, PathFacts, ResolveStep
  <2>2. Resolve(Parent[p]) \in Moment
    BY <2>1, ResolveType DEF Leads
  <2> QED
    BY <1>1, <2>1, <2>2 DEF Leads, Stamped, Within
<1> QED
  BY <1>2, <1>3

(* What has been prepared for the place p: new objects below p.            *)
NewOnly(p, o) ==
  /\ DOMAIN o = Path \X Moment
  /\ \A a \in Path, i \in Moment :
       /\ Fits(a, o[<<a, i>>])
       /\ \/ o[<<a, i>>] = object[<<a, i>>]
          \/ i = clock + 1 /\ a \in Below(p) /\ Within(o[<<a, i>>], clock + 1)

LEMMA RenameChange ==
  ASSUME TreeOK, clock < MaxChanges, NEW p \in Path \ {Top}, Resolve(Parent[p]) # Missing,
         NEW id \in Moment \cup {Missing}, Stamped => id <= clock + 1,
         NEW o, NewOnly(p, o), object' = Rename(o, p, id), top' = top, Tick(p)
  PROVE  Change(p)
<1> DEFINE r(a, i) == object'[<<a, i>>]
<1>1. ASSUME NEW a \in Path, NEW i \in Moment
      PROVE  DOMAIN object' = Path \X Moment /\ Renamed(p, id, a, i, o[<<a, i>>], r(a, i))
  <2>1. DOMAIN o = Path \X Moment /\ Fits(a, o[<<a, i>>])
    BY DEF NewOnly
  <2> QED
    BY <2>1, RenameEffect
<1>2. clock \in Nat /\ clock + 1 \in Moment /\ clock' = clock + 1 /\ late' = late \cup Below(p)
  BY PathFacts DEF TreeOK, Moment, Tick
<1>3. TreeOK'
  BY <1>1, <1>2, BelowFacts, MomentFacts DEF TreeOK, Renamed
<1>4. \A a \in Path \ Below(p), i \in Moment : Kept(p, object[<<a, i>>], r(a, i))
  BY <1>1 DEF NewOnly, Renamed
<1>5. \A a \in Path, i \in Moment : i # clock + 1 => r(a, i) = object[<<a, i>>] \/ r(a, i).stamp = clock + 1
  <2> SUFFICES ASSUME NEW a \in Path, NEW i \in Moment, i # clock + 1
               PROVE  r(a, i) = object[<<a, i>>] \/ r(a, i).stamp = clock + 1
    OBVIOUS
  <2>1. r(a, i) = o[<<a, i>>] \/ r(a, i).stamp = clock + 1
    BY <1>1 DEF Renamed
  <2>2. o[<<a, i>>] = object[<<a, i>>]
    BY DEF NewOnly
  <2> QED
    BY <2>1, <2>2
<1>6. Parent[p] \in Path \ Below(p) /\ Parent[p] \in Directories
  BY PathFacts DEF Below, Names
<1>7. Resolve(Parent[p])' = Resolve(Parent[p]) /\ Resolve(Parent[p]) \in Moment
  BY <1>4, <1>6, Elsewhere, ResolveType
<1>8. Resolve(p)' = id
  <2>1. Resolve(p)' = Leads(object', Parent[p], Resolve(Parent[p]), p)
    BY <1>7, ResolveStep
  <2> QED
    BY <2>1, <1>1, <1>6, <1>7 DEF Leads, Renamed
<1>9. /\ r(Parent[p], Resolve(Parent[p])).stamp = clock + 1
      /\ Resolve(p) # Missing => r(p, Resolve(p)).stamp = clock + 1
      /\ id # Missing => r(p, id).stamp = clock + 1
  BY <1>1, <1>6, <1>7, ResolveType DEF Renamed
<1>10. ASSUME Stamped PROVE Stamped'
  <2>1. top' <= clock'
    BY <1>2, <1>10 DEF Stamped, TreeOK, Moment
  <2>2. ASSUME NEW a \in Path, NEW i \in Moment
        PROVE  Within(r(a, i), clock + 1) /\ (i > clock + 1 => r(a, i) = NoObject)
    <3>1. Within(o[<<a, i>>], clock + 1) /\ (i > clock + 1 => o[<<a, i>>] = NoObject)
      <4>1. CASE o[<<a, i>>] = object[<<a, i>>]
        <5>1. Within(object[<<a, i>>], clock) /\ (i > clock => object[<<a, i>>] = NoObject)
          BY <1>10 DEF Stamped
        <5>2. \A q \in DOMAIN object[<<a, i>>].names : object[<<a, i>>].names[q] \in Nat
          BY MomentFacts DEF TreeOK, Fits, WellFormed
        <5> QED
          BY <1>2, <4>1, <5>1, <5>2, MomentFacts DEF Within
      <4>2. CASE i = clock + 1 /\ Within(o[<<a, i>>], clock + 1)
        BY <1>2, <4>2
      <4> QED
        BY <4>1, <4>2 DEF NewOnly
    <3>2. r(a, i).stamp \in 0..(clock + 1)
      BY <1>1, <1>2, <3>1 DEF Within, Renamed
    <3>3. \A q \in DOMAIN r(a, i).names : r(a, i).names[q] <= clock + 1
      BY <1>1, <1>10, <3>1 DEF Within, Renamed
    <3>4. ASSUME i > clock + 1 PROVE r(a, i) = NoObject
      <4>1. Resolve(p) # Missing => Resolve(p) <= clock
        BY <1>10, ResolveBound
      <4>2. Resolve(Parent[p]) <= clock
        BY <1>6, <1>10, ResolveBound
      <4>3. <<a, i>> \notin {<<Parent[p], Resolve(Parent[p])>>, <<p, Resolve(p)>>, <<p, id>>}
        BY <1>2, <1>10, <3>4, <4>1, <4>2, MomentFacts
      <4>4. <<a, i>> \in DOMAIN o
        BY DEF NewOnly
      <4>5. r(a, i) = o[<<a, i>>]
        BY <4>3, <4>4 DEF Rename
      <4> QED
        BY <3>1, <3>4, <4>5
    <3> QED
      BY <3>2, <3>3, <3>4 DEF Within
  <2> QED
    BY <1>2, <2>1, <2>2 DEF Stamped
<1> QED
  BY <1>2, <1>3, <1>4, <1>5, <1>8, <1>9, <1>10 DEF Change

LEMMA FileFits ==
  ASSUME NEW p \in Path \ Directories, NEW d, NEW t
  PROVE  Fits(p, File(d, t)) /\ Fits(p, Link(d, t)) /\ DOMAIN File(d, t).names = {} /\ DOMAIN Link(d, t).names = {}
BY DEF Fits, WellFormed, File, Link

LEMMA EditChange ==
  ASSUME TreeOK, clock < MaxChanges, NEW p \in Path, EditFile(p)
  PROVE  Change(p)
<1>1. PICK d \in Data : object' = [object EXCEPT ![<<p, Resolve(p)>>] = File(d, clock + 1)]
  BY DEF EditFile
<1>2. Resolve(p) \in Moment /\ object[<<p, Resolve(p)>>].kind = "file"
  BY ResolveType DEF EditFile, Regular, Stat, Nowhere
<1>3. p \in Path \ Directories /\ p # Top
  BY <1>2, PathFacts DEF TreeOK, Fits
<1>4. clock \in Nat /\ clock + 1 \in Moment /\ clock' = clock + 1 /\ late' = late \cup Below(p) /\ top' = top
  BY PathFacts DEF TreeOK, Moment, EditFile, Tick
<1>5. DOMAIN object = Path \X Moment
  BY DEF TreeOK
<1>6. ASSUME NEW a \in Path, NEW i \in Moment
      PROVE  /\ a = p /\ i = Resolve(p) => object'[<<a, i>>] = File(d, clock + 1)
             /\ a # p \/ i # Resolve(p) => object'[<<a, i>>] = object[<<a, i>>]
  BY <1>1, <1>5
<1>7. TreeOK'
  <2>1. ASSUME NEW a \in Path, NEW i \in Moment PROVE Fits(a, object'[<<a, i>>])
    <3>1. Fits(a, object[<<a, i>>])
      BY DEF TreeOK
    <3>2. Fits(p, File(d, clock + 1))
      BY <1>3, FileFits
    <3> QED
      BY <1>6, <3>1, <3>2
  <2>2. DOMAIN object' = Path \X Moment
    BY <1>1, <1>5
  <2> QED
    BY <1>4, <2>1, <2>2, BelowFacts DEF TreeOK
<1>8. \A a \in Path \ Below(p), i \in Moment : Kept(p, object[<<a, i>>], object'[<<a, i>>])
  <2>1. ASSUME NEW a \in Path \ Below(p), NEW i \in Moment
        PROVE  object'[<<a, i>>] = object[<<a, i>>]
    BY <1>6, BelowFacts
  <2> QED
    BY <2>1 DEF Kept
<1>9. File(d, clock + 1).stamp = clock + 1
  BY DEF File
<1>10. Resolve(p)' = Resolve(p)
  <2>1. Parent[p] \in Path \ Below(p) /\ Parent[p] # p
    BY <1>3, PathFacts DEF Below, Names
  <2>2. Resolve(Parent[p])' = Resolve(Parent[p])
    BY <1>4, <1>8, <2>1, Elsewhere
  <2>3. Resolve(Parent[p]) \in Moment \cup {Missing}
    BY <2>1, ResolveType
  <2>4. Leads(object', Parent[p], Resolve(Parent[p]), p) = Leads(object, Parent[p], Resolve(Parent[p]), p)
    BY <1>6, <2>1, <2>3 DEF Leads
  <2> QED
    BY <1>3, <2>2, <2>4, ResolveStep
<1>11. ASSUME Stamped PROVE Stamped'
  <2>1. top' <= clock'
    BY <1>4, <1>11 DEF Stamped, TreeOK, Moment
  <2>2. Resolve(p) <= clock
    BY <1>2, <1>11, ResolveBound, MomentFacts
  <2>3. ASSUME NEW a \in Path, NEW i \in Moment
        PROVE  Within(object'[<<a, i>>], clock + 1) /\ (i > clock + 1 => object'[<<a, i>>] = NoObject)
    <3>1. CASE a = p /\ i = Resolve(p)
      BY <1>2, <1>3, <1>4, <1>6, <1>9, <2>2, <3>1, FileFits, MomentFacts DEF Within
    <3>2. CASE a # p \/ i # Resolve(p)
      <4>1. Within(object[<<a, i>>], clock) /\ (i > clock => object[<<a, i>>] = NoObject)
        BY <1>11 DEF Stamped
      <4>2. \A q \in DOMAIN object[<<a, i>>].names : object[<<a, i>>].names[q] \in Nat
        BY MomentFacts DEF TreeOK, Fits, WellFormed
      <4> QED
        BY <1>4, <1>6, <3>2, <4>1, <4>2, MomentFacts DEF Within
    <3> QED
      BY <3>1, <3>2
  <2> QED
    BY <1>4, <2>1, <2>3 DEF Stamped
<1> QED
  BY <1>2, <1>3, <1>4, <1>6, <1>7, <1>8, <1>9, <1>10, <1>11 DEF Change

LEMMA PreparedEffect ==
  ASSUME TreeOK, clock < MaxChanges, NEW p \in Path, NEW kind \in {"dir", "link"}, NEW d
  PROVE  /\ NewOnly(p, Prepared(p, kind, d))
         /\ p \in Directories => \A q \in Names(p) : Leads(Prepared(p, kind, d), p, clock + 1, q) = clock + 1
<1> DEFINE o == Prepared(p, kind, d)
<1>1. clock \in Nat /\ clock + 1 \in Moment
  BY PathFacts DEF TreeOK, Moment
<1>2. DOMAIN o = Path \X Moment
  BY DEF Prepared, TreeOK
<1>3. ASSUME NEW a \in Path, NEW i \in Moment
      PROVE  /\ Fits(a, o[<<a, i>>])
             /\ \/ o[<<a, i>>] = object[<<a, i>>]
                \/ i = clock + 1 /\ a \in Below(p) /\ Within(o[<<a, i>>], clock + 1)
  <2>1. <<a, i>> \in DOMAIN object
    BY DEF TreeOK
  <2>2. CASE i # clock + 1 \/ a \notin Below(p)
    BY <2>1, <2>2 DEF Prepared, TreeOK
  <2>3. CASE i = clock + 1 /\ a \in Below(p) /\ a \in Directories
    <3> DEFINE u == Folder(IF a = p THEN kind ELSE "dir", IF a = p THEN clock + 1 ELSE 0,
                           [q \in Names(a) |-> clock + 1])
    <3>1. o[<<a, i>>] = u
      BY <2>1, <2>3 DEF Prepared
    <3>2. Fits(a, u) /\ Within(u, clock + 1)
      BY <1>1, <2>3 DEF Fits, WellFormed, Within, Folder
    <3> QED
      BY <2>3, <3>1, <3>2
  <2>4. CASE i = clock + 1 /\ a \in Below(p) /\ a \notin Directories
    <3>1. o[<<a, i>>] = File(d, 0)
      BY <2>1, <2>4 DEF Prepared
    <3>2. Within(File(d, 0), clock + 1)
      BY <1>1 DEF Within, File
    <3> QED
      BY <2>4, <3>1, <3>2, FileFits
  <2> QED
    BY <2>2, <2>3, <2>4
<1>4. ASSUME p \in Directories, NEW q \in Names(p) PROVE Leads(o, p, clock + 1, q) = clock + 1
  <2>1. <<p, clock + 1>> \in DOMAIN object /\ p \in Below(p)
    BY <1>1, BelowFacts DEF TreeOK
  <2>2. o[<<p, clock + 1>>] = Folder(kind, clock + 1, [r \in Names(p) |-> clock + 1])
    BY <1>4, <2>1 DEF Prepared
  <2>3. o[<<p, clock + 1>>].names = [r \in Names(p) |-> clock + 1]
    BY <2>2 DEF Folder
  <2>4. clock + 1 # Missing
    BY <1>1, MomentFacts
  <2> HIDE DEF o
  <2> QED
    BY <2>3, <2>4 DEF Leads
<1> QED
  BY <1>2, <1>3, <1>4 DEF NewOnly

LEMMA TopChange ==
  ASSUME TreeOK, clock < MaxChanges, NEW kind \in {"dir", "link"}, NEW d,
         object' = Prepared(Top, kind, d), top' = clock + 1, Tick(Top)
  PROVE  Change(Top)
<1>1. clock \in Nat /\ clock + 1 \in Moment /\ clock' = clock + 1 /\ late' = late \cup Below(Top)
  BY PathFacts DEF TreeOK, Moment, Tick
<1>2. Top \in Path /\ Top \in Directories /\ NewOnly(Top, object')
  BY PathFacts, PreparedEffect
<1>3. TreeOK'
  <2>1. Below(Top) \subseteq Path
    BY <1>2, BelowFacts
  <2> QED
    BY <1>1, <1>2, <2>1 DEF TreeOK, NewOnly
<1>4. \A a \in Path \ Below(Top), i \in Moment : Kept(Top, object[<<a, i>>], object'[<<a, i>>])
  BY <1>2, BelowFacts
<1>5. \A a \in Path, i \in Moment : i # clock + 1 => object'[<<a, i>>] = object[<<a, i>>]
  BY <1>2 DEF NewOnly
<1>6. \A q \in Names(Top) \cup {Top} : Resolve(q)' = clock + 1
  <2>1. \A q \in Names(Top) : Leads(object', Top, clock + 1, q) = clock + 1
    BY <1>2, PreparedEffect
  <2>2. \A q \in Names(Top) : q \in Path \ {Top} /\ Parent[q] = Top
    BY DEF Names
  <2> QED
    BY <2>1, <2>2, ResolveStep
<1>7. ASSUME Stamped PROVE Stamped'
  <2>1. ASSUME NEW a \in Path, NEW i \in Moment
        PROVE  Within(object'[<<a, i>>], clock + 1) /\ (i > clock + 1 => object'[<<a, i>>] = NoObject)
    <3>1. CASE object'[<<a, i>>] = object[<<a, i>>]
      <4>1. Within(object[<<a, i>>], clock) /\ (i > clock => object[<<a, i>>] = NoObject)
        BY <1>7 DEF Stamped
      <4>2. \A q \in DOMAIN object[<<a, i>>].names : object[<<a, i>>].names[q] \in Nat
        BY MomentFacts DEF TreeOK, Fits, WellFormed
      <4> QED
        BY <1>1, <3>1, <4>1, <4>2, MomentFacts DEF Within
    <3>2. CASE i = clock + 1 /\ Within(object'[<<a, i>>], clock + 1)
      BY <1>1, <3>2
    <3> QED
      BY <1>2, <3>1, <3>2 DEF NewOnly
  <2> QED
    BY <1>1, <2>1 DEF Stamped
<1> QED
  BY <1>1, <1>2, <1>3, <1>4, <1>5, <1>6, <1>7 DEF Change

(* Whatever people do, they do to one path.                                *)
LEMMA PeopleChange ==
  ASSUME TreeOK, NEW paths \in SUBSET Path, People(paths)
  PROVE  \E p \in paths : Change(p)
<1>1. PICK p \in paths : EditFile(p) \/ PutFile(p) \/ Remove(p) \/ SwapDirectory(p) \/ Return(p)
  BY DEF People
<1>2. clock < MaxChanges /\ p \in Path /\ clock \in Nat /\ clock + 1 \in Moment
  BY PathFacts DEF People, TreeOK, Moment
<1>3. NewOnly(p, object)
  BY DEF NewOnly, TreeOK
<1>4. p # Top /\ Resolve(p) # Missing => Resolve(Parent[p]) # Missing
  BY <1>2, ResolveStep DEF Leads
<1>5. Top \in Directories
  BY PathFacts
<1>a. CASE EditFile(p)
  BY <1>2, <1>a, EditChange
<1>b. CASE PutFile(p)
  <2>1. PICK d \in Data : \E new \in {File(d, clock + 1), Link(d, clock + 1)} :
          object' = Rename([object EXCEPT ![<<p, clock + 1>>] = new], p, clock + 1)
    BY <1>b DEF PutFile
  <2>0. PICK new \in {File(d, clock + 1), Link(d, clock + 1)} :
          object' = Rename([object EXCEPT ![<<p, clock + 1>>] = new], p, clock + 1)
    BY <2>1
  <2> DEFINE o == [object EXCEPT ![<<p, clock + 1>>] = new]
  <2>2. p \in Path \ Directories /\ p # Top /\ Resolve(Parent[p]) # Missing /\ top' = top /\ Tick(p)
    BY <1>b, <1>2, <1>5 DEF PutFile
  <2>3. Fits(p, new) /\ Within(new, clock + 1)
    <3>1. \A x : DOMAIN File(d, x).names = {} /\ DOMAIN Link(d, x).names = {}
      BY <2>2, FileFits
    <3>2. File(d, clock + 1).stamp = clock + 1 /\ Link(d, clock + 1).stamp = clock + 1
      BY DEF File, Link
    <3> QED
      BY <1>2, <2>0, <2>2, <3>1, <3>2, FileFits DEF Within
  <2>4. NewOnly(p, o)
    <3>1. DOMAIN object = Path \X Moment
      BY DEF TreeOK
    <3>2. ASSUME NEW a \in Path, NEW i \in Moment
          PROVE  o[<<a, i>>] = IF a = p /\ i = clock + 1 THEN new ELSE object[<<a, i>>]
      BY <1>2, <3>1
    <3>3. DOMAIN o = Path \X Moment
      BY <3>1
    <3> HIDE DEF o
    <3>4. p \in Below(p) /\ \A a \in Path, i \in Moment : Fits(a, object[<<a, i>>])
      BY <1>2, BelowFacts DEF TreeOK
    <3> QED
      BY <2>3, <3>2, <3>3, <3>4 DEF NewOnly
  <2> HIDE DEF o
  <2>5. object' = Rename(o, p, clock + 1)
    BY <2>0 DEF o
  <2> QED
    BY <1>2, <2>2, <2>4, <2>5, RenameChange
<1>c. CASE Remove(p)
  <2>1. p # Top /\ Resolve(p) # Missing /\ top' = top /\ Tick(p) /\ object' = Rename(object, p, Missing)
    BY <1>c DEF Remove
  <2>2. Stamped => Missing <= clock + 1
    BY <1>2 DEF Missing
  <2> QED
    BY <1>2, <1>3, <1>4, <2>1, <2>2, RenameChange
<1>d. CASE SwapDirectory(p)
  <2>1. PICK kind \in {"dir", "link"}, d \in Data :
          IF p = Top THEN object' = Prepared(p, kind, d) /\ top' = clock + 1
          ELSE object' = Rename(Prepared(p, kind, d), p, clock + 1) /\ UNCHANGED top
    BY <1>d DEF SwapDirectory
  <2>2. Resolve(p) # Missing /\ Tick(p)
    BY <1>d DEF SwapDirectory
  <2>3. CASE p = Top
    BY <1>2, <2>1, <2>2, <2>3, TopChange
  <2>4. CASE p # Top
    <3>1. NewOnly(p, Prepared(p, kind, d))
      BY <1>2, PreparedEffect
    <3>2. object' = Rename(Prepared(p, kind, d), p, clock + 1) /\ top' = top
      BY <2>1, <2>4
    <3> QED
      BY <1>2, <1>4, <2>2, <2>4, <3>1, <3>2, RenameChange
  <2> QED
    BY <2>3, <2>4
<1>e. CASE Return(p)
  <2>1. PICK id \in Moment \ {Resolve(p)} :
          object[<<p, id>>] # NoObject /\ object' = Rename(object, p, id)
    BY <1>e DEF Return
  <2>2. p # Top /\ Resolve(Parent[p]) # Missing /\ top' = top /\ Tick(p)
    BY <1>e DEF Return
  <2>3. Stamped => id <= clock + 1
    BY <1>2, <2>1, MomentFacts DEF Stamped
  <2> QED
    BY <1>2, <1>3, <2>1, <2>2, <2>3, RenameChange
<1> QED
  BY <1>1, <1>a, <1>b, <1>c, <1>d, <1>e

-----------------------------------------------------------------------------
(* Consequences.                                                           *)

(* What is not below a changed path stays what it is.                      *)
LEMMA Unmoved ==
  ASSUME TreeOK, NEW p, Change(p), NEW q \in Path \ Below(p)
  PROVE  /\ Resolve(q)' = Resolve(q) /\ (Stat(q).kind)' = Stat(q).kind
         /\ Regular(q)' = Regular(q)
         /\ Resolve(q) # Missing => Contents(q)' = Contents(q)
<1>1. p \in Path
  BY DEF Change
<1>2. \A a \in Path \ Below(p), i \in Moment : Kept(p, object[<<a, i>>], object'[<<a, i>>])
  BY DEF Change
<1>3. Resolve(q)' = Resolve(q)
  BY <1>1, <1>2, Elsewhere DEF Change
<1>4. Resolve(q) \in Moment \cup {Missing}
  BY ResolveType
<1>5. Resolve(q) # Missing =>
        /\ object'[<<q, Resolve(q)>>].kind = object[<<q, Resolve(q)>>].kind
        /\ object'[<<q, Resolve(q)>>].data = object[<<q, Resolve(q)>>].data
  BY <1>2, <1>4 DEF Kept
<1>6. (Stat(q).kind)' = Stat(q).kind
  <2>1. CASE Resolve(q) = Missing
    BY <1>3, <2>1 DEF Stat
  <2>2. CASE Resolve(q) # Missing
    BY <1>3, <1>5, <2>2 DEF Stat
  <2> QED
    BY <2>1, <2>2
<1>7. Regular(q)' = Regular(q)
  BY <1>6 DEF Regular
<1>8. Resolve(q) # Missing => Contents(q)' = Contents(q)
  BY <1>3, <1>5 DEF Contents
<1> QED
  BY <1>3, <1>6, <1>7, <1>8

(* A sequence, of whatever values.                                         *)
IsSeq(s) == s \in Seq({s[n] : n \in DOMAIN s})

LEMMA SeqIntro ==
  ASSUME NEW S, NEW n \in Nat, NEW s \in [1..n -> S]
  PROVE  s \in Seq(S)
OBVIOUS

LEMMA AppendAny ==
  ASSUME NEW s, IsSeq(s), NEW x
  PROVE  /\ Len(s) \in Nat /\ DOMAIN s = 1..Len(s)
         /\ IsSeq(Append(s, x)) /\ Len(Append(s, x)) = Len(s) + 1
         /\ \A n \in 1..Len(s) : Append(s, x)[n] = s[n]
         /\ Append(s, x)[Len(s) + 1] = x
<1> DEFINE T == {s[n] : n \in DOMAIN s} \cup {x}
           u == Append(s, x)
<1>1. s \in Seq(T)
  <2>1. s \in Seq({s[n] : n \in DOMAIN s})
    BY DEF IsSeq
  <2> QED
    BY <2>1
<1>2. x \in T
  OBVIOUS
<1> HIDE DEF T
<1>3. /\ Len(s) \in Nat /\ DOMAIN s = 1..Len(s) /\ u \in Seq(T) /\ Len(u) = Len(s) + 1
      /\ \A n \in 1..Len(s) : u[n] = s[n]
      /\ u[Len(s) + 1] = x
  BY <1>1, <1>2
<1> HIDE DEF u
<1>4. IsSeq(u)
  <2> DEFINE R == {u[n] : n \in DOMAIN u}
  <2>1. u \in [1..Len(u) -> R] /\ Len(u) \in Nat
    BY <1>3
  <2> HIDE DEF R
  <2>2. u \in Seq(R)
    BY <2>1, SeqIntro
  <2> QED
    BY <2>2 DEF IsSeq, R
<1> QED
  BY <1>3, <1>4 DEF u

LEMMA TreeInitial ==
  ASSUME NEW present, TreeInit(present)
  PROVE  TreeOK /\ Stamped
<1>1. top = 0 /\ clock = 0 /\ late = {} /\ 0 \in Moment
  BY MomentFacts DEF TreeInit
<1>2. DOMAIN object = Path \X Moment
  BY DEF TreeInit
<1>3. ASSUME NEW a \in Path, NEW i \in Moment
      PROVE  Fits(a, object[<<a, i>>]) /\ Within(object[<<a, i>>], 0) /\ (i > 0 => object[<<a, i>>] = NoObject)
  <2> DEFINE folder == Folder("dir", 0, [q \in Names(a) \cap (Directories \cup DOMAIN present) |-> 0])
  <2>0. object[<<a, i>>] =
          CASE i = 0 /\ a \in Directories -> folder
            [] i = 0 /\ a \in DOMAIN present \ Directories -> File(present[a], 0)
            [] OTHER -> NoObject
    BY DEF TreeInit
  <2> HIDE DEF folder
  <2>1. CASE i = 0 /\ a \in Directories
    <3>1. object[<<a, i>>] = folder
      BY <2>0, <2>1
    <3>2. Fits(a, folder) /\ Within(folder, 0)
      BY <1>1, <2>1 DEF Fits, WellFormed, Within, Folder, folder
    <3> QED
      BY <2>1, <3>1, <3>2
  <2>2. CASE i = 0 /\ a \notin Directories /\ a \in DOMAIN present
    <3>1. object[<<a, i>>] = File(present[a], 0)
      BY <2>0, <2>2
    <3>2. Fits(a, File(present[a], 0)) /\ Within(File(present[a], 0), 0)
      BY <2>2, FileFits DEF Within, File
    <3> QED
      BY <2>2, <3>1, <3>2
  <2>3. CASE i # 0 \/ (a \notin Directories /\ a \notin DOMAIN present)
    <3>1. object[<<a, i>>] = NoObject
      BY <2>0, <2>3
    <3>2. Fits(a, NoObject) /\ Within(NoObject, 0)
      BY DEF Fits, WellFormed, Within, NoObject
    <3> QED
      BY <2>3, <3>1, <3>2
  <2> QED
    BY <2>1, <2>2, <2>3
<1> QED
  BY <1>1, <1>2, <1>3 DEF TreeOK, Stamped

(* Every step, as one of the three commands sees it.                       *)
LEMMA OthersChange ==
  ASSUME TreeOK, tool \in {"adapter", "scan", "seal", "baseline"}, Others
  PROVE  \E p \in Path : Change(p)
<1>1. PathsFor[tool] \in SUBSET Path /\ People(PathsFor[tool])
  BY AuditAssumption DEF Others
<1> QED
  BY <1>1, PeopleChange

-----------------------------------------------------------------------------
(* The verification of a sealed folder.                                    *)

(* The registered artifact n is there as it was sealed.                    *)
AsSealed(n) == Regular(Artifacts[n]) /\ Contents(Artifacts[n]) = <<seal.manifest[n]>>

SealType ==
  /\ DOMAIN seal = {"phase", "read", "listing", "found", "output", "sealed", "manifest"}
  /\ IsSeq(seal.read) /\ seal.found \in BOOLEAN

(* What is known of the manifest, unless somebody touched it: the name     *)
(* leads to the file this command made, which holds nothing or all.        *)
ManifestKept ==
  OutputFile \notin late =>
    /\ seal.phase \in {"write", "sealed"} => Resolve(OutputFile) = seal.output
    /\ seal.phase = "write" => Contents(OutputFile) = Torn
    /\ seal.phase = "sealed" => Contents(OutputFile) \in {Torn, seal.sealed}
    /\ seal.phase \in {"list", "verify", "clean", "mismatch"} => seal.manifest = seal.sealed

(* What the verification has found so far, while nobody touches the folder.*)
VerifiedSoFar ==
  seal.phase \in {"verify", "clean", "mismatch"} /\ Below(SealedRoot) \cap late = {} =>
    /\ seal.listing = Listing(SealedRoot)
    /\ seal.found <=> \E n \in 1..Len(seal.read) : ~AsSealed(n)

SealInv ==
  /\ tool = "seal" => TreeOK /\ SealType /\ ManifestKept /\ VerifiedSoFar
  /\ tool # "seal" => seal.phase = "check"
  /\ seal.phase \in {"write", "sealed"} => seal.output \in Moment
  /\ seal.phase = "list" => seal.read = <<>>
  /\ seal.phase = "verify" => Len(seal.read) <= Len(Artifacts)
  /\ ~seal.found \/ seal.phase \in {"verify", "clean", "mismatch", "error"}
  /\ seal.phase \in {"clean", "mismatch"} =>
       /\ Len(seal.read) = Len(Artifacts)
       /\ seal.phase = "clean" <=> ~seal.found /\ Unexpected = {}

(* The tool itself gives a name that is no directory to an object.         *)
LEMMA RenameHere ==
  ASSUME TreeOK, NEW p \in Path \ Directories, Resolve(Parent[p]) # Missing,
         NEW id \in Moment \cup {Missing},
         NEW o, DOMAIN o = Path \X Moment,
         \A a \in Path, i \in Moment : Fits(a, o[<<a, i>>]) /\ (a # p => o[<<a, i>>] = object[<<a, i>>]),
         object' = Rename(o, p, id), top' = top
  PROVE  /\ DOMAIN object' = Path \X Moment
         /\ \A a \in Path, i \in Moment : Fits(a, object'[<<a, i>>])
         /\ Resolve(p)' = id
         /\ id # Missing => object'[<<p, id>>].data = o[<<p, id>>].data
<1>1. p \in Path \ {Top} /\ Parent[p] \in Path \ Below(p) /\ Parent[p] # p
  BY PathFacts DEF Below, Names
<1>2. ASSUME NEW a \in Path, NEW i \in Moment
      PROVE  DOMAIN object' = Path \X Moment /\ Renamed(p, id, a, i, o[<<a, i>>], object'[<<a, i>>])
  BY <1>1, RenameEffect
<1>3. \A a \in Path \ Below(p), i \in Moment : Kept(p, object[<<a, i>>], object'[<<a, i>>])
  <2>1. p \in Below(p)
    BY <1>1, BelowFacts
  <2>2. ASSUME NEW a \in Path \ Below(p), NEW i \in Moment
        PROVE  Kept(p, object[<<a, i>>], object'[<<a, i>>])
    <3>1. o[<<a, i>>] = object[<<a, i>>]
      BY <2>1
    <3> QED
      BY <1>2, <3>1 DEF Renamed
  <2> QED
    BY <2>2
<1>4. Resolve(Parent[p])' = Resolve(Parent[p]) /\ Resolve(Parent[p]) \in Moment
  BY <1>1, <1>3, Elsewhere, ResolveType
<1>5. Resolve(p)' = id
  <2>1. Resolve(p)' = Leads(object', Parent[p], Resolve(Parent[p]), p)
    BY <1>1, <1>4, ResolveStep
  <2> QED
    BY <1>1, <1>2, <1>4, <2>1 DEF Leads, Renamed
<1>6. id # Missing => object'[<<p, id>>].data = o[<<p, id>>].data
  BY <1>2 DEF Renamed, Kept
<1>7. (0 \in Moment) /\ Top \in Path
  BY MomentFacts, PathFacts
<1> QED
  BY <1>2, <1>5, <1>6, <1>7 DEF Renamed

LEMMA OutputFacts ==
  /\ OutputFile \in Path \ Directories /\ OutputFile # Top
  /\ Parent[OutputFile] \in Path /\ Parent[OutputFile] # OutputFile
  /\ OutputFile \notin Below(SealedRoot)
BY SealAssumption, PathFacts

LEMMA ArtifactFacts ==
  /\ Len(Artifacts) \in Nat \ {0} /\ DOMAIN Artifacts = 1..Len(Artifacts)
  /\ \A n \in 1..Len(Artifacts) : Artifacts[n] \in Names(SealedRoot)
  /\ Names(SealedRoot) \subseteq Below(SealedRoot)
<1>1. Names(SealedRoot) \subseteq Below(SealedRoot)
  BY DEF Names, Below
<1> QED
  BY <1>1, SealAssumption

LEMMA SealOthers ==
  ASSUME SealInv, tool = "seal", Others
  PROVE  SealInv'
<1>1. TreeOK /\ SealType /\ ManifestKept /\ VerifiedSoFar /\ UNCHANGED <<seal, tool>>
  BY DEF SealInv, Others
<1>2. PICK p \in Path : Change(p)
  BY <1>1, OthersChange
<1>3. TreeOK' /\ late' = late \cup Below(p)
  BY <1>2 DEF Change
<1>4. ManifestKept'
  <2> SUFFICES ASSUME OutputFile \notin late'
               PROVE  /\ seal.phase \in {"write", "sealed"} => Resolve(OutputFile)' = seal.output
                      /\ seal.phase = "write" => Contents(OutputFile)' = Torn
                      /\ seal.phase = "sealed" => Contents(OutputFile)' \in {Torn, seal.sealed}
                      /\ seal.phase \in {"list", "verify", "clean", "mismatch"} => seal.manifest = seal.sealed
    BY <1>1 DEF ManifestKept
  <2>1. OutputFile \notin late /\ OutputFile \in Path \ Below(p)
    BY <1>3, OutputFacts
  <2>2. /\ Resolve(OutputFile)' = Resolve(OutputFile)
        /\ Resolve(OutputFile) # Missing => Contents(OutputFile)' = Contents(OutputFile)
    BY <1>1, <1>2, <2>1, Unmoved
  <2>3. seal.phase \in {"write", "sealed"} => seal.output # Missing
    BY MomentFacts DEF SealInv
  <2> QED
    BY <1>1, <2>1, <2>2, <2>3 DEF ManifestKept
<1>5. VerifiedSoFar'
  <2> SUFFICES ASSUME seal.phase \in {"verify", "clean", "mismatch"}, Below(SealedRoot) \cap late' = {}
               PROVE  /\ seal.listing = Listing(SealedRoot)'
                      /\ seal.found <=> \E n \in 1..Len(seal.read) : ~AsSealed(n)'
    BY <1>1 DEF VerifiedSoFar
  <2>1. Below(SealedRoot) \cap late = {} /\ Below(SealedRoot) \subseteq Path /\ Names(SealedRoot) \subseteq Path \ Below(p)
    BY <1>3, ArtifactFacts DEF Below
  <2>2. \A q \in Names(SealedRoot) : Resolve(q)' = Resolve(q)
    BY <1>1, <1>2, <2>1, Unmoved
  <2>3. Listing(SealedRoot)' = Listing(SealedRoot)
    BY <2>2 DEF Listing
  <2>4. ASSUME NEW q \in Names(SealedRoot)
        PROVE  Regular(q)' = Regular(q) /\ (Regular(q) => Contents(q)' = Contents(q))
    <3>1. Regular(q) => Resolve(q) # Missing
      BY DEF Regular, Stat, Nowhere
    <3> QED
      BY <1>1, <1>2, <2>1, <3>1, Unmoved
  <2>5. Len(seal.read) <= Len(Artifacts) /\ Len(seal.read) \in Nat
    BY <1>1, AppendAny, ArtifactFacts DEF SealInv, SealType
  <2>6. \A n \in 1..Len(seal.read) : AsSealed(n)' <=> AsSealed(n)
    BY <1>1, <2>4, <2>5, ArtifactFacts DEF AsSealed
  <2> QED
    BY <1>1, <2>1, <2>3, <2>6 DEF VerifiedSoFar
<1>6. SealType' /\ Unexpected' = Unexpected
  BY <1>1 DEF SealType, Unexpected
<1> QED
  BY <1>1, <1>3, <1>4, <1>5, <1>6 DEF SealInv

LEMMA SealStepKeeps ==
  ASSUME SealInv, tool = "seal", SealStep, UNCHANGED tool
  PROVE  SealInv'
<1> USE DEF StopSealing
<1>1. TreeOK /\ SealType /\ ManifestKept /\ VerifiedSoFar /\ tool' = "seal"
  BY DEF SealInv
<1>2. /\ Len(seal.read) \in Nat /\ DOMAIN seal.read = 1..Len(seal.read)
      /\ \A x : /\ IsSeq(Append(seal.read, x)) /\ Len(Append(seal.read, x)) = Len(seal.read) + 1
  BY <1>1, AppendAny DEF SealType
<1>3. clock \in Moment /\ clock # Missing
  BY <1>1, MomentFacts DEF TreeOK

(* Steps that touch neither the files nor the manifest.                    *)
<1>4. ASSUME UNCHANGED tree, SealType', (~seal.found)',
             seal.phase' \in {"check", "read", "existence", "create", "error"}
      PROVE  SealInv'
  BY <1>1, <1>4 DEF SealInv, TreeOK, ManifestKept, VerifiedSoFar, tree, files
<1>a. CASE CheckArtifact
  <2>1. SealType' /\ (~seal.found)' /\ seal.phase' \in {"read", "error"}
    BY <1>1, <1>a DEF CheckArtifact, SealType, SealInv
  <2> QED
    BY <1>4, <1>a, <2>1 DEF CheckArtifact
<1>b. CASE ReadArtifact
  <2>0. SUFFICES SealType' /\ (~seal.found)' /\ seal.phase' \in {"check", "existence", "error"}
    BY <1>4, <1>b DEF ReadArtifact
  <2>1. CASE ReadableAt(NextArtifact)
    <3> DEFINE read == Append(seal.read, Contents(NextArtifact))
               phase == IF Len(seal.read) + 1 = Len(Artifacts) THEN "existence" ELSE "check"
    <3>1. seal.phase = "read" /\ seal' = [seal EXCEPT !.read = read, !.phase = phase]
      BY <1>b, <2>1 DEF ReadArtifact
    <3>2. IsSeq(read) /\ phase \in {"check", "existence"}
      BY <1>2
    <3> HIDE DEF read, phase
    <3> QED
      BY <1>1, <3>1, <3>2 DEF SealType, SealInv
  <2>2. CASE ~ReadableAt(NextArtifact)
    <3>1. seal.phase = "read" /\ seal' = [seal EXCEPT !.phase = "error"]
      BY <1>b, <2>2 DEF ReadArtifact
    <3> QED
      BY <1>1, <3>1 DEF SealType, SealInv
  <2> QED
    BY <2>1, <2>2
<1>c. CASE CheckOutput
  <2>1. SealType' /\ (~seal.found)' /\ seal.phase' \in {"create", "error"}
    BY <1>1, <1>c DEF CheckOutput, SealType, SealInv
  <2> QED
    BY <1>4, <1>c, <2>1 DEF CheckOutput
<1>d. CASE CreateOutput
  <2>1. CASE UNCHANGED tree /\ StopSealing
    <3>1. SealType' /\ (~seal.found)' /\ seal.phase' = "error"
      BY <1>1, <1>d, <2>1 DEF CreateOutput, SealType, SealInv
    <3> QED
      BY <1>4, <2>1, <3>1
  <2>2. CASE ~(UNCHANGED tree /\ StopSealing)
    <3> DEFINE o == [object EXCEPT ![<<OutputFile, clock>>] = File(Torn, clock)]
    <3>1. /\ Resolve(OutputFile) = Missing /\ Resolve(Parent[OutputFile]) # Missing
          /\ object' = Rename(o, OutputFile, clock)
          /\ seal' = [seal EXCEPT !.phase = "write", !.output = clock, !.sealed = Serialized(seal.read)]
          /\ late' = late \ {OutputFile} /\ top' = top /\ clock' = clock
      BY <1>d, <2>2 DEF CreateOutput
    <3>2. DOMAIN o = Path \X Moment
      BY <1>1 DEF TreeOK
    <3>3. ASSUME NEW a \in Path, NEW i \in Moment
          PROVE  /\ Fits(a, o[<<a, i>>]) /\ (a # OutputFile => o[<<a, i>>] = object[<<a, i>>])
                 /\ a = OutputFile /\ i = clock => o[<<a, i>>] = File(Torn, clock)
      <4>1. /\ a = OutputFile /\ i = clock => o[<<a, i>>] = File(Torn, clock)
            /\ a # OutputFile \/ i # clock => o[<<a, i>>] = object[<<a, i>>]
        BY <1>1 DEF TreeOK
      <4>2. Fits(OutputFile, File(Torn, clock)) /\ Fits(a, object[<<a, i>>])
        BY <1>1, OutputFacts, FileFits DEF TreeOK
      <4> QED
        BY <4>1, <4>2
    <3>4. o[<<OutputFile, clock>>].data = Torn
      BY <1>3, <3>3, OutputFacts DEF File
    <3> HIDE DEF o
    <3>5. /\ DOMAIN object' = Path \X Moment
          /\ \A a \in Path, i \in Moment : Fits(a, object'[<<a, i>>])
          /\ Resolve(OutputFile)' = clock
          /\ object'[<<OutputFile, clock>>].data = Torn
      <4>1. \A a \in Path, i \in Moment :
              Fits(a, o[<<a, i>>]) /\ (a # OutputFile => o[<<a, i>>] = object[<<a, i>>])
        BY <3>3
      <4> HIDE DEF o
      <4>2. clock \in Moment \cup {Missing}
        BY <1>3
      <4> QED
        <5>1. TreeOK /\ OutputFile \in Path \ Directories
          BY <1>1, OutputFacts
        <5>2. /\ Resolve(Parent[OutputFile]) # Missing /\ object' = Rename(o, OutputFile, clock) /\ top' = top
          BY <3>1
        <5>3. /\ DOMAIN object' = Path \X Moment
              /\ \A a \in Path, i \in Moment : Fits(a, object'[<<a, i>>])
              /\ Resolve(OutputFile)' = clock
              /\ clock # Missing => object'[<<OutputFile, clock>>].data = o[<<OutputFile, clock>>].data
          BY <3>2, <4>1, <4>2, <5>1, <5>2, RenameHere
        <5> QED
          BY <1>3, <3>4, <5>3
    <3>6. TreeOK'
      BY <1>1, <3>1, <3>5 DEF TreeOK
    <3>7. SealType' /\ seal'.phase = "write" /\ seal'.output = clock /\ ~seal'.found
      BY <1>1, <1>d, <3>1 DEF SealType, SealInv, CreateOutput
    <3>8. ManifestKept' /\ VerifiedSoFar'
      BY <3>5, <3>7 DEF ManifestKept, VerifiedSoFar, Contents
    <3> QED
      BY <1>1, <1>3, <3>6, <3>7, <3>8 DEF SealInv
  <2> QED
    BY <2>1, <2>2
<1>e. CASE WriteOutput
  <2>1. /\ seal.phase = "write" /\ seal' = [seal EXCEPT !.phase = "sealed"]
        /\ object' = [object EXCEPT ![<<OutputFile, seal.output>>] = File(seal.sealed, clock)]
        /\ top' = top /\ clock' = clock /\ late' = late /\ seal.output \in Moment
    BY <1>e DEF WriteOutput, SealInv
  <2>2. ASSUME NEW a \in Path, NEW i \in Moment
        PROVE  /\ a = OutputFile /\ i = seal.output => object'[<<a, i>>] = File(seal.sealed, clock)
               /\ a # OutputFile => object'[<<a, i>>] = object[<<a, i>>]
               /\ Fits(a, object'[<<a, i>>])
    <3>1. /\ a = OutputFile /\ i = seal.output => object'[<<a, i>>] = File(seal.sealed, clock)
          /\ a # OutputFile \/ i # seal.output => object'[<<a, i>>] = object[<<a, i>>]
      BY <1>1, <2>1 DEF TreeOK
    <3>2. Fits(OutputFile, File(seal.sealed, clock)) /\ Fits(a, object[<<a, i>>])
      BY <1>1, OutputFacts, FileFits DEF TreeOK
    <3> QED
      BY <3>1, <3>2
  <2>3. TreeOK'
    BY <1>1, <2>1, <2>2 DEF TreeOK
  <2>4. \A a \in Path \ Below(OutputFile), i \in Moment : Kept(OutputFile, object[<<a, i>>], object'[<<a, i>>])
    <3>1. OutputFile \in Below(OutputFile)
      BY OutputFacts, BelowFacts
    <3>2. \A a \in Path \ Below(OutputFile), i \in Moment : object'[<<a, i>>] = object[<<a, i>>]
      BY <2>2, <3>1
    <3> QED
      BY <3>2 DEF Kept
  <2>5. Parent[OutputFile] \in Path \ Below(OutputFile)
    BY OutputFacts, PathFacts DEF Below, Names
  <2>6. Resolve(Parent[OutputFile])' = Resolve(Parent[OutputFile])
    BY <1>1, <2>1, <2>4, <2>5, OutputFacts, Elsewhere
  <2>7. Resolve(Parent[OutputFile]) \in Moment \cup {Missing}
    BY <1>1, OutputFacts, ResolveType
  <2>8. Resolve(OutputFile)' = Resolve(OutputFile)
    <3> DEFINE d == Parent[OutputFile]
               i == Resolve(Parent[OutputFile])
    <3>1. d \in Path /\ d # OutputFile /\ i \in Moment \cup {Missing}
      BY <2>7, OutputFacts
    <3>2. /\ Resolve(OutputFile) = Leads(object, d, i, OutputFile)
          /\ Resolve(OutputFile)' = Leads(object', d, i, OutputFile)
      BY <2>6, OutputFacts, ResolveStep
    <3> HIDE DEF i, d
    <3>3. i # Missing => object'[<<d, i>>] = object[<<d, i>>]
      BY <2>2, <3>1
    <3> QED
      BY <3>2, <3>3 DEF Leads
  <2>9. object'[<<OutputFile, seal.output>>].data = seal.sealed
    <3>1. OutputFile \in Path
      BY OutputFacts
    <3>2. object'[<<OutputFile, seal.output>>] = File(seal.sealed, clock)
      BY <2>1, <2>2, <3>1
    <3> QED
      BY <3>2 DEF File
  <2>10. SealType' /\ seal'.phase = "sealed" /\ seal'.output = seal.output /\ seal'.sealed = seal.sealed /\ ~seal'.found
    BY <1>1, <2>1 DEF SealType, SealInv
  <2>11. ManifestKept' /\ VerifiedSoFar'
    BY <1>1, <2>1, <2>8, <2>9, <2>10 DEF ManifestKept, VerifiedSoFar, Contents
  <2> QED
    BY <1>1, <2>1, <2>3, <2>10, <2>11 DEF SealInv
<1>f. CASE FailOutput
  <2>1. SealType' /\ seal'.phase = "error" /\ top' = top /\ clock' = clock /\ late' = late
    BY <1>1, <1>f DEF FailOutput, SealType
  <2>2. TreeOK'
    <3>1. CASE Resolve(OutputFile) = Missing
      BY <1>1, <1>f, <2>1, <3>1 DEF FailOutput, TreeOK
    <3>2. CASE Resolve(OutputFile) # Missing
      <4>1. object' = Rename(object, OutputFile, Missing)
        BY <1>f, <3>2 DEF FailOutput
      <4>2. Resolve(Parent[OutputFile]) # Missing
        BY <3>2, OutputFacts, ResolveStep DEF Leads
      <4>3. DOMAIN object = Path \X Moment /\ \A a \in Path, i \in Moment : Fits(a, object[<<a, i>>])
        BY <1>1 DEF TreeOK
      <4>4. DOMAIN object' = Path \X Moment /\ \A a \in Path, i \in Moment : Fits(a, object'[<<a, i>>])
        BY <1>1, <2>1, <4>1, <4>2, <4>3, OutputFacts, RenameHere
      <4> QED
        BY <1>1, <2>1, <4>4 DEF TreeOK
    <3> QED
      BY <3>1, <3>2
  <2>3. ManifestKept' /\ VerifiedSoFar'
    BY <2>1 DEF ManifestKept, VerifiedSoFar
  <2> QED
    BY <1>1, <2>1, <2>2, <2>3 DEF SealInv
<1>g. CASE KillSealing
  <2>1. seal.phase = "write" /\ seal' = [seal EXCEPT !.phase = "sealed"] /\ UNCHANGED tree
    BY <1>g DEF KillSealing
  <2>2. /\ SealType' /\ seal'.phase = "sealed" /\ ~seal'.found
        /\ seal'.output = seal.output /\ seal'.sealed = seal.sealed
    BY <1>1, <2>1 DEF SealType, SealInv
  <2>3. ManifestKept' /\ VerifiedSoFar' /\ TreeOK'
    BY <1>1, <2>1, <2>2 DEF ManifestKept, VerifiedSoFar, TreeOK, Contents, Resolve, Named, tree, files
  <2> QED
    BY <1>1, <2>1, <2>2, <2>3 DEF SealInv
<1>h. CASE LoadManifest
  <2>1. CASE UNCHANGED tree /\ StopSealing
    <3>1. SealType' /\ (~seal.found)' /\ seal.phase' = "error"
      BY <1>1, <1>h, <2>1 DEF LoadManifest, SealType, SealInv
    <3> QED
      BY <1>4, <2>1, <3>1
  <2>2. CASE ~(UNCHANGED tree /\ StopSealing)
    <3>1. /\ Len(Contents(OutputFile)) = Len(Artifacts) /\ seal.phase = "sealed"
          /\ seal' = [seal EXCEPT !.phase = "list", !.read = <<>>, !.manifest = Contents(OutputFile)]
          /\ late' = late \ Below(SealedRoot) /\ UNCHANGED files
      BY <1>h, <2>2 DEF LoadManifest, Vouch
    <3>2. Contents(OutputFile) # Torn
      BY <3>1, ArtifactFacts DEF Torn
    <3>3. OutputFile \in late' <=> OutputFile \in late
      BY <3>1, OutputFacts
    <3>4. /\ seal'.phase = "list" /\ seal'.read = <<>> /\ seal'.sealed = seal.sealed /\ ~seal'.found
          /\ seal'.manifest = Contents(OutputFile)
          /\ SealType'
      BY <1>1, <3>1 DEF SealType, SealInv, IsSeq
    <3>5. ManifestKept' /\ VerifiedSoFar'
      BY <1>1, <3>1, <3>2, <3>3, <3>4 DEF ManifestKept, VerifiedSoFar
    <3>6. TreeOK'
      BY <1>1, <3>1 DEF TreeOK, files
    <3> QED
      BY <1>1, <3>4, <3>5, <3>6 DEF SealInv
  <2> QED
    BY <2>1, <2>2
<1>i. CASE ListArtifacts
  <2>1. CASE StopSealing
    <3>1. SealType' /\ (~seal.found)' /\ seal.phase' = "error"
      BY <1>1, <1>i, <2>1 DEF ListArtifacts, SealType, SealInv
    <3> QED
      BY <1>4, <1>i, <3>1 DEF ListArtifacts
  <2>2. CASE ~StopSealing
    <3>1. /\ seal.phase = "list" /\ UNCHANGED tree
          /\ seal' = [seal EXCEPT !.phase = "verify", !.listing = Listing(SealedRoot)]
      BY <1>i, <2>2 DEF ListArtifacts
    <3>2. /\ seal'.phase = "verify" /\ seal'.read = <<>> /\ seal'.listing = Listing(SealedRoot) /\ ~seal'.found
          /\ seal'.manifest = seal.manifest /\ seal'.sealed = seal.sealed
          /\ SealType' /\ Len(seal'.read) = 0
      BY <1>1, <3>1 DEF SealType, SealInv
    <3>3. Listing(SealedRoot)' = Listing(SealedRoot)
      BY <3>1 DEF Listing, Resolve, Named, tree, files
    <3>4. ManifestKept' /\ TreeOK'
      BY <1>1, <3>1, <3>2 DEF ManifestKept, TreeOK, tree, files
    <3>5. VerifiedSoFar'
      BY <3>2, <3>3 DEF VerifiedSoFar
    <3> QED
      BY <1>1, <3>2, <3>4, <3>5, ArtifactFacts DEF SealInv
  <2> QED
    BY <2>1, <2>2
<1>j. CASE VerifyArtifact
  <2> DEFINE k == Len(seal.read) + 1
             p == Artifacts[k]
             bad == p \notin seal.listing \/ ~Regular(p)
             data == IF bad THEN <<>> ELSE Contents(p)
             wrong == bad \/ data # <<seal.manifest[k]>>
  <2>1. /\ seal.phase = "verify" /\ Len(seal.read) < Len(Artifacts) /\ UNCHANGED tree
        /\ seal' = [seal EXCEPT !.read = Append(@, data), !.found = @ \/ bad \/ data # <<seal.manifest[k]>>]
    BY <1>j DEF VerifyArtifact, NextArtifact
  <2>2. seal.found \/ bad \/ data # <<seal.manifest[k]>> <=> (seal.found \/ wrong)
    OBVIOUS
  <2>3. wrong \in BOOLEAN /\ seal.found \in BOOLEAN
    BY <1>1 DEF SealType
  <2>4. /\ seal'.phase = "verify" /\ seal'.read = Append(seal.read, data) /\ seal'.listing = seal.listing
        /\ seal'.manifest = seal.manifest /\ seal'.sealed = seal.sealed
        /\ seal'.found \in BOOLEAN /\ seal'.found <=> seal.found \/ wrong
        /\ DOMAIN seal' = DOMAIN seal
    BY <1>1, <2>1, <2>3 DEF SealType
  <2>5. Len(seal'.read) = k /\ k \in Nat /\ k <= Len(Artifacts) /\ IsSeq(seal'.read)
    BY <1>2, <2>1, <2>4, ArtifactFacts
  <2>6. /\ Listing(SealedRoot)' = Listing(SealedRoot)
        /\ \A n : AsSealed(n)' <=> AsSealed(n)
        /\ TreeOK' /\ ManifestKept' /\ SealType'
    <3>1. object' = object /\ top' = top /\ late' = late /\ clock' = clock
      BY <2>1 DEF tree, files
    <3>2. \A q : Resolve(q)' = Resolve(q)
      BY <3>1 DEF Resolve, Named
    <3>3. \A q : Regular(q)' = Regular(q) /\ Contents(q)' = Contents(q)
      BY <3>1, <3>2 DEF Regular, Stat, Contents
    <3>4. TreeOK' /\ ManifestKept' /\ SealType'
      BY <1>1, <2>1, <2>4, <2>5, <3>1 DEF TreeOK, ManifestKept, SealType
    <3>5. Listing(SealedRoot)' = Listing(SealedRoot)
      BY <3>2 DEF Listing
    <3>6. \A n : AsSealed(n)' <=> AsSealed(n)
      BY <2>4, <3>3 DEF AsSealed
    <3> QED
      BY <3>4, <3>5, <3>6
  <2>7. seal.listing = Listing(SealedRoot) => (wrong <=> ~AsSealed(k))
    <3>1. p \in Names(SealedRoot)
      BY <1>2, <2>1, <2>5, ArtifactFacts
    <3>2. Regular(p) => p \in Listing(SealedRoot)
      BY <3>1 DEF Regular, Stat, Nowhere, Listing
    <3> QED
      BY <3>2 DEF AsSealed
  <2> HIDE DEF wrong, bad, data
  <2>8. VerifiedSoFar'
    <3> SUFFICES ASSUME Below(SealedRoot) \cap late' = {}
                 PROVE  /\ seal'.listing = Listing(SealedRoot)'
                        /\ seal'.found <=> \E n \in 1..k : ~AsSealed(n)'
      BY <2>4, <2>5 DEF VerifiedSoFar
    <3>1. /\ seal.listing = Listing(SealedRoot)
          /\ seal.found <=> \E n \in 1..Len(seal.read) : ~AsSealed(n)
      BY <1>1, <2>1 DEF VerifiedSoFar, tree
    <3>2. (\E n \in 1..k : ~AsSealed(n)) <=> (\E n \in 1..Len(seal.read) : ~AsSealed(n)) \/ ~AsSealed(k)
      BY <1>2
    <3>3. (\E n \in 1..k : ~AsSealed(n)') <=> (\E n \in 1..k : ~AsSealed(n))
      BY <2>6
    <3> QED
      BY <2>4, <2>6, <2>7, <3>1, <3>2, <3>3
  <2> QED
    BY <1>1, <2>4, <2>5, <2>6, <2>8 DEF SealInv
<1>k. CASE EndVerification
  <2>1. /\ seal.phase = "verify" /\ Len(seal.read) = Len(Artifacts) /\ UNCHANGED tree
        /\ seal' = [seal EXCEPT !.phase = IF seal.found \/ Unexpected # {} THEN "mismatch" ELSE "clean"]
    BY <1>k DEF EndVerification
  <2>2. /\ SealType' /\ seal'.phase \in {"mismatch", "clean"}
        /\ seal'.phase = "clean" <=> ~seal.found /\ Unexpected = {}
        /\ seal'.read = seal.read /\ seal'.listing = seal.listing /\ seal'.found = seal.found
        /\ seal'.manifest = seal.manifest /\ seal'.sealed = seal.sealed
    BY <1>1, <2>1 DEF SealType
  <2>3. ManifestKept' /\ TreeOK' /\ Unexpected' = Unexpected
    BY <1>1, <2>1, <2>2 DEF ManifestKept, TreeOK, Unexpected, tree, files
  <2>4. VerifiedSoFar'
    <3>1. object' = object /\ top' = top /\ late' = late
      BY <2>1 DEF tree, files
    <3>2. \A q : Resolve(q)' = Resolve(q)
      BY <3>1 DEF Resolve, Named
    <3>3. \A q : Regular(q)' = Regular(q) /\ Contents(q)' = Contents(q)
      BY <3>1, <3>2 DEF Regular, Stat, Contents
    <3>4. Listing(SealedRoot)' = Listing(SealedRoot) /\ \A n : AsSealed(n)' <=> AsSealed(n)
      BY <2>2, <3>2, <3>3 DEF Listing, AsSealed
    <3> QED
      BY <1>1, <2>1, <2>2, <3>1, <3>4 DEF VerifiedSoFar
  <2> QED
    BY <1>1, <2>1, <2>2, <2>3, <2>4 DEF SealInv
<1> QED
  BY <1>a, <1>b, <1>c, <1>d, <1>e, <1>f, <1>g, <1>h, <1>i, <1>j, <1>k DEF SealStep

LEMMA SealInitial == Init => SealInv
<1> SUFFICES ASSUME Init PROVE SealInv
  OBVIOUS
<1>1. TreeOK
  <2>1. PICK present \in FilesFor[tool] : TreeInit(present)
    BY DEF Init
  <2> QED
    BY <2>1, TreeInitial
<1>2. /\ SealType /\ seal.phase = "check" /\ ~seal.found
  <2>1. IsSeq(<<>>)
    BY DEF IsSeq
  <2> QED
    BY <2>1 DEF Init, SealInit, SealType
<1> QED
  BY <1>1, <1>2 DEF SealInv, ManifestKept, VerifiedSoFar

LEMMA SealKept == SealInv /\ [Next]_vars => SealInv'
<1> SUFFICES ASSUME SealInv, [Next]_vars PROVE SealInv'
  OBVIOUS
<1>1. CASE Seal
  BY <1>1, SealStepKeeps DEF Seal
<1>2. CASE Others /\ tool = "seal"
  BY <1>2, SealOthers
<1>3. ASSUME tool # "seal", UNCHANGED <<seal, tool>> PROVE SealInv'
  BY <1>3 DEF SealInv
<1>4. CASE Adapter \/ Scan \/ Baseline \/ (Others /\ tool # "seal")
  BY <1>3, <1>4 DEF Adapter, Scan, Baseline, Others
<1>5. CASE UNCHANGED vars
  <2>1. UNCHANGED <<tree, seal, tool>>
    BY <1>5 DEF vars
  <2>2. object' = object /\ top' = top /\ clock' = clock /\ late' = late /\ seal' = seal /\ tool' = tool
    BY <2>1 DEF tree, files
  <2>3. \A q : Resolve(q)' = Resolve(q)
    BY <2>2 DEF Resolve, Named
  <2>4. \A q : Regular(q)' = Regular(q) /\ Contents(q)' = Contents(q)
    BY <2>2, <2>3 DEF Regular, Stat, Contents
  <2>5. /\ TreeOK' <=> TreeOK
        /\ SealType' <=> SealType
        /\ ManifestKept' <=> ManifestKept
        /\ Unexpected' = Unexpected
    BY <2>2, <2>3, <2>4 DEF TreeOK, SealType, ManifestKept, Unexpected
  <2>6. /\ Listing(SealedRoot)' = Listing(SealedRoot)
        /\ \A n : AsSealed(n)' <=> AsSealed(n)
    BY <2>2, <2>3, <2>4 DEF Listing, AsSealed
  <2>7. VerifiedSoFar' <=> VerifiedSoFar
    BY <2>2, <2>6 DEF VerifiedSoFar
  <2> QED
    BY <2>2, <2>5, <2>7 DEF SealInv
<1> QED
  BY <1>1, <1>2, <1>4, <1>5 DEF Next

LEMMA SealImplies == SealInv => VerdictIsRight
<1> SUFFICES ASSUME SealInv, seal.phase \in {"clean", "mismatch"}, Below(SealedRoot) \cap late = {}
             PROVE  /\ OutputFile \notin late => seal.manifest = seal.sealed
                    /\ seal.phase = "clean" <=>
                         /\ Listing(SealedRoot) = {Artifacts[n] : n \in DOMAIN Artifacts}
                         /\ \A n \in DOMAIN Artifacts : AsSealed(n)
  BY DEF VerdictIsRight, AsSealed
<1>1. ManifestKept /\ VerifiedSoFar
  BY DEF SealInv
<1>2. /\ seal.phase = "clean" <=> ~seal.found /\ Unexpected = {}
      /\ seal.listing = Listing(SealedRoot)
      /\ seal.found <=> \E n \in DOMAIN Artifacts : ~AsSealed(n)
  BY <1>1, ArtifactFacts DEF SealInv, VerifiedSoFar
<1>3. (\A n \in DOMAIN Artifacts : AsSealed(n)) => {Artifacts[n] : n \in DOMAIN Artifacts} \subseteq Listing(SealedRoot)
  BY ArtifactFacts DEF AsSealed, Regular, Stat, Nowhere, Listing
<1>4. Unexpected = {} <=> Listing(SealedRoot) \subseteq {Artifacts[n] : n \in DOMAIN Artifacts}
  BY <1>2 DEF Unexpected
<1> QED
  BY <1>1, <1>2, <1>3, <1>4 DEF ManifestKept

(* The verdict on a sealed folder that nobody touches meanwhile is right   *)
(* in both directions, for any registered artifacts and any tree.          *)
THEOREM VerdictSound == Spec => []VerdictIsRight
<1>1. Init => SealInv
  BY SealInitial
<1>2. SealInv /\ [Next]_vars => SealInv'
  BY SealKept
<1>3. SealInv => VerdictIsRight
  BY SealImplies
<1> QED
  BY <1>1, <1>2, <1>3, PTL DEF Spec

-----------------------------------------------------------------------------
(* The projection of a measurement.                                        *)

(* The first snapshot of the chain, from when it is begun.                 *)
FirstStats == IF adapter.round = 1 THEN adapter.stats ELSE adapter.before.stats

(* The path p no longer leads to the object it led to when it was first    *)
(* looked at, or somebody has changed that object.                         *)
ObjectChanged(p) == object[<<p, FirstStats[p].id>>].stamp # FirstStats[p].stamp

CaseMoved == top # FirstStats[CaseDirectory].id \/ ObjectChanged(CaseDirectory)

CaseSeen == adapter.phase \notin {"reload", "case", "failed"} \/ adapter.round = 2

TargetSeen == adapter.phase \notin {"reload", "case", "directory", "target", "failed"} \/ adapter.round = 2

AdapterType ==
  /\ DOMAIN adapter = {"phase", "round", "stats", "opened", "data", "before", "judged", "steady"}
  /\ adapter.round \in {1, 2} /\ adapter.steady \in BOOLEAN
  /\ DOMAIN adapter.stats = Chain /\ DOMAIN adapter.judged = {1, 2}
  /\ \A p \in {CaseDirectory, Target} :
       (IF p = Target THEN TargetSeen ELSE CaseSeen) =>
         /\ FirstStats[p].id \in Moment /\ FirstStats[p].id <= clock
         /\ FirstStats[p].stamp \in Moment /\ FirstStats[p].stamp <= clock

(* Once the target has been looked at: whoever has touched it since has    *)
(* left a trace in the case directory or in the target that was seen; and  *)
(* if nobody has, what was read of it is what it holds.                    *)
TracesLeft ==
  adapter.phase # "failed" /\ TargetSeen =>
    /\ Target \in late => CaseMoved \/ ObjectChanged(Target)
    /\ Target \notin late =>
         /\ Resolve(Target) = FirstStats[Target].id
         /\ adapter.phase = "read" => adapter.opened.id = Resolve(Target)
         /\ adapter.phase \in {"check", "directory again", "target again"} =>
              adapter.data = Contents(Target)
         /\ adapter.phase = "evidence" \/ adapter.round = 2 => adapter.judged[1] = Contents(Target)

(* What the second snapshot tells about the whole time between the two.    *)
SecondTells ==
  adapter.round = 2 /\ adapter.phase \in {"case again", "compare", "projected"} =>
    /\ adapter.steady => adapter.judged[1] = adapter.data
    /\ ~adapter.steady =>
         \/ adapter.stats[Target] # adapter.before.stats[Target]
         \/ adapter.phase = "case again" /\ CaseMoved
         \/ adapter.phase # "case again" /\ adapter.stats[CaseDirectory] # adapter.before.stats[CaseDirectory]

AdapterInv ==
  /\ tool = "adapter" => TreeOK /\ Stamped /\ AdapterType /\ TracesLeft /\ SecondTells
  /\ tool # "adapter" => adapter.phase = "reload"
  /\ adapter.phase \in {"compare", "projected"} => adapter.round = 2
  /\ adapter.phase \in {"reload", "validate", "evidence"} => adapter.round = 1
  /\ adapter.phase = "projected" => SameSnapshot

(* While the files stay, so does all that can be seen of them.             *)
LEMMA SameFiles ==
  ASSUME UNCHANGED files, late' \subseteq late
  PROVE  /\ \A q : Resolve(q)' = Resolve(q) /\ Stat(q)' = Stat(q) /\ Contents(q)' = Contents(q)
         /\ TreeOK => TreeOK'
         /\ Stamped => Stamped'
<1>1. object' = object /\ top' = top /\ clock' = clock
  BY DEF files
<1>2. \A q : Resolve(q)' = Resolve(q)
  BY <1>1 DEF Resolve, Named
<1>3. \A q : Stat(q)' = Stat(q) /\ Contents(q)' = Contents(q)
  BY <1>1, <1>2 DEF Stat, Contents
<1>4. (TreeOK => TreeOK') /\ (Stamped => Stamped')
  BY <1>1 DEF TreeOK, Stamped
<1> QED
  BY <1>2, <1>3, <1>4

(* What lstat tells of a path that is there.                               *)
LEMMA Looked ==
  ASSUME TreeOK, Stamped, NEW p \in Path, Stat(p) # Nowhere
  PROVE  /\ Stat(p).id = Resolve(p) /\ Resolve(p) \in Moment /\ Resolve(p) <= clock
         /\ Stat(p).stamp = object[<<p, Resolve(p)>>].stamp
         /\ Stat(p).stamp \in Moment /\ Stat(p).stamp <= clock
<1>1. Resolve(p) # Missing
  BY DEF Stat
<1>2. Resolve(p) \in Moment /\ Resolve(p) <= clock
  BY <1>1, ResolveBound
<1>3. object[<<p, Resolve(p)>>].stamp \in 0..clock
  BY <1>2 DEF Stamped, Within
<1>4. 0..clock \subseteq Moment /\ \A n \in 0..clock : n <= clock
  BY PathFacts DEF TreeOK, Moment
<1>5. Stat(p).id = Resolve(p) /\ Stat(p).stamp = object[<<p, Resolve(p)>>].stamp
  BY <1>1 DEF Stat
<1> QED
  BY <1>2, <1>3, <1>4, <1>5

LEMMA AdapterFacts ==
  /\ CaseDirectory = Top /\ Top \in Path /\ Resolve(Top) = top
  /\ MeasurementsDirectory \in Directories \ {Top} /\ Parent[MeasurementsDirectory] = Top
  /\ Target \in Path \ Directories /\ Target # Top
  /\ \A p \in Path : Target \in Below(p) => p \in {Target, MeasurementsDirectory, Top}
<1>1. /\ MeasurementsDirectory \in Path \ {Top} /\ Parent[MeasurementsDirectory] = CaseDirectory
      /\ Target \in Path \ {Top} /\ Parent[Target] = MeasurementsDirectory
  BY AdapterAssumption DEF Names
<1>2. CaseDirectory = Top
  BY <1>1, TreeAssumption
<1>3. MeasurementsDirectory \in Directories
  BY <1>1, AdapterAssumption DEF Directories
<1>4. \A p \in Path : Target \in Below(p) => p \in {Target, MeasurementsDirectory, Top}
  BY <1>1, <1>2, BelowFacts
<1> QED
  BY <1>1, <1>2, <1>3, <1>4, PathFacts, AdapterAssumption, ResolveStep

(* A stamp that was taken does not come back.                              *)
LEMMA AdapterMarks ==
  ASSUME TreeOK, AdapterType, NEW p, Change(p), UNCHANGED adapter
  PROVE  /\ CaseSeen /\ CaseMoved => CaseMoved'
         /\ TargetSeen /\ ObjectChanged(Target) => ObjectChanged(Target)'
<1>1. FirstStats' = FirstStats
  BY DEF FirstStats
<1>2. clock \in Nat
  BY MomentFacts DEF TreeOK
<1>3. ASSUME NEW q \in Path, FirstStats[q].id \in Moment, FirstStats[q].id <= clock,
             FirstStats[q].stamp \in Moment, FirstStats[q].stamp <= clock, ObjectChanged(q)
      PROVE  ObjectChanged(q)'
  <2> DEFINE i == FirstStats[q].id
             t == FirstStats[q].stamp
  <2>1. i \in Nat /\ t \in Nat /\ i # clock + 1 /\ t # clock + 1
    BY <1>2, <1>3, MomentFacts
  <2>2. object'[<<q, i>>] = object[<<q, i>>] \/ object'[<<q, i>>].stamp = clock + 1
    BY <1>3, <2>1 DEF Change
  <2>3. object[<<q, i>>].stamp # t
    BY <1>3 DEF ObjectChanged
  <2> HIDE DEF i, t
  <2>4. object'[<<q, i>>].stamp # t
    BY <2>1, <2>2, <2>3
  <2> QED
    BY <1>1, <2>4 DEF ObjectChanged, i, t
<1>4. ASSUME CaseSeen, CaseMoved PROVE CaseMoved'
  <2>1. /\ FirstStats[Top].id \in Moment /\ FirstStats[Top].id <= clock
        /\ FirstStats[Top].stamp \in Moment /\ FirstStats[Top].stamp <= clock
    BY <1>4, AdapterFacts DEF AdapterType
  <2>2. CASE ObjectChanged(Top)
    BY <1>3, <2>1, <2>2, AdapterFacts DEF CaseMoved
  <2>3. CASE top # FirstStats[Top].id
    <3>1. top' = top \/ top' = clock + 1
      BY ResolveStep DEF Change
    <3>2. FirstStats[Top].id # clock + 1
      BY <1>2, <2>1, MomentFacts
    <3> QED
      BY <1>1, <2>3, <3>1, <3>2, AdapterFacts DEF CaseMoved
  <2> QED
    BY <1>4, <2>2, <2>3, AdapterFacts DEF CaseMoved
<1>5. ASSUME TargetSeen, ObjectChanged(Target) PROVE ObjectChanged(Target)'
  BY <1>3, <1>5, AdapterFacts DEF AdapterType
<1> QED
  BY <1>4, <1>5

LEMMA AdapterOthers ==
  ASSUME AdapterInv, tool = "adapter", Others
  PROVE  AdapterInv'
<1>1. TreeOK /\ Stamped /\ AdapterType /\ TracesLeft /\ SecondTells /\ UNCHANGED <<adapter, tool>>
  BY DEF AdapterInv, Others
<1>2. PICK p \in Path : Change(p)
  BY <1>1, OthersChange
<1>3. TreeOK' /\ Stamped' /\ late' = late \cup Below(p) /\ clock' = clock + 1 /\ clock \in Nat
  BY <1>1, <1>2, MomentFacts DEF Change, TreeOK
<1>4. FirstStats' = FirstStats /\ CaseSeen' = CaseSeen /\ TargetSeen' = TargetSeen
  BY <1>1 DEF FirstStats, CaseSeen, TargetSeen
<1>5. AdapterType'
  <2>1. \A i \in Moment : i <= clock => i <= clock'
    BY <1>3, MomentFacts
  <2> QED
    BY <1>1, <1>4, <2>1, AdapterFacts DEF AdapterType
<1>6. /\ CaseSeen /\ CaseMoved => CaseMoved'
      /\ TargetSeen /\ ObjectChanged(Target) => ObjectChanged(Target)'
  BY <1>1, <1>2, AdapterMarks
<1>7. TargetSeen => CaseSeen
  BY DEF TargetSeen, CaseSeen
<1>8. TracesLeft'
  <2> SUFFICES ASSUME adapter.phase # "failed", TargetSeen
               PROVE  TracesLeft'
    BY <1>1, <1>4 DEF TracesLeft
  <2>1. /\ FirstStats[Target].id \in Moment /\ FirstStats[Target].stamp # clock + 1
        /\ FirstStats[Top].id \in Moment /\ FirstStats[Top].id # clock + 1 /\ FirstStats[Top].stamp # clock + 1
    BY <1>1, <1>3, <1>7, AdapterFacts, MomentFacts DEF AdapterType
  <2>2. ASSUME Target \in late' PROVE CaseMoved' \/ ObjectChanged(Target)'
    <3>1. CASE Target \in late
      BY <1>1, <1>6, <1>7, <3>1 DEF TracesLeft
    <3>2. CASE Target \notin late /\ p = Top
      <4>1. top' = clock + 1
        BY <1>2, <3>2, ResolveStep DEF Change
      <4> QED
        BY <1>4, <2>1, <4>1, AdapterFacts DEF CaseMoved
    <3>3. CASE Target \notin late /\ p = MeasurementsDirectory
      <4>1. object'[<<Top, top>>].stamp = clock + 1
        BY <1>2, <3>3, AdapterFacts DEF Change
      <4>2. CASE top = FirstStats[Top].id
        BY <1>4, <2>1, <4>1, <4>2, AdapterFacts DEF CaseMoved, ObjectChanged
      <4>3. CASE top # FirstStats[Top].id
        BY <1>6, <1>7, <4>3, AdapterFacts DEF CaseMoved
      <4> QED
        BY <4>2, <4>3
    <3>4. CASE Target \notin late /\ p = Target
      <4>1. Resolve(Target) = FirstStats[Target].id /\ Resolve(Target) # Missing
        BY <1>1, <2>1, <3>4, MomentFacts DEF TracesLeft
      <4>2. object'[<<Target, FirstStats[Target].id>>].stamp = clock + 1
        BY <1>2, <3>4, <4>1, AdapterFacts DEF Change
      <4> QED
        BY <1>4, <2>1, <4>2 DEF ObjectChanged
    <3> QED
      BY <1>2, <1>3, <2>2, <3>1, <3>2, <3>3, <3>4, AdapterFacts
  <2>3. ASSUME Target \notin late'
        PROVE  /\ Target \notin late /\ Resolve(Target)' = Resolve(Target) /\ Contents(Target)' = Contents(Target)
    <3>1. Target \notin late /\ Target \in Path \ Below(p)
      BY <1>3, <2>3, AdapterFacts
    <3>2. Resolve(Target) # Missing
      BY <1>1, <2>1, <3>1, MomentFacts DEF TracesLeft
    <3> QED
      BY <1>1, <1>2, <3>1, <3>2, Unmoved
  <2> QED
    BY <1>1, <1>4, <2>2, <2>3 DEF TracesLeft
<1>9. SecondTells'
  <2>1. adapter.round = 2 => CaseSeen
    BY DEF CaseSeen
  <2> QED
    BY <1>1, <1>6, <2>1 DEF SecondTells
<1>10. SameSnapshot' = SameSnapshot
  BY <1>1 DEF SameSnapshot
<1> QED
  BY <1>1, <1>3, <1>5, <1>8, <1>9, <1>10 DEF AdapterInv

(* A step that leaves what was seen first leaves most of the invariant.    *)
LEMMA AdapterSteady ==
  ASSUME AdapterInv, tool = "adapter", UNCHANGED <<tree, tool>>,
         DOMAIN adapter' = DOMAIN adapter, adapter'.round = adapter.round,
         adapter'.before = adapter.before, adapter'.steady \in BOOLEAN,
         DOMAIN adapter'.stats = Chain, DOMAIN adapter'.judged = {1, 2},
         adapter.round = 1 => \A p \in {CaseDirectory, Target} :
           ((IF p = Target THEN TargetSeen ELSE CaseSeen) => adapter'.stats[p] = adapter.stats[p]),
         TargetSeen => TargetSeen', TargetSeen' => TargetSeen,
         CaseSeen' => CaseSeen
  PROVE  /\ TreeOK' /\ Stamped' /\ AdapterType'
         /\ TargetSeen => FirstStats'[Target] = FirstStats[Target] /\ (ObjectChanged(Target)' <=> ObjectChanged(Target))
         /\ CaseSeen => /\ FirstStats'[CaseDirectory] = FirstStats[CaseDirectory]
                        /\ CaseMoved' <=> CaseMoved
<1>1. TreeOK /\ Stamped /\ AdapterType
  BY DEF AdapterInv
<1>2. object' = object /\ top' = top /\ clock' = clock /\ late' = late
  BY DEF tree, files
<1>3. TreeOK' /\ Stamped'
  BY <1>1, <1>2 DEF TreeOK, Stamped
<1>4. /\ TargetSeen => FirstStats'[Target] = FirstStats[Target]
      /\ CaseSeen => FirstStats'[CaseDirectory] = FirstStats[CaseDirectory]
  <2>1. CaseDirectory # Target
    BY AdapterFacts
  <2> QED
    BY <1>1, <2>1 DEF FirstStats, AdapterType
<1>5. /\ TargetSeen => (ObjectChanged(Target)' <=> ObjectChanged(Target))
      /\ CaseSeen => (CaseMoved' <=> CaseMoved)
  BY <1>2, <1>4 DEF ObjectChanged, CaseMoved
<1>6. AdapterType'
  BY <1>1, <1>2, <1>4 DEF AdapterType
<1> QED
  BY <1>3, <1>4, <1>5, <1>6

LEMMA AdapterFails ==
  ASSUME AdapterInv, tool = "adapter", UNCHANGED <<files, tool>>, late' \subseteq late, FailProjection
  PROVE  AdapterInv'
<1>1. TreeOK /\ Stamped /\ AdapterType
  BY DEF AdapterInv
<1>2. TreeOK' /\ Stamped' /\ clock' = clock
  BY <1>1, SameFiles DEF files
<1>3. /\ DOMAIN adapter' = DOMAIN adapter /\ adapter'.phase = "failed" /\ adapter'.round = adapter.round
      /\ adapter'.stats = adapter.stats /\ adapter'.before = adapter.before
      /\ adapter'.judged = adapter.judged /\ adapter'.steady = adapter.steady
  BY <1>1 DEF FailProjection, AdapterType
<1>4. FirstStats' = FirstStats /\ (CaseSeen' => CaseSeen) /\ (TargetSeen' => TargetSeen)
  BY <1>3 DEF FirstStats, CaseSeen, TargetSeen
<1>5. AdapterType'
  BY <1>1, <1>2, <1>3, <1>4 DEF AdapterType
<1>6. TracesLeft' /\ SecondTells'
  BY <1>3 DEF TracesLeft, SecondTells
<1> QED
  BY <1>2, <1>3, <1>5, <1>6 DEF AdapterInv

LEMMA AdapterStepKeeps ==
  ASSUME AdapterInv, tool = "adapter", AdapterStep, UNCHANGED tool
  PROVE  AdapterInv'
<1>1. TreeOK /\ Stamped /\ AdapterType /\ TracesLeft /\ SecondTells /\ tool' = "adapter"
  BY DEF AdapterInv
<1>2. CaseDirectory \in Chain /\ MeasurementsDirectory \in Chain /\ Target \in Chain
  BY DEF Chain
<1>3. CaseDirectory # Target /\ MeasurementsDirectory # Target /\ MeasurementsDirectory # CaseDirectory
      /\ CaseDirectory \in Path /\ Target \in Path
  BY AdapterFacts
<1>4. UNCHANGED tree => UNCHANGED files /\ late' = late
  BY DEF tree, files
<1>5. UNCHANGED tree /\ FailProjection => AdapterInv'
  BY <1>4, AdapterFails
<1>6. UNCHANGED tree => /\ Resolve(Target)' = Resolve(Target) /\ Contents(Target)' = Contents(Target)
  BY <1>4, SameFiles
<1>a. CASE ReloadEvaluation
  <2>1. CASE FailProjection
    BY <1>5, <1>a, <2>1 DEF ReloadEvaluation
  <2>2. CASE ~FailProjection
    <3>1. adapter.phase = "reload" /\ adapter' = [adapter EXCEPT !.phase = "case"] /\ UNCHANGED tree
      BY <1>a, <2>2 DEF ReloadEvaluation
    <3>2. /\ DOMAIN adapter' = DOMAIN adapter /\ adapter'.phase = "case" /\ adapter'.round = adapter.round
          /\ adapter'.stats = adapter.stats /\ adapter'.before = adapter.before
          /\ adapter'.judged = adapter.judged /\ adapter'.data = adapter.data /\ adapter'.steady = adapter.steady
      BY <1>1, <3>1 DEF AdapterType
    <3>3. TargetSeen' <=> TargetSeen
      BY <3>1, <3>2 DEF TargetSeen
    <3>4. CaseSeen' <=> CaseSeen
      BY <3>1, <3>2 DEF CaseSeen
    <3>5. /\ TreeOK' /\ Stamped' /\ AdapterType'
          /\ TargetSeen => FirstStats'[Target] = FirstStats[Target] /\ (ObjectChanged(Target)' <=> ObjectChanged(Target))
          /\ CaseSeen => (CaseMoved' <=> CaseMoved)
      BY <1>1, <3>1, <3>2, <3>3, <3>4, AdapterSteady DEF AdapterType
    <3>6. TargetSeen => CaseSeen
      BY DEF TargetSeen, CaseSeen
    <3>7. TracesLeft' /\ SecondTells'
      BY <1>1, <1>4, <1>6, <3>1, <3>2, <3>3, <3>5, <3>6 DEF TracesLeft, SecondTells
    <3> QED
      BY <1>1, <3>2, <3>5, <3>7 DEF AdapterInv
  <2> QED
    BY <2>1, <2>2
<1>b. ASSUME Look("case", CaseDirectory, "directory") PROVE AdapterInv'
  <2>1. CASE FailProjection
    BY <1>3, <1>5, <1>b, <2>1 DEF Look
  <2>2. CASE ~FailProjection
    <3> DEFINE stats == [adapter.stats EXCEPT ![CaseDirectory] = Stat(CaseDirectory)]
    <3>1. /\ adapter.phase = "case" /\ UNCHANGED tree /\ Stat(CaseDirectory).kind = "dir"
          /\ adapter' = [adapter EXCEPT !.phase = "directory", !.stats = stats]
      BY <1>3, <1>b, <2>2 DEF Look, Expected
    <3>2. /\ DOMAIN stats = Chain /\ stats[CaseDirectory] = Stat(CaseDirectory)
          /\ stats[Target] = adapter.stats[Target]
      BY <1>1, <1>2, <1>3 DEF AdapterType
    <3> HIDE DEF stats
    <3>3. /\ DOMAIN adapter' = DOMAIN adapter /\ adapter'.phase = "directory" /\ adapter'.round = adapter.round
          /\ adapter'.stats = stats /\ adapter'.before = adapter.before
          /\ adapter'.judged = adapter.judged /\ adapter'.data = adapter.data /\ adapter'.steady = adapter.steady
      BY <1>1, <3>1 DEF AdapterType
    <3>4. TargetSeen' <=> TargetSeen
      BY <3>1, <3>3 DEF TargetSeen
    <3>5. CASE adapter.round = 1
      <4>1. /\ FirstStats' = stats /\ ~TargetSeen' /\ TreeOK' /\ Stamped' /\ clock' = clock
        BY <1>1, <1>4, <3>1, <3>3, <3>5, SameFiles DEF FirstStats, TargetSeen, files
      <4>2. AdapterType'
        <5>1. /\ Stat(CaseDirectory).id \in Moment /\ Stat(CaseDirectory).id <= clock
              /\ Stat(CaseDirectory).stamp \in Moment /\ Stat(CaseDirectory).stamp <= clock
          <6>1. Stat(CaseDirectory) # Nowhere
            BY <3>1 DEF Nowhere
          <6> QED
            BY <1>1, <1>3, <6>1, Looked
        <5>2. \A p \in {CaseDirectory, Target} : (IF p = Target THEN TargetSeen' ELSE CaseSeen') =>
                  /\ stats[p].id \in Moment /\ stats[p].id <= clock
                  /\ stats[p].stamp \in Moment /\ stats[p].stamp <= clock
          BY <5>1, <1>1, <1>3, <3>1, <3>2, <3>3, <4>1 DEF AdapterType, FirstStats
        <5> QED
          BY <5>2, <1>1, <1>3, <3>1, <3>2, <3>3, <4>1 DEF AdapterType
      <4>3. TracesLeft' /\ SecondTells'
        BY <3>3, <3>5, <4>1 DEF TracesLeft, SecondTells
      <4> QED
        BY <1>1, <3>3, <4>1, <4>2, <4>3 DEF AdapterInv
    <3>6. CASE adapter.round # 1
      <4>1. CaseSeen /\ TargetSeen /\ CaseSeen' /\ adapter.round = 2
        BY <1>1, <3>3, <3>6 DEF CaseSeen, TargetSeen, AdapterType
      <4>2. /\ TreeOK' /\ Stamped' /\ AdapterType' /\ FirstStats'[Target] = FirstStats[Target]
            /\ ObjectChanged(Target)' <=> ObjectChanged(Target)
            /\ CaseMoved' <=> CaseMoved
        BY <1>1, <3>1, <3>2, <3>3, <3>4, <3>6, <4>1, AdapterSteady DEF AdapterType
      <4>3. TracesLeft' /\ SecondTells'
        BY <1>1, <1>4, <1>6, <3>1, <3>3, <3>4, <4>1, <4>2 DEF TracesLeft, SecondTells
      <4> QED
        BY <1>1, <3>3, <4>2, <4>3 DEF AdapterInv
    <3> QED
      BY <3>5, <3>6
  <2> QED
    BY <2>1, <2>2
<1>c. ASSUME Look("directory", MeasurementsDirectory, "target") PROVE AdapterInv'
  <2>1. CASE FailProjection
    BY <1>3, <1>5, <1>c, <2>1 DEF Look
  <2>2. CASE ~FailProjection
    <3> DEFINE stats == [adapter.stats EXCEPT ![MeasurementsDirectory] = Stat(MeasurementsDirectory)]
    <3>1. /\ adapter.phase = "directory" /\ UNCHANGED tree
          /\ adapter' = [adapter EXCEPT !.phase = "target", !.stats = stats]
      BY <1>3, <1>c, <2>2 DEF Look
    <3>2. /\ DOMAIN stats = Chain /\ stats[CaseDirectory] = adapter.stats[CaseDirectory]
          /\ stats[Target] = adapter.stats[Target]
      BY <1>1, <1>2, <1>3 DEF AdapterType
    <3> HIDE DEF stats
    <3>3. /\ DOMAIN adapter' = DOMAIN adapter /\ adapter'.phase = "target" /\ adapter'.round = adapter.round
          /\ adapter'.stats = stats /\ adapter'.before = adapter.before
          /\ adapter'.judged = adapter.judged /\ adapter'.data = adapter.data /\ adapter'.steady = adapter.steady
      BY <1>1, <3>1 DEF AdapterType
    <3>4. TargetSeen' <=> TargetSeen
      BY <3>1, <3>3 DEF TargetSeen
    <3>5. CaseSeen /\ CaseSeen'
      BY <3>1, <3>3 DEF CaseSeen
    <3>6. /\ TreeOK' /\ Stamped' /\ AdapterType'
          /\ TargetSeen => FirstStats'[Target] = FirstStats[Target] /\ (ObjectChanged(Target)' <=> ObjectChanged(Target))
          /\ CaseMoved' <=> CaseMoved
      BY <1>1, <3>1, <3>2, <3>3, <3>4, <3>5, AdapterSteady DEF AdapterType
    <3>7. TracesLeft' /\ SecondTells'
      BY <1>1, <1>4, <1>6, <3>1, <3>3, <3>4, <3>6 DEF TracesLeft, SecondTells
    <3> QED
      BY <1>1, <3>3, <3>6, <3>7 DEF AdapterInv
  <2> QED
    BY <2>1, <2>2
<1>d. ASSUME Look("target", Target, "open") PROVE AdapterInv'
  <2>1. /\ adapter.phase = "target" /\ UNCHANGED files /\ late' \subseteq late
        /\ adapter.round = 1 => late' = late \ {Target}
        /\ adapter.round # 1 => late' = late
    BY <1>d DEF Look, Vouch, tree
  <2>2. CASE FailProjection
    BY <1>1, <2>1, <2>2, AdapterFails
  <2>3. CASE ~FailProjection
    <3> DEFINE stats == [adapter.stats EXCEPT ![Target] = Stat(Target)]
    <3>1. /\ Stat(Target).kind = "file"
          /\ adapter' = [adapter EXCEPT !.phase = "open", !.stats = stats]
      BY <1>d, <2>3 DEF Look, Expected
    <3>2. /\ DOMAIN stats = Chain /\ stats[CaseDirectory] = adapter.stats[CaseDirectory]
          /\ stats[Target] = Stat(Target)
      BY <1>1, <1>2, <1>3 DEF AdapterType
    <3> HIDE DEF stats
    <3>3. /\ DOMAIN adapter' = DOMAIN adapter /\ adapter'.phase = "open" /\ adapter'.round = adapter.round
          /\ adapter'.stats = stats /\ adapter'.before = adapter.before
          /\ adapter'.judged = adapter.judged /\ adapter'.data = adapter.data /\ adapter'.steady = adapter.steady
      BY <1>1, <3>1 DEF AdapterType
    <3>4. CaseSeen /\ CaseSeen' /\ TargetSeen'
      BY <2>1, <3>3 DEF CaseSeen, TargetSeen
    <3>5. /\ Resolve(Target)' = Resolve(Target) /\ Contents(Target)' = Contents(Target)
          /\ TreeOK' /\ Stamped' /\ clock' = clock
      BY <1>1, <2>1, SameFiles DEF files
    <3>6. CASE adapter.round = 1
      <4>1. FirstStats' = stats /\ FirstStats = adapter.stats
        BY <3>3, <3>6 DEF FirstStats
      <4>2. AdapterType'
        <5>1. /\ Stat(Target).id \in Moment /\ Stat(Target).id <= clock
              /\ Stat(Target).stamp \in Moment /\ Stat(Target).stamp <= clock
          <6>1. Stat(Target) # Nowhere
            BY <3>1 DEF Nowhere
          <6> QED
            BY <1>1, <1>3, <6>1, Looked
        <5>2. \A p \in {CaseDirectory, Target} : (IF p = Target THEN TargetSeen' ELSE CaseSeen') =>
                  /\ stats[p].id \in Moment /\ stats[p].id <= clock
                  /\ stats[p].stamp \in Moment /\ stats[p].stamp <= clock
          BY <5>1, <1>1, <1>3, <3>1, <3>2, <3>3, <3>4, <3>5, <4>1 DEF AdapterType, FirstStats
        <5> QED
          BY <5>2, <1>1, <1>3, <3>1, <3>2, <3>3, <3>4, <3>5, <4>1 DEF AdapterType
      <4>3. Resolve(Target)' = FirstStats'[Target].id
        <5>1. Stat(Target) # Nowhere
          BY <3>1 DEF Nowhere
        <5> QED
          BY <1>1, <1>3, <3>2, <3>5, <4>1, <5>1, Looked
      <4>4. TracesLeft' /\ SecondTells'
        BY <2>1, <3>3, <3>6, <4>3 DEF TracesLeft, SecondTells
      <4> QED
        BY <1>1, <3>3, <3>5, <4>2, <4>4 DEF AdapterInv
    <3>7. CASE adapter.round # 1
      <4>1. TargetSeen /\ adapter.round = 2 /\ UNCHANGED tree
        BY <1>1, <2>1, <3>7 DEF TargetSeen, AdapterType, tree
      <4>2. /\ AdapterType' /\ FirstStats'[Target] = FirstStats[Target]
            /\ ObjectChanged(Target)' <=> ObjectChanged(Target)
            /\ CaseMoved' <=> CaseMoved
        BY <1>1, <3>2, <3>3, <3>4, <4>1, AdapterSteady DEF AdapterType
      <4>3. TracesLeft' /\ SecondTells'
        BY <1>1, <1>4, <2>1, <3>3, <3>4, <3>5, <4>1, <4>2 DEF TracesLeft, SecondTells
      <4> QED
        BY <1>1, <3>3, <3>5, <4>2, <4>3 DEF AdapterInv
    <3> QED
      BY <3>6, <3>7
  <2> QED
    BY <2>2, <2>3
<1>e. ASSUME OpenTarget PROVE AdapterInv'
  <2>1. CASE FailProjection
    BY <1>3, <1>5, <1>e, <2>1 DEF OpenTarget
  <2>2. CASE ~FailProjection
    <3>1. /\ adapter.phase = "open" /\ UNCHANGED tree /\ Regular(Target)
          /\ adapter' = [adapter EXCEPT !.phase = "read", !.opened = Stat(Target)]
      BY <1>3, <1>e, <2>2 DEF OpenTarget
    <3>2. Stat(Target).id = Resolve(Target)
      <4>1. Stat(Target) # Nowhere
        BY <3>1 DEF Regular, Nowhere
      <4> QED
        BY <1>1, <1>3, <4>1, Looked
    <3>3. /\ DOMAIN adapter' = DOMAIN adapter /\ adapter'.phase = "read" /\ adapter'.round = adapter.round
          /\ adapter'.stats = adapter.stats /\ adapter'.before = adapter.before /\ adapter'.judged = adapter.judged
          /\ adapter'.data = adapter.data /\ adapter'.steady = adapter.steady /\ adapter'.opened = Stat(Target)
      BY <1>1, <3>1 DEF AdapterType
    <3>4. TargetSeen' /\ TargetSeen /\ CaseSeen' /\ CaseSeen
      BY <3>1, <3>3 DEF TargetSeen, CaseSeen
    <3>5. /\ TreeOK' /\ Stamped' /\ AdapterType' /\ FirstStats'[Target] = FirstStats[Target]
          /\ ObjectChanged(Target)' <=> ObjectChanged(Target)
          /\ CaseMoved' <=> CaseMoved
      BY <1>1, <3>1, <3>2, <3>3, <3>4, AdapterSteady DEF AdapterType
    <3>6. TracesLeft' /\ SecondTells'
      BY <1>1, <1>4, <1>6, <3>1, <3>2, <3>3, <3>4, <3>5 DEF TracesLeft, SecondTells
    <3> QED
      BY <1>1, <3>1, <3>3, <3>5, <3>6 DEF AdapterInv
  <2> QED
    BY <2>1, <2>2
<1>f. ASSUME ReadTarget PROVE AdapterInv'
  <2>1. /\ adapter.phase = "read" /\ UNCHANGED tree
        /\ adapter' = [adapter EXCEPT !.phase = "check", !.data = object[<<Target, adapter.opened.id>>].data]
    BY <1>3, <1>f DEF ReadTarget
  <2>2. Target \notin late => object[<<Target, adapter.opened.id>>].data = Contents(Target)
    BY <1>1, <2>1 DEF TracesLeft, TargetSeen, Contents
  <2>3. /\ DOMAIN adapter' = DOMAIN adapter /\ adapter'.phase = "check" /\ adapter'.round = adapter.round
        /\ adapter'.stats = adapter.stats /\ adapter'.before = adapter.before /\ adapter'.judged = adapter.judged
        /\ adapter'.data = object[<<Target, adapter.opened.id>>].data /\ adapter'.steady = adapter.steady /\ adapter'.opened = adapter.opened
    BY <1>1, <2>1 DEF AdapterType
  <2>4. TargetSeen' /\ TargetSeen /\ CaseSeen' /\ CaseSeen
    BY <2>1, <2>3 DEF TargetSeen, CaseSeen
  <2>5. /\ TreeOK' /\ Stamped' /\ AdapterType' /\ FirstStats'[Target] = FirstStats[Target]
        /\ ObjectChanged(Target)' <=> ObjectChanged(Target)
        /\ CaseMoved' <=> CaseMoved
    BY <1>1, <2>1, <2>2, <2>3, <2>4, AdapterSteady DEF AdapterType
  <2>6. TracesLeft' /\ SecondTells'
    BY <1>1, <1>4, <1>6, <2>1, <2>2, <2>3, <2>4, <2>5 DEF TracesLeft, SecondTells
  <2> QED
    BY <1>1, <2>1, <2>3, <2>5, <2>6 DEF AdapterInv
<1>g. ASSUME CheckDescriptor PROVE AdapterInv'
  <2>1. CASE FailProjection
    BY <1>3, <1>5, <1>g, <2>1 DEF CheckDescriptor
  <2>2. CASE ~FailProjection
    <3>1. /\ adapter.phase = "check" /\ UNCHANGED tree
          /\ adapter' = [adapter EXCEPT !.phase = "directory again"]
      BY <1>3, <1>g, <2>2 DEF CheckDescriptor
    <3>3. /\ DOMAIN adapter' = DOMAIN adapter /\ adapter'.phase = "directory again" /\ adapter'.round = adapter.round
          /\ adapter'.stats = adapter.stats /\ adapter'.before = adapter.before /\ adapter'.judged = adapter.judged
          /\ adapter'.data = adapter.data /\ adapter'.steady = adapter.steady /\ adapter'.opened = adapter.opened
      BY <1>1, <3>1 DEF AdapterType
    <3>4. TargetSeen' /\ TargetSeen /\ CaseSeen' /\ CaseSeen
      BY <3>1, <3>3 DEF TargetSeen, CaseSeen
    <3>5. /\ TreeOK' /\ Stamped' /\ AdapterType' /\ FirstStats'[Target] = FirstStats[Target]
          /\ ObjectChanged(Target)' <=> ObjectChanged(Target)
          /\ CaseMoved' <=> CaseMoved
      BY <1>1, <3>1, <3>3, <3>4, AdapterSteady DEF AdapterType
    <3>6. TracesLeft' /\ SecondTells'
      BY <1>1, <1>4, <1>6, <3>1, <3>3, <3>4, <3>5 DEF TracesLeft, SecondTells
    <3> QED
      BY <1>1, <3>1, <3>3, <3>5, <3>6 DEF AdapterInv
  <2> QED
    BY <2>1, <2>2
<1>h. ASSUME LookAgain("directory again", MeasurementsDirectory, "target again") PROVE AdapterInv'
  <2>1. CASE FailProjection
    BY <1>3, <1>5, <1>h, <2>1 DEF LookAgain
  <2>2. CASE ~FailProjection
    <3>1. /\ adapter.phase = "directory again" /\ UNCHANGED tree
          /\ adapter' = [adapter EXCEPT !.phase = "target again", !.steady = adapter.steady]
      BY <1>3, <1>h, <2>2 DEF LookAgain
    <3>3. /\ DOMAIN adapter' = DOMAIN adapter /\ adapter'.phase = "target again" /\ adapter'.round = adapter.round
          /\ adapter'.stats = adapter.stats /\ adapter'.before = adapter.before /\ adapter'.judged = adapter.judged
          /\ adapter'.data = adapter.data /\ adapter'.steady = adapter.steady /\ adapter'.opened = adapter.opened
      BY <1>1, <3>1 DEF AdapterType
    <3>4. TargetSeen' /\ TargetSeen /\ CaseSeen' /\ CaseSeen
      BY <3>1, <3>3 DEF TargetSeen, CaseSeen
    <3>5. /\ TreeOK' /\ Stamped' /\ AdapterType' /\ FirstStats'[Target] = FirstStats[Target]
          /\ ObjectChanged(Target)' <=> ObjectChanged(Target)
          /\ CaseMoved' <=> CaseMoved
      BY <1>1, <3>1, <3>3, <3>4, AdapterSteady DEF AdapterType
    <3>6. TracesLeft' /\ SecondTells'
      BY <1>1, <1>4, <1>6, <3>1, <3>3, <3>4, <3>5 DEF TracesLeft, SecondTells
    <3> QED
      BY <1>1, <3>1, <3>3, <3>5, <3>6 DEF AdapterInv
  <2> QED
    BY <2>1, <2>2
<1>i. ASSUME LookAgain("target again", Target, "case again") PROVE AdapterInv'
  <2>1. CASE FailProjection
    BY <1>3, <1>5, <1>i, <2>1 DEF LookAgain
  <2>2. CASE ~FailProjection
    <3>1. /\ adapter.phase = "target again" /\ UNCHANGED tree /\ Stat(Target) = adapter.stats[Target]
          /\ adapter' = [adapter EXCEPT !.phase = "case again", !.steady = Target \notin late]
      BY <1>3, <1>i, <2>2 DEF LookAgain
    <3>2. ObjectChanged(Target) /\ adapter.round = 2 => adapter.stats[Target] # adapter.before.stats[Target]
      <4>1. FirstStats[Target].id # Missing
        BY <1>1, <1>3, <3>1, MomentFacts DEF AdapterType, TargetSeen
      <4>2. Stat(Target).id = Resolve(Target) /\ (Resolve(Target) # Missing => Stat(Target).stamp = object[<<Target, Resolve(Target)>>].stamp)
        BY DEF Stat, Nowhere
      <4> QED
        BY <4>1, <4>2, <3>1 DEF ObjectChanged, FirstStats
    <3>3. /\ DOMAIN adapter' = DOMAIN adapter /\ adapter'.phase = "case again" /\ adapter'.round = adapter.round
          /\ adapter'.stats = adapter.stats /\ adapter'.before = adapter.before /\ adapter'.judged = adapter.judged
          /\ adapter'.data = adapter.data /\ adapter'.steady = (Target \notin late) /\ adapter'.opened = adapter.opened
      BY <1>1, <3>1 DEF AdapterType
    <3>4. TargetSeen' /\ TargetSeen /\ CaseSeen' /\ CaseSeen
      BY <3>1, <3>3 DEF TargetSeen, CaseSeen
    <3>5. /\ TreeOK' /\ Stamped' /\ AdapterType' /\ FirstStats'[Target] = FirstStats[Target]
          /\ ObjectChanged(Target)' <=> ObjectChanged(Target)
          /\ CaseMoved' <=> CaseMoved
      BY <1>1, <3>1, <3>2, <3>3, <3>4, AdapterSteady DEF AdapterType
    <3>6. TracesLeft' /\ SecondTells'
      BY <1>1, <1>4, <1>6, <3>1, <3>2, <3>3, <3>4, <3>5 DEF TracesLeft, SecondTells
    <3> QED
      BY <1>1, <3>1, <3>3, <3>5, <3>6 DEF AdapterInv
  <2> QED
    BY <2>1, <2>2
<1>j. ASSUME LookAgain("case again", CaseDirectory, IF adapter.round = 1 THEN "validate" ELSE "compare") PROVE AdapterInv'
  <2>1. CASE FailProjection
    BY <1>3, <1>5, <1>j, <2>1 DEF LookAgain
  <2>2. CASE ~FailProjection
    <3> DEFINE next == IF adapter.round = 1 THEN "validate" ELSE "compare"
    <3>1. /\ adapter.phase = "case again" /\ UNCHANGED tree /\ Stat(CaseDirectory) = adapter.stats[CaseDirectory]
          /\ adapter' = [adapter EXCEPT !.phase = next, !.steady = adapter.steady]
      BY <1>3, <1>j, <2>2 DEF LookAgain
    <3>2. CaseMoved /\ adapter.round = 2 => adapter.stats[CaseDirectory] # adapter.before.stats[CaseDirectory]
      <4>1. FirstStats[CaseDirectory].id # Missing
        BY <1>1, <1>3, <3>1, MomentFacts DEF AdapterType, CaseSeen
      <4>2. /\ Stat(CaseDirectory).id = top
            /\ top # Missing => Stat(CaseDirectory).stamp = object[<<CaseDirectory, top>>].stamp
        BY AdapterFacts DEF Stat, Nowhere
      <4> QED
        BY <4>1, <4>2, <3>1 DEF CaseMoved, ObjectChanged, FirstStats
    <3>n. \/ adapter.round = 1 /\ next = "validate"
          \/ adapter.round = 2 /\ next = "compare"
      BY <1>1 DEF AdapterType
    <3> HIDE DEF next
    <3>3. /\ DOMAIN adapter' = DOMAIN adapter /\ adapter'.phase = next /\ adapter'.round = adapter.round
          /\ adapter'.stats = adapter.stats /\ adapter'.before = adapter.before /\ adapter'.judged = adapter.judged
          /\ adapter'.data = adapter.data /\ adapter'.steady = adapter.steady /\ adapter'.opened = adapter.opened
      BY <1>1, <3>1 DEF AdapterType
    <3>4. TargetSeen' /\ TargetSeen /\ CaseSeen' /\ CaseSeen
      BY <3>1, <3>3, <3>n DEF TargetSeen, CaseSeen
    <3>5. /\ TreeOK' /\ Stamped' /\ AdapterType' /\ FirstStats'[Target] = FirstStats[Target]
          /\ ObjectChanged(Target)' <=> ObjectChanged(Target)
          /\ CaseMoved' <=> CaseMoved
      BY <1>1, <3>1, <3>2, <3>3, <3>4, AdapterSteady DEF AdapterType
    <3>6. TracesLeft' /\ SecondTells'
      BY <1>1, <1>4, <1>6, <3>1, <3>2, <3>3, <3>4, <3>5, <3>n DEF TracesLeft, SecondTells
    <3> QED
      BY <1>1, <3>1, <3>3, <3>5, <3>6, <3>n DEF AdapterInv
  <2> QED
    BY <2>1, <2>2
<1>k. ASSUME ValidateMeasurement PROVE AdapterInv'
  <2>1. CASE FailProjection
    BY <1>3, <1>5, <1>k, <2>1 DEF ValidateMeasurement
  <2>2. CASE ~FailProjection
    <3> DEFINE judged == [adapter.judged EXCEPT ![1] = Contents(Target)]
    <3>1. /\ adapter.phase = "validate" /\ UNCHANGED tree
          /\ adapter' = [adapter EXCEPT !.phase = "evidence", !.judged = judged]
      BY <1>3, <1>k, <2>2 DEF ValidateMeasurement
    <3>2. DOMAIN judged = {1, 2} /\ judged[1] = Contents(Target)
      BY <1>1 DEF AdapterType
    <3> HIDE DEF judged
    <3>3. /\ DOMAIN adapter' = DOMAIN adapter /\ adapter'.phase = "evidence" /\ adapter'.round = adapter.round
          /\ adapter'.stats = adapter.stats /\ adapter'.before = adapter.before /\ adapter'.judged = judged
          /\ adapter'.data = adapter.data /\ adapter'.steady = adapter.steady /\ adapter'.opened = adapter.opened
      BY <1>1, <3>1 DEF AdapterType
    <3>4. TargetSeen' /\ TargetSeen /\ CaseSeen' /\ CaseSeen
      BY <3>1, <3>3 DEF TargetSeen, CaseSeen
    <3>5. /\ TreeOK' /\ Stamped' /\ AdapterType' /\ FirstStats'[Target] = FirstStats[Target]
          /\ ObjectChanged(Target)' <=> ObjectChanged(Target)
          /\ CaseMoved' <=> CaseMoved
      BY <1>1, <3>1, <3>2, <3>3, <3>4, AdapterSteady DEF AdapterType
    <3>6. TracesLeft' /\ SecondTells'
      BY <1>1, <1>4, <1>6, <3>1, <3>2, <3>3, <3>4, <3>5 DEF TracesLeft, SecondTells
    <3> QED
      BY <1>1, <3>1, <3>3, <3>5, <3>6 DEF AdapterInv
  <2> QED
    BY <2>1, <2>2
<1>l. CASE ValidateEvidence
  <2> DEFINE read == IF ReadableAt(EvidencePath) THEN Contents(EvidencePath) ELSE <<>>
             judged == [adapter.judged EXCEPT ![2] = read]
             before == [stats |-> adapter.stats, data |-> adapter.data]
  <2>1. /\ adapter.phase = "evidence" /\ UNCHANGED tree
        /\ adapter' = [adapter EXCEPT !.phase = "case", !.round = 2, !.judged = judged, !.before = before]
    BY <1>l DEF ValidateEvidence
  <2>2. DOMAIN judged = {1, 2} /\ judged[1] = adapter.judged[1] /\ before.stats = adapter.stats
    BY <1>1 DEF AdapterType
  <2> HIDE DEF judged, before
  <2>3. /\ DOMAIN adapter' = DOMAIN adapter /\ adapter'.phase = "case" /\ adapter'.round = 2
        /\ adapter'.stats = adapter.stats /\ adapter'.before = before
        /\ adapter'.judged = judged /\ adapter'.steady = adapter.steady
    BY <1>1, <2>1 DEF AdapterType
  <2>4. TargetSeen /\ CaseSeen /\ TargetSeen' /\ CaseSeen' /\ adapter.round = 1
    BY <2>1, <2>3 DEF TargetSeen, CaseSeen, AdapterInv
  <2>5. FirstStats' = FirstStats
    BY <2>2, <2>3, <2>4 DEF FirstStats
  <2>6. object' = object /\ top' = top /\ clock' = clock /\ TreeOK' /\ Stamped'
    BY <1>1, <1>4, <2>1, SameFiles DEF files
  <2>7. AdapterType'
    BY <1>1, <2>2, <2>3, <2>4, <2>5, <2>6 DEF AdapterType
  <2>8. (ObjectChanged(Target)' <=> ObjectChanged(Target)) /\ (CaseMoved' <=> CaseMoved)
    BY <2>5, <2>6 DEF ObjectChanged, CaseMoved
  <2>9. TracesLeft' /\ SecondTells'
    BY <1>1, <1>4, <1>6, <2>1, <2>2, <2>3, <2>4, <2>5, <2>8 DEF TracesLeft, SecondTells
  <2> QED
    BY <1>1, <2>3, <2>6, <2>7, <2>9 DEF AdapterInv
<1>m. ASSUME ProjectMeasurement PROVE AdapterInv'
  <2>1. CASE FailProjection
    BY <1>3, <1>5, <1>m, <2>1 DEF ProjectMeasurement
  <2>2. CASE ~FailProjection
    <3>1. /\ adapter.phase = "compare" /\ UNCHANGED tree /\ SameSnapshot
          /\ adapter' = [adapter EXCEPT !.phase = "projected"]
      BY <1>3, <1>m, <2>2 DEF ProjectMeasurement
    <3>3. /\ DOMAIN adapter' = DOMAIN adapter /\ adapter'.phase = "projected" /\ adapter'.round = adapter.round
          /\ adapter'.stats = adapter.stats /\ adapter'.before = adapter.before /\ adapter'.judged = adapter.judged
          /\ adapter'.data = adapter.data /\ adapter'.steady = adapter.steady /\ adapter'.opened = adapter.opened
      BY <1>1, <3>1 DEF AdapterType
    <3>4. TargetSeen' /\ TargetSeen /\ CaseSeen' /\ CaseSeen
      BY <3>1, <3>3 DEF TargetSeen, CaseSeen
    <3>5. /\ TreeOK' /\ Stamped' /\ AdapterType' /\ FirstStats'[Target] = FirstStats[Target]
          /\ ObjectChanged(Target)' <=> ObjectChanged(Target)
          /\ CaseMoved' <=> CaseMoved
      BY <1>1, <3>1, <3>3, <3>4, AdapterSteady DEF AdapterType
    <3>6. TracesLeft' /\ SecondTells'
      BY <1>1, <1>4, <1>6, <3>1, <3>3, <3>4, <3>5 DEF TracesLeft, SecondTells
    <3>7. SameSnapshot' /\ adapter.round = 2
      BY <3>1, <3>3 DEF SameSnapshot, AdapterInv
    <3> QED
      BY <1>1, <3>3, <3>5, <3>6, <3>7 DEF AdapterInv
  <2> QED
    BY <2>1, <2>2
<1> QED
  BY <1>a, <1>b, <1>c, <1>d, <1>e, <1>f, <1>g, <1>h, <1>i, <1>j, <1>k, <1>l, <1>m DEF AdapterStep, LookAtPath, LookAgainAtPath

LEMMA AdapterInitial == Init => AdapterInv
<1> SUFFICES ASSUME Init PROVE AdapterInv
  OBVIOUS
<1>1. TreeOK /\ Stamped
  <2>1. PICK present \in FilesFor[tool] : TreeInit(present)
    BY DEF Init
  <2> QED
    BY <2>1, TreeInitial
<1>2. adapter.phase = "reload" /\ adapter.round = 1
  BY DEF Init, AdapterInit
<1>3. AdapterType
  BY <1>2 DEF AdapterType, CaseSeen, TargetSeen, Init, AdapterInit, NoSnapshot
<1> QED
  BY <1>1, <1>2, <1>3 DEF AdapterInv, TracesLeft, TargetSeen, SecondTells

LEMMA AdapterKept == AdapterInv /\ [Next]_vars => AdapterInv'
<1> SUFFICES ASSUME AdapterInv, [Next]_vars PROVE AdapterInv'
  OBVIOUS
<1>1. CASE Adapter
  BY <1>1, AdapterStepKeeps DEF Adapter
<1>2. CASE Others /\ tool = "adapter"
  BY <1>2, AdapterOthers
<1>3. ASSUME tool # "adapter", UNCHANGED <<adapter, tool>> PROVE AdapterInv'
  BY <1>3 DEF AdapterInv
<1>4. CASE Scan \/ Seal \/ Baseline \/ (Others /\ tool # "adapter")
  BY <1>3, <1>4 DEF Scan, Seal, Baseline, Others
<1>5. CASE UNCHANGED vars
  <2>1. UNCHANGED <<tree, adapter, tool>>
    BY <1>5 DEF vars
  <2>2. object' = object /\ top' = top /\ clock' = clock /\ late' = late /\ adapter' = adapter /\ tool' = tool
    BY <2>1 DEF tree, files
  <2>3. Resolve(Target)' = Resolve(Target) /\ Contents(Target)' = Contents(Target)
    BY <2>2, SameFiles DEF files
  <2>4. TreeOK' = TreeOK /\ Stamped' = Stamped /\ AdapterType' = AdapterType /\ SameSnapshot' = SameSnapshot
    BY <2>2 DEF TreeOK, Stamped, AdapterType, FirstStats, CaseSeen, TargetSeen, SameSnapshot
  <2>5. TracesLeft' = TracesLeft /\ SecondTells' = SecondTells
    BY <2>2, <2>3 DEF TracesLeft, SecondTells, FirstStats, CaseMoved, ObjectChanged, TargetSeen
  <2> QED
    BY <2>2, <2>4, <2>5 DEF AdapterInv
<1> QED
  BY <1>1, <1>2, <1>4, <1>5 DEF Next

LEMMA AdapterImplies == AdapterInv => ProjectsWhatWasValidated
<1> SUFFICES ASSUME AdapterInv, adapter.phase = "projected"
             PROVE  adapter.judged[1] = adapter.data /\ adapter.steady
  BY DEF ProjectsWhatWasValidated
<1>1. SecondTells /\ adapter.round = 2 /\ SameSnapshot
  BY DEF AdapterInv
<1> QED
  BY <1>1 DEF SecondTells, SameSnapshot

(* The measurement that is projected is the one that was validated, for    *)
(* any tree and any number of changes by others.                           *)
THEOREM ProjectionSound == Spec => []ProjectsWhatWasValidated
<1>1. Init => AdapterInv
  BY AdapterInitial
<1>2. AdapterInv /\ [Next]_vars => AdapterInv'
  BY AdapterKept
<1>3. AdapterInv => ProjectsWhatWasValidated
  BY AdapterImplies
<1> QED
  BY <1>1, <1>2, <1>3, PTL DEF Spec

-----------------------------------------------------------------------------
(* The leakage audit.                                                      *)

Inside == UNION {Below(scan.roots[n]) \ {scan.roots[n]} : n \in DOMAIN scan.roots}

Harmless(q) ==
  /\ Stat(q).kind # "link"
  /\ Stat(q).kind # "none" => q \notin TellingPath
  /\ Regular(q) => Contents(q) \notin TellingData \cup BinaryData \cup HugeData

(* The audit has yet to meet q: it is below a root to be entered, below a  *)
(* directory whose listing is not checked, below an entry that is left, or *)
(* the file being read.                                                    *)
ToEnter(roots, n, q) ==
  \E k \in DOMAIN roots : k > Len(roots) - n /\ q \in Below(roots[k]) \ {roots[k]}

Holds(f, q) ==
  IF f.step = "entries" THEN \E r \in DOMAIN f.entries : q \in Below(r)
  ELSE q \in Below(f.dir) \ {f.dir}

OnStack(stack, q) == \E k \in DOMAIN stack : Holds(stack[k], q)

Ahead(q) ==
  \/ ToEnter(scan.roots, Len(scan.snapshots), q)
  \/ OnStack(scan.stack, q)
  \/ scan.file.path = q

FrameType(f) ==
  /\ DOMAIN f = {"dir", "expected", "step", "before", "begun", "entries"}
  /\ f.dir \in Directories
  /\ f.entries = [r \in DOMAIN f.entries |-> f.entries[r]]
  /\ DOMAIN f.begun \subseteq Names(f.dir) /\ DOMAIN f.entries \subseteq Names(f.dir)

FileType(f) ==
  /\ DOMAIN f = {"path", "step", "before", "opened", "data"}
  /\ f = NoFile \/ f.path \in Path

ScanType ==
  /\ DOMAIN scan = {"phase", "roots", "looked", "snapshots", "stack", "file", "findings"}
  /\ scan.roots \in Seq(Directories)
  /\ IsSeq(scan.snapshots) /\ Len(scan.snapshots) <= Len(scan.roots)
  /\ IsSeq(scan.stack) /\ \A k \in DOMAIN scan.stack : FrameType(scan.stack[k])
  /\ FileType(scan.file)

(* The listing in progress is that of the directory, unless a name in it   *)
(* has changed since the snapshot.                                         *)
Untouched(f) ==
  Resolve(f.dir) = f.before.id /\ object[<<f.dir, f.before.id>>].stamp = f.before.stamp

ListingTrue(f) ==
  f.step \in {"begin", "end", "listed"} =>
    /\ f.before.id \in Moment /\ f.before.id <= clock
    /\ f.before.stamp \in Moment /\ f.before.stamp <= clock
    /\ Untouched(f) => /\ f.step = "end" => DOMAIN f.begun = Listing(f.dir)
                       /\ f.step = "listed" => DOMAIN f.entries = Listing(f.dir)

(* What has been read of a file is what it holds, unless it was changed.   *)
ReadTrue(f) ==
  f # NoFile =>
    /\ f.before.kind = "file" /\ f.before.id \in Moment /\ f.before.id <= clock
    /\ f.before.stamp \in Moment /\ f.before.stamp <= clock
    /\ f.step # "open" => f.opened = f.before
    /\ f.step = "finish" /\ object[<<f.path, f.before.id>>].stamp = f.before.stamp =>
         f.data = object[<<f.path, f.before.id>>].data
    /\ f.path \in TellingPath => scan.findings # {}

Listings == \A k \in DOMAIN scan.stack : ListingTrue(scan.stack[k])

Covered ==
  /\ scan.phase = "walk" /\ scan.findings = {} =>
       \A q \in Inside : q \in late \/ Harmless(q) \/ Ahead(q)
  /\ scan.phase = "pass" => \A q \in Inside : q \in late \/ Harmless(q)

ScanInv ==
  /\ tool = "scan" => /\ TreeOK /\ Stamped /\ ScanType
                      /\ Listings /\ ReadTrue(scan.file) /\ Covered
                      /\ scan.phase \in {"first look", "second look"} => Len(scan.snapshots) < Len(scan.roots)
                      /\ scan.phase = "policy" => Len(scan.snapshots) = Len(scan.roots)
  /\ tool # "scan" => scan.phase = "first look"

LEMMA LeastEntry ==
  ASSUME NEW S \in SUBSET Nat, S # {}
  PROVE  (CHOOSE q \in S : \A r \in S : q <= r) \in S
<1>1. IsWellFoundedOn(OpToRel(<, Nat), Nat)
  BY NatLessThanWellFounded
<1>2. \E q \in S : \A r \in S : ~(<<r, q>> \in OpToRel(<, Nat))
  BY <1>1, WFMin
<1>3. \A a \in Nat, b \in Nat : a < b => <<a, b>> \in OpToRel(<, Nat)
  BY DEF OpToRel
<1>4. \E q \in S : \A r \in S : q <= r
  <2>1. PICK q \in S : \A r \in S : ~(<<r, q>> \in OpToRel(<, Nat))
    BY <1>2
  <2>2. ASSUME NEW r \in S PROVE q <= r
    <3>1. r \in Nat /\ q \in Nat /\ ~(r < q)
      BY <1>3, <2>1
    <3> QED
      BY <3>1
  <2> QED
    BY <2>1, <2>2
<1> QED
  BY <1>4

(* A listing that is not touched by a change was not touched before.       *)
LEMMA ListingStays ==
  ASSUME TreeOK, NEW p, Change(p), NEW f, f.dir \in Directories, ListingTrue(f)
  PROVE  ListingTrue(f)'
<1> DEFINE d == f.dir
           i == f.before.id
           t == f.before.stamp
<1> SUFFICES ASSUME f.step \in {"begin", "end", "listed"}
             PROVE  /\ i \in Moment /\ i <= clock' /\ t \in Moment /\ t <= clock'
                    /\ Untouched(f)' => /\ f.step = "end" => DOMAIN f.begun = Listing(d)'
                                        /\ f.step = "listed" => DOMAIN f.entries = Listing(d)'
  BY DEF ListingTrue
<1>1. clock \in Nat /\ clock' = clock + 1 /\ p \in Path /\ d \in Path
  BY MomentFacts DEF TreeOK, Change, Directories
<1>2. /\ i \in Moment /\ i <= clock /\ i # clock + 1 /\ i <= clock + 1
      /\ t \in Moment /\ t <= clock /\ t # clock + 1 /\ t <= clock + 1
      /\ i # Missing
  BY <1>1, MomentFacts DEF ListingTrue
<1>3. ASSUME Untouched(f)'
      PROVE  Untouched(f) /\ Listing(d)' = Listing(d)
  <2>1. Resolve(d)' = i /\ object'[<<d, i>>].stamp = t
    BY <1>3 DEF Untouched
  <2>2. object'[<<d, i>>] = object[<<d, i>>]
    BY <1>1, <1>2, <2>1 DEF Change
  <2>3. d \notin Below(p)
    <3>1. d = Top \/ d \in Names(Top)
      BY PathFacts
    <3>2. p # Top
      BY <1>2, <2>1, <3>1 DEF Change
    <3>3. d # p
      BY <1>2, <2>1, <3>2 DEF Change
    <3> QED
      BY <1>1, <3>1, <3>2, <3>3, BelowFacts DEF Names
  <2>4. Resolve(d) = i
    BY <1>1, <2>1, <2>3, Unmoved
  <2>5. ASSUME NEW q \in Names(d) PROVE Resolve(q)' = Resolve(q)
    <3>1. q \in Path \ {Top} /\ Parent[q] = d
      BY DEF Names
    <3> QED
      BY <2>1, <2>2, <2>4, <3>1, ResolveStep DEF Leads
  <2> QED
    BY <2>1, <2>2, <2>4, <2>5 DEF Untouched, Listing
<1> QED
  BY <1>1, <1>2, <1>3 DEF ListingTrue

LEMMA ReadStays ==
  ASSUME TreeOK, NEW p, Change(p), UNCHANGED scan, NEW f, FileType(f), ReadTrue(f)
  PROVE  ReadTrue(f)'
<1> DEFINE i == f.before.id
           t == f.before.stamp
<1> SUFFICES ASSUME f # NoFile
             PROVE  /\ i <= clock' /\ t <= clock'
                    /\ f.step = "finish" /\ object'[<<f.path, i>>].stamp = t => f.data = object'[<<f.path, i>>].data
  BY DEF ReadTrue
<1>1. clock \in Nat /\ clock' = clock + 1 /\ f.path \in Path
  BY MomentFacts DEF TreeOK, Change, FileType
<1>2. /\ i \in Moment /\ i <= clock /\ i # clock + 1 /\ i <= clock + 1
      /\ t \in Moment /\ t <= clock /\ t # clock + 1 /\ t <= clock + 1
  BY <1>1, MomentFacts DEF ReadTrue
<1>3. object'[<<f.path, i>>] = object[<<f.path, i>>] \/ object'[<<f.path, i>>].stamp = clock + 1
  BY <1>1, <1>2 DEF Change
<1> QED
  BY <1>1, <1>2, <1>3 DEF ReadTrue

(* What is ahead, or harmless, stays so, unless it is changed.             *)
LEMMA ScanOthers ==
  ASSUME ScanInv, tool = "scan", Others
  PROVE  ScanInv'
<1>1. TreeOK /\ Stamped /\ ScanType /\ Listings /\ ReadTrue(scan.file) /\ Covered /\ UNCHANGED <<scan, tool>>
  BY DEF ScanInv, Others
<1>2. PICK p \in Path : Change(p)
  BY <1>1, OthersChange
<1>3. TreeOK' /\ Stamped' /\ late' = late \cup Below(p)
  BY <1>1, <1>2 DEF Change
<1>4. ScanType'
  BY <1>1 DEF ScanType
<1>5. Listings'
  <2>1. ASSUME NEW k \in DOMAIN scan.stack PROVE ListingTrue(scan.stack[k])'
    <3> DEFINE f == scan.stack[k]
    <3>1. f.dir \in Directories /\ ListingTrue(f)
      BY <1>1 DEF ScanType, FrameType, Listings
    <3>2. UNCHANGED scan
      BY <1>1
    <3> QED
      BY <1>1, <1>2, <3>1, <3>2, ListingStays
  <2> QED
    BY <1>1, <2>1 DEF Listings
<1>6. ReadTrue(scan.file)'
  BY <1>1, <1>2, ReadStays DEF ScanType
<1>7. Covered'
  <2>1. \A q \in Inside : q \in Path
    BY <1>1 DEF Inside, Below
  <2>2. ASSUME NEW q \in Path \ Below(p), Harmless(q) PROVE Harmless(q)'
    <3>1. Regular(q) => Resolve(q) # Missing
      BY DEF Regular, Stat, Nowhere
    <3> QED
      BY <1>1, <1>2, <2>2, <3>1, Unmoved DEF Harmless
  <2>3. Inside' = Inside /\ \A q : Ahead(q)' = Ahead(q)
    BY <1>1 DEF Inside, Ahead
  <2> QED
    BY <1>1, <1>3, <2>1, <2>2, <2>3 DEF Covered
<1> QED
  BY <1>1, <1>3, <1>4, <1>5, <1>6, <1>7 DEF ScanInv

(* A stack is a sequence that is not empty.                                *)
LEMMA StackFacts ==
  ASSUME NEW s, IsSeq(s), s # <<>>
  PROVE  /\ Len(s) \in Nat \ {0} /\ DOMAIN s = 1..Len(s)
         /\ \E T : s \in Seq(T)
<1>1. s \in Seq({s[n] : n \in DOMAIN s})
  BY DEF IsSeq
<1> DEFINE T == {s[n] : n \in DOMAIN s}
<1> HIDE DEF T
<1>2. s \in Seq(T)
  BY <1>1 DEF T
<1> QED
  BY <1>2

(* What u is if only the top of s, of height n, is replaced by g.          *)
Topped(s, n, g, u) ==
  /\ IsSeq(u) /\ DOMAIN u = 1..n /\ Len(u) = n /\ u[n] = g
  /\ \A k \in 1..(n - 1) : u[k] = s[k]

LEMMA TopReplaced ==
  ASSUME NEW s, IsSeq(s), s # <<>>, NEW g
  PROVE  Topped(s, Len(s), g, [s EXCEPT ![Len(s)] = g])
<1> DEFINE u == [s EXCEPT ![Len(s)] = g]
           R == {u[k] : k \in DOMAIN u}
<1>1. Len(s) \in Nat \ {0} /\ DOMAIN s = 1..Len(s)
  BY StackFacts
<1>2. DOMAIN u = 1..Len(s) /\ u[Len(s)] = g /\ \A k \in 1..(Len(s) - 1) : u[k] = s[k]
  BY <1>1
<1>3. u \in [1..Len(s) -> R]
  BY <1>2
<1> HIDE DEF R
<1>4. u \in Seq(R)
  BY <1>1, <1>3, SeqIntro
<1>5. IsSeq(u)
  BY <1>4 DEF IsSeq, R
<1> HIDE DEF u
<1>6. Len(u) = Len(s)
  BY <1>1, <1>2, <1>4
<1> QED
  BY <1>2, <1>5, <1>6 DEF Topped, u

LEMMA SubsequenceIs ==
  ASSUME NEW T, NEW x \in Seq(T)
  PROVE  IsSeq(x) /\ Len(x) \in Nat /\ DOMAIN x = 1..Len(x)
<1> DEFINE R == {x[k] : k \in DOMAIN x}
<1>1. x \in [1..Len(x) -> R] /\ Len(x) \in Nat /\ DOMAIN x = 1..Len(x)
  OBVIOUS
<1> HIDE DEF R
<1>2. x \in Seq(R)
  BY <1>1, SeqIntro
<1> QED
  BY <1>1, <1>2 DEF IsSeq, R

LEMMA TopRemoved ==
  ASSUME NEW s, IsSeq(s), s # <<>>
  PROVE  LET u == SubSeq(s, 1, Len(s) - 1)
         IN  IsSeq(u) /\ DOMAIN u = 1..(Len(s) - 1) /\ \A k \in 1..(Len(s) - 1) : u[k] = s[k]
<1>1. PICK T : s \in Seq(T)
  BY StackFacts
<1> DEFINE u == SubSeq(s, 1, Len(s) - 1)
<1>0. Len(s) \in Nat \ {0} /\ DOMAIN s = 1..Len(s)
  BY StackFacts
<1>2. u \in Seq(T) /\ Len(u) = Len(s) - 1 /\ \A k \in 1..(Len(s) - 1) : u[k] = s[k]
  BY <1>0, <1>1
<1> HIDE DEF u
<1>3. IsSeq(u) /\ DOMAIN u = 1..(Len(s) - 1)
  BY <1>2, SubsequenceIs
<1> QED
  BY <1>2, <1>3 DEF u

LEMMA HeadRemoved ==
  ASSUME NEW s, IsSeq(s), s # <<>>
  PROVE  IsSeq(Tail(s)) /\ Len(Tail(s)) = Len(s) - 1
<1>1. PICK T : s \in Seq(T)
  BY StackFacts
<1>2. Tail(s) \in Seq(T) /\ Len(Tail(s)) = Len(s) - 1
  BY <1>1, StackFacts
<1> QED
  BY <1>2, SubsequenceIs

LEMMA OneFrame ==
  ASSUME NEW g
  PROVE  IsSeq(<<g>>) /\ DOMAIN <<g>> = 1..1 /\ <<g>>[1] = g
BY DEF IsSeq

LEMMA FramesKept ==
  ASSUME ScanType, Listings, UNCHANGED files, late' \subseteq late,
         \A k \in DOMAIN scan'.stack :
           \/ k \in DOMAIN scan.stack /\ scan'.stack[k] = scan.stack[k]
           \/ FrameType(scan'.stack[k]) /\ ListingTrue(scan.stack[k])'
  PROVE  Listings' /\ \A k \in DOMAIN scan'.stack : FrameType(scan'.stack[k])
<1>1. object' = object /\ clock' = clock /\ \A q : Resolve(q)' = Resolve(q)
  BY SameFiles DEF files
<1>2. \A q : Listing(q)' = Listing(q)
  BY <1>1 DEF Listing
<1>3. ASSUME NEW k \in DOMAIN scan'.stack PROVE ListingTrue(scan.stack[k])' /\ FrameType(scan'.stack[k])
  <2>1. CASE k \in DOMAIN scan.stack /\ scan'.stack[k] = scan.stack[k]
    <3>1. ListingTrue(scan.stack[k]) /\ FrameType(scan.stack[k])
      BY <2>1 DEF Listings, ScanType
    <3>2. ListingTrue(scan.stack[k])'
      BY <1>1, <1>2, <2>1, <3>1 DEF ListingTrue, Untouched
    <3> QED
      BY <2>1, <3>1, <3>2
  <2> QED
    BY <1>3, <2>1
<1> QED
  BY <1>3 DEF Listings

LEMMA ReadKept ==
  ASSUME ReadTrue(scan.file), UNCHANGED files, scan'.file = scan.file, scan.findings \subseteq scan'.findings
  PROVE  ReadTrue(scan.file)'
BY DEF ReadTrue, files

LEMMA CoverKept ==
  ASSUME Covered, scan.phase = "walk", scan'.phase = "walk", UNCHANGED tree, scan'.roots = scan.roots,
         scan.findings \subseteq scan'.findings,
         scan'.findings = {} => \A q \in Inside : Ahead(q) => Harmless(q) \/ Ahead(q)'
  PROVE  Covered'
<1>1. late' = late /\ UNCHANGED files
  BY DEF tree, files
<1>2. \A q : Harmless(q)' <=> Harmless(q)
  BY <1>1, SameFiles DEF Harmless, Regular
<1>3. Inside' = Inside
  BY DEF Inside
<1> QED
  BY <1>1, <1>2, <1>3 DEF Covered

(* Steps of the walk that leave a directory, or the audit, with a finding. *)
LEMMA ScanGivesUp ==
  ASSUME ScanInv, tool = "scan", UNCHANGED <<tree, tool>>, Busy, scan.stack # <<>>,
         NEW F, F # {},
         \/ End("error")
         \/ scan' = [scan EXCEPT !.stack = Popped, !.findings = @ \cup F]
  PROVE  ScanInv'
<1>1. TreeOK /\ Stamped /\ ScanType /\ Listings /\ ReadTrue(scan.file) /\ Covered /\ tool' = "scan"
  BY DEF ScanInv
<1>2. UNCHANGED files /\ late' = late /\ TreeOK' /\ Stamped'
  BY <1>1, SameFiles DEF tree, files
<1>3. scan.phase = "walk" /\ scan.file = NoFile
  BY DEF Busy
<1>4. CASE End("error")
  <2>1. /\ DOMAIN scan' = DOMAIN scan /\ scan'.phase = "error" /\ scan'.roots = scan.roots
        /\ scan'.snapshots = scan.snapshots /\ scan'.stack = scan.stack /\ scan'.file = scan.file
        /\ scan'.findings = scan.findings
    BY <1>1, <1>4 DEF End, ScanType
  <2>2. Listings'
    BY <1>1, <1>2, <2>1, FramesKept
  <2>3. ScanType' /\ ReadTrue(scan.file)' /\ Covered'
    BY <1>1, <1>2, <1>3, <2>1 DEF ScanType, ReadTrue, Covered
  <2> QED
    BY <1>1, <1>2, <2>1, <2>2, <2>3 DEF ScanInv
<1>5. CASE scan' = [scan EXCEPT !.stack = Popped, !.findings = @ \cup F]
  <2>1. /\ DOMAIN scan' = DOMAIN scan /\ scan'.phase = "walk" /\ scan'.roots = scan.roots
        /\ scan'.snapshots = scan.snapshots /\ scan'.stack = Popped /\ scan'.file = scan.file
        /\ scan'.findings # {}
    BY <1>1, <1>3, <1>5 DEF ScanType
  <2>2. IsSeq(Popped) /\ \A k \in DOMAIN Popped : k \in DOMAIN scan.stack /\ Popped[k] = scan.stack[k]
    <3>1. IsSeq(scan.stack) /\ Depth \in Nat \ {0} /\ DOMAIN scan.stack = 1..Depth
      BY <1>1, StackFacts DEF ScanType, Depth
    <3>2. IsSeq(Popped) /\ DOMAIN Popped = 1..(Depth - 1) /\ \A k \in 1..(Depth - 1) : Popped[k] = scan.stack[k]
      BY <3>1, TopRemoved DEF Popped, Depth
    <3> QED
      BY <3>1, <3>2
  <2>3. Listings' /\ \A k \in DOMAIN scan'.stack : FrameType(scan'.stack[k])
    BY <1>1, <1>2, <2>1, <2>2, FramesKept
  <2>4. ScanType' /\ ReadTrue(scan.file)' /\ Covered'
    BY <1>1, <1>2, <1>3, <2>1, <2>2, <2>3 DEF ScanType, ReadTrue, Covered
  <2> QED
    BY <1>1, <1>2, <2>1, <2>3, <2>4 DEF ScanInv
<1> QED
  BY <1>4, <1>5

(* Steps of the walk that change the frame in work to g.                   *)
LEMMA FrameChanges ==
  ASSUME ScanInv, tool = "scan", UNCHANGED <<tree, tool>>, Busy, scan.stack # <<>>,
         Current.step # "entries",
         NEW g, FrameType(g), g.dir = Current.dir, g.step # "entries",
         scan' = [scan EXCEPT !.stack = [scan.stack EXCEPT ![Depth] = g]],
         ListingTrue(scan.stack[Depth])'
  PROVE  ScanInv'
<1> DEFINE u == [scan.stack EXCEPT ![Depth] = g]
<1>1. TreeOK /\ Stamped /\ ScanType /\ Listings /\ ReadTrue(scan.file) /\ Covered /\ tool' = "scan"
  BY DEF ScanInv
<1>2. UNCHANGED files /\ late' = late /\ TreeOK' /\ Stamped'
  BY <1>1, SameFiles DEF tree, files
<1>3. scan.phase = "walk" /\ scan.file = NoFile
  BY DEF Busy
<1>4. /\ Depth \in Nat \ {0} /\ DOMAIN scan.stack = 1..Depth
      /\ IsSeq(u) /\ DOMAIN u = 1..Depth /\ Len(u) = Depth /\ u[Depth] = g /\ \A k \in 1..(Depth - 1) : u[k] = scan.stack[k]
  <2>1. IsSeq(scan.stack)
    BY <1>1 DEF ScanType
  <2>2. Topped(scan.stack, Depth, g, u)
    BY <2>1, TopReplaced DEF Depth
  <2>3. Depth \in Nat \ {0} /\ DOMAIN scan.stack = 1..Depth
    BY <2>1, StackFacts DEF Depth
  <2> HIDE DEF u
  <2> QED
    BY <2>2, <2>3 DEF Topped
<1> HIDE DEF u
<1>5. /\ DOMAIN scan' = DOMAIN scan /\ scan'.phase = "walk" /\ scan'.roots = scan.roots
      /\ scan'.snapshots = scan.snapshots /\ scan'.stack = u /\ scan'.file = scan.file
      /\ scan'.findings = scan.findings
  BY <1>1, <1>3 DEF ScanType, u
<1>6. \A k \in DOMAIN scan'.stack :
        \/ k \in DOMAIN scan.stack /\ scan'.stack[k] = scan.stack[k]
        \/ FrameType(scan'.stack[k]) /\ ListingTrue(scan.stack[k])'
  <2>1. ASSUME NEW k \in 1..Depth
        PROVE  \/ u[k] = scan.stack[k]
               \/ FrameType(u[k]) /\ ListingTrue(scan.stack[k])'
    <3>1. CASE k = Depth
      <4>1. k = Depth'
        BY <1>4, <1>5, <3>1 DEF Depth
      <4> QED
        BY <1>4, <3>1, <4>1
    <3>2. CASE k # Depth
      BY <1>4, <3>2
    <3> QED
      BY <3>1, <3>2
  <2> QED
    BY <1>4, <1>5, <2>1
<1>7. Listings' /\ \A k \in DOMAIN scan'.stack : FrameType(scan'.stack[k])
  BY <1>1, <1>2, <1>6, FramesKept
<1>8. ASSUME NEW q, Ahead(q) PROVE Ahead(q)'
  <2>1. \A k \in 1..Depth : Holds(scan.stack[k], q) => Holds(u[k], q)
    <3> SUFFICES ASSUME NEW k \in 1..Depth, Holds(scan.stack[k], q)
                 PROVE  Holds(u[k], q)
      OBVIOUS
    <3>1. CASE k = Depth
      BY <1>4, <3>1 DEF Current, Holds
    <3>2. CASE k # Depth
      BY <1>4, <3>2
    <3> QED
      BY <3>1, <3>2
  <2>2. OnStack(scan.stack, q) => OnStack(u, q)
    BY <1>4, <2>1 DEF OnStack
  <2> QED
    BY <1>5, <1>8, <2>2 DEF Ahead
<1>9. Covered'
  BY <1>1, <1>3, <1>5, <1>8, CoverKept
<1>10. ScanType' /\ ReadTrue(scan.file)'
  BY <1>1, <1>3, <1>4, <1>5, <1>7 DEF ScanType, ReadTrue
<1> QED
  BY <1>1, <1>2, <1>5, <1>7, <1>9, <1>10 DEF ScanInv

(* The kinds of the two sorts of paths.                                    *)
LEMMA KindFacts ==
  ASSUME TreeOK, NEW p \in Path
  PROVE  /\ Stat(p).kind \in {"none", "file", "link", "dir"}
         /\ Stat(p).kind = "dir" => p \in Directories
         /\ Stat(p).kind = "file" => p \notin Directories
         /\ Stat(p).kind # "none" => Stat(p) # Nowhere /\ Resolve(p) # Missing
         /\ Resolve(p) = Missing => Stat(p) = Nowhere
<1>1. CASE Resolve(p) = Missing
  BY <1>1 DEF Stat, Nowhere
<1>2. CASE Resolve(p) # Missing
  <2>1. Fits(p, object[<<p, Resolve(p)>>])
    BY <1>2, ResolveType DEF TreeOK
  <2>2. Stat(p).kind = object[<<p, Resolve(p)>>].kind
    BY <1>2 DEF Stat
  <2> QED
    BY <1>2, <2>1, <2>2 DEF Fits, WellFormed, Nowhere
<1> QED
  BY <1>1, <1>2

(* Nothing is below a path that is no directory; below a directory there   *)
(* are the paths below its names.                                          *)
LEMMA BelowNames ==
  ASSUME NEW d \in Path, NEW q \in Below(d) \ {d}
  PROVE  /\ d \in Directories
         /\ \E r \in Names(d) : q \in Below(r)
<1>1. q \in Path /\ (q \in Names(d) \/ (q # Top /\ Parent[q] \in Names(d)))
  BY DEF Below
<1>2. CASE q \in Names(d)
  BY <1>1, <1>2, BelowFacts DEF Directories
<1>3. CASE q # Top /\ Parent[q] \in Names(d)
  <2>1. q \in Names(Parent[q])
    BY <1>1, <1>3, PathFacts
  <2> QED
    BY <1>1, <1>3, <2>1 DEF Below, Directories
<1> QED
  BY <1>1, <1>2, <1>3

(* What is below a name that leads nowhere is not there.                   *)
LEMMA NothingBelow ==
  ASSUME TreeOK, NEW r \in Path, Resolve(r) = Missing, NEW q \in Below(r)
  PROVE  Harmless(q)
<1>1. \A a \in Path \ {Top} : Resolve(Parent[a]) = Missing => Resolve(a) = Missing
  BY ResolveStep DEF Leads
<1>2. q \in Path /\ Resolve(q) = Missing
  BY <1>1, BelowFacts, TreeAssumption DEF Below
<1> QED
  BY <1>2, KindFacts DEF Harmless, Regular, Nowhere

(* The end of the audit, or of a phase of it.                              *)
LEMMA ScanEnds ==
  ASSUME ScanInv, tool = "scan", UNCHANGED <<tree, tool>>, NEW r \in {"error", "walk", "pass", "fail"}, End(r),
         Covered'
  PROVE  ScanInv'
<1>1. TreeOK /\ Stamped /\ ScanType /\ Listings /\ ReadTrue(scan.file) /\ tool' = "scan"
  BY DEF ScanInv
<1>2. UNCHANGED files /\ late' = late /\ TreeOK' /\ Stamped'
  BY <1>1, SameFiles DEF tree, files
<1>3. /\ DOMAIN scan' = DOMAIN scan /\ scan'.phase = r /\ scan'.roots = scan.roots
      /\ scan'.snapshots = scan.snapshots /\ scan'.stack = scan.stack /\ scan'.file = scan.file
      /\ scan'.findings = scan.findings
  BY <1>1 DEF End, ScanType
<1>4. Listings'
  BY <1>1, <1>2, <1>3, FramesKept
<1>5. ScanType' /\ ReadTrue(scan.file)'
  BY <1>1, <1>2, <1>3, ReadKept DEF ScanType
<1> QED
  BY <1>1, <1>2, <1>3, <1>4, <1>5 DEF ScanInv

(* The file in work is done with.                                          *)
LEMMA FileEnds ==
  ASSUME ScanInv, tool = "scan", UNCHANGED <<files, tool>>, late' \subseteq late, scan.phase = "walk",
         NEW F, scan' = [scan EXCEPT !.file = NoFile, !.findings = @ \cup F],
         F = {} => Covered'
  PROVE  ScanInv'
<1>1. TreeOK /\ Stamped /\ ScanType /\ Listings /\ tool' = "scan"
  BY DEF ScanInv
<1>2. TreeOK' /\ Stamped'
  BY <1>1, SameFiles
<1>3. /\ DOMAIN scan' = DOMAIN scan /\ scan'.phase = "walk" /\ scan'.roots = scan.roots
      /\ scan'.snapshots = scan.snapshots /\ scan'.stack = scan.stack /\ scan'.file = NoFile
      /\ scan'.findings = scan.findings \cup F
  BY <1>1 DEF ScanType
<1>4. Listings'
  BY <1>1, <1>3, FramesKept
<1>5. ScanType' /\ ReadTrue(scan.file)'
  BY <1>1, <1>3 DEF ScanType, ReadTrue, FileType, NoFile
<1>6. Covered'
  BY <1>3 DEF Covered
<1> QED
  BY <1>1, <1>2, <1>3, <1>4, <1>5, <1>6 DEF ScanInv

(* The file in work goes on to another step.                               *)
LEMMA FileGoesOn ==
  ASSUME ScanInv, tool = "scan", UNCHANGED <<tree, tool>>, scan.phase = "walk",
         NEW f, scan' = [scan EXCEPT !.file = f], FileType(f), f.path = scan.file.path,
         ReadTrue(scan.file)'
  PROVE  ScanInv'
<1>1. TreeOK /\ Stamped /\ ScanType /\ Listings /\ Covered /\ tool' = "scan"
  BY DEF ScanInv
<1>2. UNCHANGED files /\ late' = late /\ TreeOK' /\ Stamped'
  BY <1>1, SameFiles DEF tree, files
<1>3. /\ DOMAIN scan' = DOMAIN scan /\ scan'.phase = "walk" /\ scan'.roots = scan.roots
      /\ scan'.snapshots = scan.snapshots /\ scan'.stack = scan.stack /\ scan'.file = f
      /\ scan'.findings = scan.findings
  BY <1>1 DEF ScanType
<1>4. Listings'
  BY <1>1, <1>2, <1>3, FramesKept
<1>5. \A q : Ahead(q) => Ahead(q)'
  BY <1>3 DEF Ahead
<1>6. ScanType' /\ Covered'
  BY <1>1, <1>3, <1>5, CoverKept DEF ScanType
<1> QED
  BY <1>1, <1>2, <1>3, <1>4, <1>6 DEF ScanInv

LEMMA ScanPrepares ==
  ASSUME ScanInv, tool = "scan", UNCHANGED tool, LookAtRoot \/ SnapshotRoot \/ LoadPolicy \/ EnterRoot
  PROVE  ScanInv'
<1>1. /\ TreeOK /\ Stamped /\ ScanType /\ Listings /\ ReadTrue(scan.file) /\ Covered
      /\ tool' = "scan" /\ UNCHANGED tree
  BY DEF ScanInv, LookAtRoot, SnapshotRoot, LoadPolicy, EnterRoot
<1>2. UNCHANGED files /\ late' = late /\ TreeOK' /\ Stamped'
  BY <1>1, SameFiles DEF tree, files
<1>3. /\ Len(scan.roots) \in Nat /\ DOMAIN scan.roots = 1..Len(scan.roots)
      /\ Len(scan.snapshots) \in Nat
  BY <1>1, AppendAny DEF ScanType
<1>4. ASSUME End("error") PROVE ScanInv'
  <2>1. Covered'
    BY <1>1, <1>4 DEF End, ScanType, Covered
  <2> QED
    BY <1>1, <1>4, <2>1, ScanEnds
<1>a. CASE LookAtRoot
  <2> DEFINE s == Stat(scan.roots[Len(scan.snapshots) + 1])
  <2>1. scan.phase = "first look" /\ (End("error") \/ scan' = [scan EXCEPT !.phase = "second look", !.looked = s])
    BY <1>a DEF LookAtRoot
  <2> HIDE DEF s
  <2>2. CASE scan' = [scan EXCEPT !.phase = "second look", !.looked = s]
    <3>1. /\ DOMAIN scan' = DOMAIN scan /\ scan'.phase = "second look" /\ scan'.roots = scan.roots
          /\ scan'.snapshots = scan.snapshots /\ scan'.stack = scan.stack /\ scan'.file = scan.file
          /\ scan'.findings = scan.findings
      BY <1>1, <2>2 DEF ScanType
    <3>2. Listings' /\ ReadTrue(scan.file)'
      BY <1>1, <1>2, <3>1, FramesKept, ReadKept
    <3>3. ScanType' /\ Covered'
      BY <1>1, <3>1 DEF ScanType, Covered
    <3> QED
      BY <1>1, <1>2, <2>1, <3>1, <3>2, <3>3 DEF ScanInv
  <2> QED
    BY <1>4, <2>1, <2>2
<1>b. CASE SnapshotRoot
  <2> DEFINE s == Stat(scan.roots[Len(scan.snapshots) + 1])
             snapshots == Append(scan.snapshots, s)
             phase == IF Len(scan.snapshots) + 1 = Len(scan.roots) THEN "policy" ELSE "first look"
  <2>1. /\ scan.phase = "second look"
        /\ \/ End("error")
           \/ scan' = [scan EXCEPT !.phase = phase, !.looked = <<>>, !.snapshots = snapshots]
    BY <1>b DEF SnapshotRoot
  <2>2. IsSeq(snapshots) /\ Len(snapshots) = Len(scan.snapshots) + 1
    BY <1>1, AppendAny DEF ScanType
  <2>3. /\ Len(snapshots) <= Len(scan.roots)
        /\ \/ phase = "policy" /\ Len(snapshots) = Len(scan.roots)
           \/ phase = "first look" /\ Len(snapshots) < Len(scan.roots)
    <3>1. Len(scan.snapshots) < Len(scan.roots)
      BY <1>1, <2>1 DEF ScanInv
    <3> HIDE DEF snapshots
    <3> QED
      BY <1>3, <2>2, <3>1
  <2> HIDE DEF snapshots, phase
  <2>4. CASE scan' = [scan EXCEPT !.phase = phase, !.looked = <<>>, !.snapshots = snapshots]
    <3>1. /\ DOMAIN scan' = DOMAIN scan /\ scan'.phase = phase /\ scan'.roots = scan.roots
          /\ scan'.snapshots = snapshots /\ scan'.stack = scan.stack /\ scan'.file = scan.file
          /\ scan'.findings = scan.findings
      BY <1>1, <2>4 DEF ScanType
    <3>2. Listings' /\ ReadTrue(scan.file)'
      BY <1>1, <1>2, <3>1, FramesKept, ReadKept
    <3>3. ScanType' /\ Covered'
      BY <1>1, <2>2, <2>3, <3>1 DEF ScanType, Covered
    <3> QED
      BY <1>1, <1>2, <2>3, <3>1, <3>2, <3>3 DEF ScanInv
  <2> QED
    BY <1>4, <2>1, <2>4
<1>c. CASE LoadPolicy
  <2>1. CASE End("error")
    BY <1>4, <2>1
  <2>2. CASE End("walk")
    <3>1. /\ scan'.roots = scan.roots /\ scan'.snapshots = scan.snapshots /\ scan'.phase = "walk"
          /\ Len(scan.snapshots) = Len(scan.roots)
      BY <1>1, <1>c, <2>2 DEF End, ScanType, LoadPolicy, ScanInv
    <3>2. ASSUME NEW q \in Inside' PROVE Ahead(q)'
      <4>1. PICK n \in DOMAIN scan.roots : q \in Below(scan.roots[n]) \ {scan.roots[n]}
        BY <3>1 DEF Inside
      <4>2. n > Len(scan.roots) - Len(scan.roots)
        BY <1>3
      <4> QED
        BY <3>1, <4>1, <4>2 DEF Ahead, ToEnter
    <3>3. Covered'
      BY <3>1, <3>2 DEF Covered
    <3> QED
      BY <1>1, <2>2, <3>3, ScanEnds
  <2> QED
    BY <1>c, <2>1, <2>2 DEF LoadPolicy
<1>d. CASE EnterRoot
  <2> DEFINE n == Len(scan.roots) - Len(scan.snapshots) + 1
             g == Frame(scan.roots[n], Head(scan.snapshots))
  <2>1. /\ scan.phase = "walk" /\ scan.file = NoFile /\ Len(scan.stack) = 0 /\ scan.snapshots # <<>>
        /\ scan' = [scan EXCEPT !.stack = <<g>>, !.snapshots = Tail(@)]
    BY <1>d DEF EnterRoot, Busy, Depth
  <2>2. /\ Len(scan.snapshots) \in Nat \ {0} /\ IsSeq(Tail(scan.snapshots))
        /\ Len(Tail(scan.snapshots)) = Len(scan.snapshots) - 1
    BY <1>1, <2>1, StackFacts, HeadRemoved DEF ScanType
  <2>3. n \in DOMAIN scan.roots /\ scan.roots[n] \in Directories
    BY <1>1, <1>3, <2>2 DEF ScanType
  <2>4. FrameType(g) /\ g.step = "snapshot" /\ g.dir = scan.roots[n]
    <3>1. <<>> = [r \in DOMAIN <<>> |-> <<>>[r]] /\ DOMAIN <<>> = {}
      OBVIOUS
    <3> QED
      BY <2>3, <3>1 DEF FrameType, Frame
  <2> HIDE DEF g
  <2>5. /\ DOMAIN scan' = DOMAIN scan /\ scan'.phase = "walk" /\ scan'.roots = scan.roots
        /\ scan'.snapshots = Tail(scan.snapshots) /\ scan'.stack = <<g>> /\ scan'.file = scan.file
        /\ scan'.findings = scan.findings
    BY <1>1, <2>1 DEF ScanType
  <2>6. IsSeq(<<g>>) /\ DOMAIN <<g>> = 1..1 /\ <<g>>[1] = g
    BY OneFrame
  <2>7. \A k \in DOMAIN scan'.stack : FrameType(scan'.stack[k]) /\ ListingTrue(scan.stack[k])'
    BY <2>4, <2>5, <2>6 DEF ListingTrue
  <2>8. Listings' /\ ReadTrue(scan.file)'
    BY <1>1, <1>2, <2>5, <2>7, FramesKept, ReadKept
  <2>9. ScanType'
    BY <1>1, <1>3, <2>2, <2>5, <2>6, <2>7 DEF ScanType
  <2>10. DOMAIN scan.stack = {}
    BY <1>1, <2>1, AppendAny DEF ScanType
  <2>11. ASSUME NEW q, Ahead(q) PROVE Ahead(q)'
    <3>1. ~OnStack(scan.stack, q)
      BY <2>10 DEF OnStack
    <3>2. CASE ToEnter(scan.roots, Len(scan.snapshots), q)
      <4>1. PICK k \in DOMAIN scan.roots : k > Len(scan.roots) - Len(scan.snapshots) /\ q \in Below(scan.roots[k]) \ {scan.roots[k]}
        BY <3>2 DEF ToEnter
      <4>2. CASE k = n
        <5>1. Holds(g, q)
          BY <2>4, <4>1, <4>2 DEF Holds
        <5> QED
          BY <2>5, <2>6, <5>1 DEF Ahead, OnStack
      <4>3. CASE k # n
        <5>1. k > Len(scan.roots) - Len(scan'.snapshots)
          <6>1. k \in Nat /\ Len(scan'.snapshots) = Len(scan.snapshots) - 1
            BY <1>3, <2>2, <2>5
          <6>2. ASSUME NEW l \in Nat, NEW m \in Nat, NEW i \in Nat, i > l - m, i # l - m + 1
                PROVE  i > l - (m - 1)
            BY <6>2
          <6>3. k > Len(scan.roots) - Len(scan.snapshots) /\ k # Len(scan.roots) - Len(scan.snapshots) + 1
            BY <4>1, <4>3
          <6> QED
            BY <1>3, <6>1, <6>2, <6>3
        <5> QED
          BY <2>5, <4>1, <5>1 DEF Ahead, ToEnter
      <4> QED
        BY <4>2, <4>3
    <3>3. CASE scan.file.path = q
      BY <2>5, <3>3 DEF Ahead
    <3> QED
      BY <2>11, <3>1, <3>2, <3>3 DEF Ahead
  <2>12. Covered'
    BY <1>1, <2>1, <2>5, <2>11, CoverKept
  <2> QED
    BY <1>1, <1>2, <2>5, <2>8, <2>9, <2>12 DEF ScanInv
<1> QED
  BY <1>a, <1>b, <1>c, <1>d

LEMMA ScanLists ==
  ASSUME ScanInv, tool = "scan", UNCHANGED tool, SnapshotDirectory \/ BeginListing \/ EndListing
  PROVE  ScanInv'
<1>1. /\ TreeOK /\ Stamped /\ ScanType /\ Listings /\ ReadTrue(scan.file) /\ Covered
      /\ tool' = "scan" /\ UNCHANGED tree
  BY DEF ScanInv, SnapshotDirectory, BeginListing, EndListing
<1>2. Busy /\ Depth > 0
  BY DEF SnapshotDirectory, BeginListing, EndListing, AtStep
<1>3. IsSeq(scan.stack) /\ scan.stack # <<>>
  BY <1>1, <1>2 DEF ScanType, Depth
<1>4. Depth \in Nat \ {0} /\ Depth \in DOMAIN scan.stack
  BY <1>3, StackFacts DEF Depth
<1> DEFINE d == Current.dir
<1>5. /\ FrameType(Current) /\ ListingTrue(Current) /\ d \in Path
      /\ DOMAIN scan = {"phase", "roots", "looked", "snapshots", "stack", "file", "findings"}
      /\ DOMAIN scan.stack = 1..Depth
  BY <1>1, <1>3, <1>4, StackFacts DEF Current, ScanType, Listings, FrameType, Directories, Depth
<1>6. Unlisted \/ Substituted => ScanInv'
  BY <1>1, <1>2, <1>3, ScanGivesUp DEF Unlisted, Substituted, Finding
<1>7. \A q : Resolve(q)' = Resolve(q) /\ Listing(q)' = Listing(q) /\ object' = object /\ clock' = clock
  BY <1>1, SameFiles DEF tree, files, Listing
<1>8. ASSUME NEW g, Topped(scan.stack, Depth, g, scan'.stack) PROVE Depth' = Depth /\ scan'.stack[Depth] = g
  BY <1>8 DEF Topped, Depth
<1>9. ASSUME NEW g, scan' = [scan EXCEPT !.stack = [scan.stack EXCEPT ![Depth] = g]]
      PROVE  (scan.stack[Depth])' = g
  <2>1. Topped(scan.stack, Depth, g, [scan.stack EXCEPT ![Depth] = g])
    BY <1>3, TopReplaced DEF Depth
  <2>2. scan'.stack = [scan.stack EXCEPT ![Depth] = g]
    BY <1>5, <1>9
  <2> QED
    BY <1>8, <2>1, <2>2
<1>a. CASE SnapshotDirectory
  <2> DEFINE s == Stat(d)
             g == [Current EXCEPT !.step = "begin", !.before = s]
  <2>1. CASE Unlisted \/ Substituted
    BY <1>6, <2>1
  <2>2. CASE ~(Unlisted \/ Substituted)
    <3>1. /\ Current.step = "snapshot" /\ s # Nowhere
          /\ scan' = [scan EXCEPT !.stack[Depth].step = "begin", !.stack[Depth].before = s]
      BY <1>a, <2>2 DEF SnapshotDirectory, AtStep
    <3>2. scan' = [scan EXCEPT !.stack = [scan.stack EXCEPT ![Depth] = g]]
      BY <1>4, <1>5, <3>1 DEF Current
    <3>3. FrameType(g) /\ g.dir = d /\ g.step = "begin" /\ g.before = s
      BY <1>5 DEF FrameType
    <3>4. /\ s.id \in Moment /\ s.id <= clock
          /\ s.stamp \in Moment /\ s.stamp <= clock
      BY <1>1, <1>5, <3>1, Looked
    <3> HIDE DEF g, s
    <3>5. ListingTrue(scan.stack[Depth])'
      BY <1>7, <1>9, <3>2, <3>3, <3>4 DEF ListingTrue
    <3> QED
      BY <1>1, <1>2, <1>3, <3>1, <3>2, <3>3, <3>5, FrameChanges
  <2> QED
    BY <2>1, <2>2
<1>b. CASE BeginListing
  <2> DEFINE g == [Current EXCEPT !.step = "end", !.begun = Kinds(d)]
  <2>1. CASE Unlisted
    BY <1>6, <2>1
  <2>2. CASE ~Unlisted
    <3>1. /\ Current.step = "begin"
          /\ scan' = [scan EXCEPT !.stack[Depth].step = "end", !.stack[Depth].begun = Kinds(d)]
      BY <1>b, <2>2 DEF BeginListing, AtStep
    <3>2. scan' = [scan EXCEPT !.stack = [scan.stack EXCEPT ![Depth] = g]]
      BY <1>4, <1>5, <3>1 DEF Current
    <3>3. DOMAIN Kinds(d) = Listing(d) /\ Listing(d) \subseteq Names(d)
      BY DEF Kinds, Listing
    <3>4. FrameType(g) /\ g.dir = d /\ g.step = "end" /\ g.before = Current.before /\ DOMAIN g.begun = Listing(d)
      BY <1>5, <3>3 DEF FrameType
    <3> HIDE DEF g
    <3>5. /\ g.before.id \in Moment /\ g.before.id <= clock
          /\ g.before.stamp \in Moment /\ g.before.stamp <= clock
      BY <1>5, <3>1, <3>4 DEF ListingTrue
    <3>6. (scan.stack[Depth])' = g
      BY <1>9, <3>2
    <3>7. ASSUME NEW h, h = g PROVE ListingTrue(h)'
      <4>1. h.step = "end" /\ DOMAIN h.begun = Listing(h.dir)
        BY <3>4, <3>7
      <4>2. Listing(h.dir)' = Listing(h.dir)
        BY <1>7
      <4>3. /\ h.before.id \in Moment /\ h.before.id <= clock
            /\ h.before.stamp \in Moment /\ h.before.stamp <= clock
        BY <3>5, <3>7
      <4> QED
        BY <1>7, <4>1, <4>2, <4>3 DEF ListingTrue
    <3>8. ListingTrue(scan.stack[Depth])'
      <4>1. \A h : h = g => ListingTrue(h)'
        BY <3>7
      <4> QED
        BY <3>6, <4>1 DEF ListingTrue
    <3> QED
      BY <1>1, <1>2, <1>3, <3>1, <3>2, <3>4, <3>8, FrameChanges
  <2> QED
    BY <2>1, <2>2
<1>c. CASE EndListing
  <2> DEFINE first == Current.begun
             last == Kinds(d)
  <2>1. Current.step = "end"
    BY <1>c DEF EndListing, AtStep
  <2>2. PICK listed \in SUBSET (DOMAIN first \cup DOMAIN last) :
          /\ DOMAIN first \cap DOMAIN last \subseteq listed
          /\ scan' = [scan EXCEPT !.stack[Depth].step = "listed", !.stack[Depth].begun = <<>>,
               !.stack[Depth].entries = [q \in listed |-> IF q \in DOMAIN first THEN first[q] ELSE last[q]]]
    BY <1>c DEF EndListing
  <2> DEFINE entries == [q \in listed |-> IF q \in DOMAIN first THEN first[q] ELSE last[q]]
             g == [Current EXCEPT !.step = "listed", !.begun = <<>>, !.entries = entries]
  <2>3. DOMAIN last = Listing(d) /\ Listing(d) \subseteq Names(d)
    BY DEF Kinds, Listing
  <2>4. DOMAIN entries = listed /\ entries = [r \in DOMAIN entries |-> entries[r]] /\ listed \subseteq Names(d)
    BY <1>5, <2>2, <2>3 DEF FrameType
  <2>5. Untouched(Current) => DOMAIN entries = Listing(d)
    BY <1>5, <2>1, <2>2, <2>3, <2>4 DEF ListingTrue
  <2> HIDE DEF entries
  <2>6. scan' = [scan EXCEPT !.stack = [scan.stack EXCEPT ![Depth] = g]]
    BY <1>4, <1>5, <2>2 DEF Current, entries
  <2>7. FrameType(g) /\ g.dir = d /\ g.step = "listed" /\ g.before = Current.before /\ g.entries = entries
    BY <1>5, <2>4 DEF FrameType
  <2> HIDE DEF g
  <2>8. ListingTrue(scan.stack[Depth])'
    BY <1>5, <1>7, <1>9, <2>1, <2>5, <2>6, <2>7 DEF ListingTrue, Untouched
  <2> QED
    BY <1>1, <1>2, <1>3, <2>1, <2>6, <2>7, <2>8, FrameChanges
<1> QED
  BY <1>a, <1>b, <1>c

LEMMA ScanChecks ==
  ASSUME ScanInv, tool = "scan", UNCHANGED tool, CheckListing
  PROVE  ScanInv'
<1>1. TreeOK /\ Stamped /\ ScanType /\ Listings /\ ReadTrue(scan.file) /\ Covered /\ tool' = "scan"
  BY DEF ScanInv
<1>2. Busy /\ Depth > 0 /\ Current.step = "listed"
  BY DEF CheckListing, AtStep
<1>3. scan.phase = "walk" /\ scan.file = NoFile
  BY <1>2 DEF Busy
<1>4. IsSeq(scan.stack) /\ scan.stack # <<>>
  BY <1>1, <1>2 DEF ScanType, Depth
<1>5. Depth \in Nat \ {0} /\ DOMAIN scan.stack = 1..Depth
  BY <1>4, StackFacts DEF Depth
<1> DEFINE d == Current.dir
           g == [Current EXCEPT !.step = "entries"]
           u == [scan.stack EXCEPT ![Depth] = g]
<1>6. FrameType(Current) /\ ListingTrue(Current) /\ d \in Directories /\ d \in Path
  <2>1. Depth \in DOMAIN scan.stack /\ Current = scan.stack[Depth]
    BY <1>5 DEF Current
  <2>2. FrameType(Current) /\ ListingTrue(Current)
    BY <1>1, <2>1 DEF ScanType, Listings
  <2> QED
    BY <2>2 DEF FrameType, Directories
<1>7. CASE UNCHANGED tree /\ (Unlisted \/ Substituted)
  BY <1>1, <1>2, <1>4, <1>7, ScanGivesUp DEF Unlisted, Substituted, Finding
<1>8. CASE ~(UNCHANGED tree /\ (Unlisted \/ Substituted))
  <2>1. /\ Stat(d) # Nowhere /\ Stat(d) = Current.before
        /\ scan' = [scan EXCEPT !.stack[Depth].step = "entries"]
        /\ late' = late \ (Below(d) \ {d}) /\ UNCHANGED files
    <3> DEFINE s == Stat(d)
    <3>1. CASE s = Nowhere \/ s # Current.expected \/ s # Current.before
      <4>1. CASE s = Nowhere
        BY <1>8, <4>1 DEF CheckListing
      <4>2. CASE s # Nowhere /\ (s # Current.expected \/ s # Current.before)
        <5>1. Substituted /\ UNCHANGED tree
          BY <4>2 DEF CheckListing
        <5> QED
          BY <1>8, <5>1
      <4> QED
        BY <3>1, <4>1, <4>2
    <3>2. CASE s # Nowhere /\ s = Current.expected /\ s = Current.before
      <4>1. scan' = [scan EXCEPT !.stack[Depth].step = "entries"] /\ Vouch(Below(d) \ {d})
        BY <3>2 DEF CheckListing
      <4> QED
        BY <3>2, <4>1 DEF Vouch
    <3> QED
      BY <3>1, <3>2
  <2>2. scan' = [scan EXCEPT !.stack = u]
    BY <1>1, <1>5, <2>1 DEF Current, ScanType
  <2>3. FrameType(g) /\ g.step = "entries" /\ g.entries = Current.entries
    BY <1>6 DEF FrameType
  <2>4. Topped(scan.stack, Depth, g, u)
    BY <1>4, TopReplaced DEF Depth
  <2>5. Resolve(d) # Missing
    BY <1>1, <1>6, <2>1, KindFacts
  <2>6. Untouched(Current)
    BY <2>1, <2>5 DEF Untouched, Stat
  <2>7. DOMAIN g.entries = Listing(d)
    BY <1>2, <1>6, <2>3, <2>6 DEF ListingTrue
  <2> HIDE DEF g, u
  <2>8. /\ DOMAIN scan' = DOMAIN scan /\ scan'.phase = "walk" /\ scan'.roots = scan.roots
        /\ scan'.snapshots = scan.snapshots /\ scan'.stack = u /\ scan'.file = scan.file
        /\ scan'.findings = scan.findings
    BY <1>1, <1>3, <2>2 DEF ScanType
  <2>9. \A k \in DOMAIN scan'.stack :
          \/ k \in DOMAIN scan.stack /\ scan'.stack[k] = scan.stack[k]
          \/ FrameType(scan'.stack[k]) /\ ListingTrue(scan.stack[k])'
    <3> SUFFICES ASSUME NEW k \in 1..Depth
                 PROVE  u[k] = scan.stack[k] \/ (FrameType(scan'.stack[k]) /\ ListingTrue(scan.stack[k])')
      BY <1>5, <2>4, <2>8 DEF Topped
    <3>1. CASE k = Depth
      BY <2>3, <2>4, <2>8, <3>1 DEF Topped, ListingTrue
    <3>2. CASE k # Depth
      BY <1>5, <2>4, <3>2 DEF Topped
    <3> QED
      BY <3>1, <3>2
  <2>10. late' \subseteq late /\ TreeOK' /\ Stamped'
    BY <1>1, <2>1, SameFiles
  <2>11. Listings' /\ \A k \in DOMAIN scan'.stack : FrameType(scan'.stack[k])
    BY <1>1, <2>1, <2>9, <2>10, FramesKept
  <2>12. ReadTrue(scan.file)' /\ ScanType'
    BY <1>1, <1>3, <2>1, <2>4, <2>8, <2>11, ReadKept DEF ScanType, Topped
  <2>13. Covered'
    <3> SUFFICES ASSUME scan'.findings = {}, NEW q \in Inside, q \notin late'
                 PROVE  Harmless(q)' \/ Ahead(q)'
      BY <2>8 DEF Covered, Inside
    <3>1. Harmless(q)' <=> Harmless(q)
      BY <2>1, <2>10, SameFiles DEF Harmless, Regular
    <3>2. CASE q \in Below(d) \ {d}
      <4>1. PICK r \in Names(d) : q \in Below(r)
        BY <1>6, <3>2, BelowNames
      <4>2. CASE Resolve(r) = Missing
        <5>1. r \in Path
          BY DEF Names
        <5> QED
          BY <1>1, <3>1, <4>1, <4>2, <5>1, NothingBelow
      <4>3. CASE Resolve(r) # Missing
        <5>1. Holds(g, q)
          BY <2>3, <2>7, <4>1, <4>3 DEF Holds, Listing
        <5>2. OnStack(u, q)
          BY <1>5, <2>4, <5>1 DEF OnStack, Topped
        <5> QED
          BY <2>8, <5>2 DEF Ahead
      <4> QED
        BY <4>2, <4>3
    <3>3. CASE q \notin Below(d) \ {d}
      <4>1. q \notin late
        BY <2>1, <3>3
      <4>2. Harmless(q) \/ Ahead(q)
        BY <1>1, <1>3, <2>8, <4>1 DEF Covered
      <4>3. OnStack(scan.stack, q) => OnStack(u, q)
        <5> SUFFICES ASSUME NEW k \in 1..Depth, Holds(scan.stack[k], q)
                     PROVE  OnStack(u, q)
          BY <1>5 DEF OnStack
        <5>1. k # Depth
          BY <1>2, <3>3 DEF Current, Holds
        <5>2. u[k] = scan.stack[k] /\ k \in DOMAIN u
          BY <1>5, <2>4, <5>1 DEF Topped
        <5> QED
          BY <5>2 DEF OnStack
      <4> QED
        BY <2>8, <3>1, <4>2, <4>3 DEF Ahead
    <3> QED
      BY <3>2, <3>3
  <2> QED
    BY <1>1, <2>8, <2>10, <2>11, <2>12, <2>13 DEF ScanInv
<1> QED
  BY <1>7, <1>8

(* The walk goes on, with another stack or another file in work.           *)
LEMMA WalkGoesOn ==
  ASSUME ScanInv, tool = "scan", UNCHANGED <<files, tool>>, late' \subseteq late, scan.phase = "walk",
         DOMAIN scan' = DOMAIN scan, scan'.phase = "walk", scan'.roots = scan.roots,
         scan'.snapshots = scan.snapshots, IsSeq(scan'.stack),
         \A k \in DOMAIN scan'.stack :
           \/ k \in DOMAIN scan.stack /\ scan'.stack[k] = scan.stack[k]
           \/ FrameType(scan'.stack[k]) /\ ListingTrue(scan.stack[k])',
         FileType(scan'.file), ReadTrue(scan.file)', Covered'
  PROVE  ScanInv'
<1>1. TreeOK /\ Stamped /\ ScanType /\ Listings /\ tool' = "scan"
  BY DEF ScanInv
<1>2. TreeOK' /\ Stamped'
  BY <1>1, SameFiles
<1>3. Listings' /\ \A k \in DOMAIN scan'.stack : FrameType(scan'.stack[k])
  BY <1>1, FramesKept
<1>4. ScanType'
  BY <1>1, <1>3 DEF ScanType
<1> QED
  BY <1>1, <1>2, <1>3, <1>4 DEF ScanInv

(* Entries that are left are no longer those of the empty sequence.        *)
LEMMA SomeEntry ==
  ASSUME NEW f, FrameType(f), f.entries # <<>>
  PROVE  LET p == CHOOSE q \in DOMAIN f.entries : \A r \in DOMAIN f.entries : q <= r
         IN  p \in DOMAIN f.entries /\ p \in Path
<1>1. DOMAIN f.entries # {}
  <2> SUFFICES ASSUME DOMAIN f.entries = {} PROVE FALSE
    OBVIOUS
  <2>1. f.entries = [r \in {} |-> f.entries[r]]
    BY DEF FrameType
  <2>2. <<>> = [r \in {} |-> f.entries[r]]
    OBVIOUS
  <2> QED
    BY <2>1, <2>2
<1>2. DOMAIN f.entries \subseteq Path
  BY DEF FrameType, Names
<1>3. DOMAIN f.entries \in SUBSET Nat
  BY <1>2, TreeAssumption
<1> DEFINE S == DOMAIN f.entries
<1> HIDE DEF S
<1>4. (CHOOSE q \in S : \A r \in S : q <= r) \in S
  BY <1>1, <1>3, LeastEntry DEF S
<1> QED
  BY <1>2, <1>4 DEF S

LEMMA ScanMeets ==
  ASSUME ScanInv, tool = "scan", UNCHANGED tool, ScanEntry
  PROVE  ScanInv'
<1> DEFINE entries == Current.entries
           p == CHOOSE q \in DOMAIN entries : \A r \in DOMAIN entries : q <= r
           rest == [q \in DOMAIN entries \ {p} |-> entries[q]]
           told == IF p \in TellingPath THEN Finding("path_match", p) ELSE {}
           s == Stat(p)
           g == [Current EXCEPT !.entries = rest]
           u == [scan.stack EXCEPT ![Depth] = g]
<1>1. /\ TreeOK /\ Stamped /\ ScanType /\ Listings /\ ReadTrue(scan.file) /\ Covered /\ tool' = "scan"
      /\ UNCHANGED tree
  BY DEF ScanInv, ScanEntry
<1>2. Busy /\ Depth > 0 /\ Current.step = "entries" /\ entries # <<>>
  BY DEF ScanEntry, AtStep
<1>3. scan.phase = "walk" /\ scan.file = NoFile
  BY <1>2 DEF Busy
<1>4. IsSeq(scan.stack) /\ scan.stack # <<>>
  BY <1>1, <1>2 DEF ScanType, Depth
<1>5. Depth \in Nat \ {0} /\ DOMAIN scan.stack = 1..Depth
  BY <1>4, StackFacts DEF Depth
<1>6. FrameType(Current)
  <2>1. Depth \in DOMAIN scan.stack /\ Current = scan.stack[Depth]
    BY <1>5 DEF Current
  <2> QED
    BY <1>1, <2>1 DEF ScanType
<1>7. p \in DOMAIN entries /\ p \in Path
  BY <1>2, <1>6, SomeEntry
<1>8. UNCHANGED files /\ late' = late
  BY <1>1 DEF tree, files
<1>b. \/ /\ scan' = [scan EXCEPT !.stack[Depth].entries = rest, !.findings = @ \cup told \cup Finding("unsafe_symlink", p)]
      \/ /\ scan' = [scan EXCEPT !.stack[Depth].entries = rest, !.findings = @ \cup told \cup Finding("entry_inspection_error", p)]
      \/ /\ scan' = [scan EXCEPT !.stack[Depth].entries = rest, !.findings = @ \cup told \cup Finding("unsafe_special_file", p)]
      \/ /\ s.kind = "dir"
         /\ scan' = [scan EXCEPT !.stack = Append([@ EXCEPT ![Depth].entries = rest], Frame(p, s)),
                                 !.findings = @ \cup told]
      \/ /\ s.kind = "file"
         /\ scan' = [scan EXCEPT !.stack[Depth].entries = rest, !.findings = @ \cup told,
                                 !.file = [NoFile EXCEPT !.path = p, !.step = "open", !.before = s]]
  <2>1. CASE entries[p] = "link"
    BY <2>1 DEF ScanEntry
  <2>2. CASE entries[p] # "link" /\ s.kind = "none"
    BY <2>2 DEF ScanEntry
  <2>3. CASE entries[p] # "link" /\ s.kind = "link"
    BY <2>3 DEF ScanEntry
  <2>4. CASE entries[p] # "link" /\ s.kind = "dir"
    BY <2>4 DEF ScanEntry
  <2>5. CASE entries[p] # "link" /\ s.kind = "file"
    BY <2>5 DEF ScanEntry
  <2>6. s.kind \in {"none", "file", "link", "dir"}
    BY <1>1, <1>7, KindFacts
  <2> QED
    BY <2>1, <2>2, <2>3, <2>4, <2>5, <2>6
<1> HIDE DEF p, s, told
<1>9. FrameType(g) /\ g.step = "entries" /\ g.dir = Current.dir /\ g.entries = rest /\ DOMAIN rest = DOMAIN entries \ {p}
  <2>1. DOMAIN rest = DOMAIN entries \ {p} /\ rest = [r \in DOMAIN rest |-> rest[r]]
    OBVIOUS
  <2> HIDE DEF rest
  <2> QED
    BY <1>2, <1>6, <2>1 DEF FrameType
<1>10. Topped(scan.stack, Depth, g, u)
  BY <1>4, TopReplaced DEF Depth
<1>11. ASSUME NEW q, OnStack(scan.stack, q), NEW v, v[Depth] = g, \A k \in 1..(Depth - 1) : v[k] = scan.stack[k],
              1..Depth \subseteq DOMAIN v
       PROVE  OnStack(v, q) \/ q \in Below(p)
  <2>1. PICK k \in 1..Depth : Holds(scan.stack[k], q)
    BY <1>5, <1>11 DEF OnStack
  <2>2. CASE k = Depth
    <3>1. PICK r \in DOMAIN entries : q \in Below(r)
      BY <1>2, <2>1, <2>2 DEF Holds, Current
    <3>2. CASE r = p
      BY <3>1, <3>2
    <3>3. CASE r # p
      <4>1. Holds(v[k], q)
        BY <1>9, <1>11, <2>2, <3>1, <3>3 DEF Holds
      <4> QED
        BY <1>11, <4>1 DEF OnStack
    <3> QED
      BY <3>2, <3>3
  <2>3. CASE k # Depth
    <3>1. v[k] = scan.stack[k] /\ k \in DOMAIN v
      BY <1>5, <1>11, <2>3
    <3> QED
      BY <2>1, <3>1 DEF OnStack
  <2> QED
    BY <2>2, <2>3
<1> HIDE DEF rest
<1>12. ASSUME NEW F, scan' = [scan EXCEPT !.stack[Depth].entries = rest, !.findings = F]
       PROVE  scan' = [scan EXCEPT !.stack = u, !.findings = F]
  BY <1>1, <1>5, <1>12 DEF Current, ScanType
<1> HIDE DEF g, u, entries
<1>13. \A k \in DOMAIN u :
          \/ k \in DOMAIN scan.stack /\ u[k] = scan.stack[k]
          \/ u[k] = g
  BY <1>5, <1>10 DEF Topped
<1>14. \A h : h.step = "entries" \/ h.step = "snapshot" => ListingTrue(h)'
  BY DEF ListingTrue
<1>c. ASSUME NEW code,
             scan' = [scan EXCEPT !.stack[Depth].entries = rest, !.findings = @ \cup told \cup Finding(code, p)]
      PROVE  ScanInv'
  <2>1. scan' = [scan EXCEPT !.stack = u, !.findings = scan.findings \cup told \cup Finding(code, p)]
    BY <1>12, <1>c
  <2>2. /\ DOMAIN scan' = DOMAIN scan /\ scan'.phase = "walk" /\ scan'.roots = scan.roots
        /\ scan'.snapshots = scan.snapshots /\ scan'.stack = u /\ scan'.file = NoFile
        /\ scan'.findings = scan.findings \cup told \cup Finding(code, p)
    BY <1>1, <1>3, <2>1 DEF ScanType
  <2>3. scan'.findings # {}
    BY <2>2 DEF Finding
  <2>4. Covered' /\ ReadTrue(scan.file)' /\ FileType(scan'.file)
    BY <1>1, <1>3, <2>2, <2>3 DEF Covered, ReadTrue, ScanType
  <2>5. \A k \in DOMAIN scan'.stack :
           \/ k \in DOMAIN scan.stack /\ scan'.stack[k] = scan.stack[k]
           \/ FrameType(scan'.stack[k]) /\ ListingTrue(scan.stack[k])'
    BY <1>9, <1>13, <2>2 DEF ListingTrue
  <2>6. IsSeq(scan'.stack)
    BY <1>10, <2>2 DEF Topped
  <2> QED
    BY <1>3, <1>8, <2>2, <2>4, <2>5, <2>6, WalkGoesOn
<1>15. \A q \in Inside : q \in Path
  BY DEF Inside, Below
<1>16. \A q : q \in Below(p) => q = p \/ p \in Directories
  BY <1>7, BelowNames
<1>d. ASSUME s.kind = "dir",
             scan' = [scan EXCEPT !.stack = Append([@ EXCEPT ![Depth].entries = rest], Frame(p, s)),
                                  !.findings = @ \cup told]
      PROVE  ScanInv'
  <2> DEFINE v == Append(u, Frame(p, s))
  <2>1. scan' = [scan EXCEPT !.stack = v, !.findings = scan.findings \cup told]
    BY <1>1, <1>5, <1>d DEF Current, ScanType, u, g
  <2>2. IsSeq(v) /\ DOMAIN v = 1..(Depth + 1) /\ v[Depth + 1] = Frame(p, s) /\ \A k \in 1..Depth : v[k] = u[k]
    <3>1. IsSeq(u) /\ Len(u) = Depth /\ DOMAIN u = 1..Depth
      BY <1>10 DEF Topped
    <3> QED
      BY <1>5, <3>1, AppendAny
  <2> HIDE DEF v
  <2>3. /\ DOMAIN scan' = DOMAIN scan /\ scan'.phase = "walk" /\ scan'.roots = scan.roots
        /\ scan'.snapshots = scan.snapshots /\ scan'.stack = v /\ scan'.file = NoFile
        /\ scan'.findings = scan.findings \cup told
    BY <1>1, <1>3, <2>1 DEF ScanType
  <2>4. p \in Directories
    BY <1>1, <1>7, <1>d, KindFacts DEF s
  <2>5. FrameType(Frame(p, s)) /\ ListingTrue(Frame(p, s))' /\ Frame(p, s).step = "snapshot" /\ Frame(p, s).dir = p
    <3>1. <<>> = [r \in DOMAIN <<>> |-> <<>>[r]] /\ DOMAIN <<>> = {}
      OBVIOUS
    <3> QED
      BY <2>4, <3>1 DEF FrameType, Frame, ListingTrue
  <2>6. \A k \in DOMAIN scan'.stack :
           \/ k \in DOMAIN scan.stack /\ scan'.stack[k] = scan.stack[k]
           \/ FrameType(scan'.stack[k]) /\ ListingTrue(scan.stack[k])'
    <3> SUFFICES ASSUME NEW k \in 1..(Depth + 1)
                 PROVE  \/ k \in DOMAIN scan.stack /\ v[k] = scan.stack[k]
                        \/ FrameType(v[k]) /\ ListingTrue(scan.stack[k])'
      BY <2>2, <2>3
    <3>1. CASE k = Depth + 1
      BY <2>2, <2>3, <2>5, <3>1 DEF ListingTrue
    <3>2. CASE k # Depth + 1
      <4>1. k \in DOMAIN u /\ v[k] = u[k]
        BY <1>5, <1>10, <2>2, <3>2 DEF Topped
      <4> QED
        BY <1>9, <1>13, <2>3, <4>1 DEF ListingTrue
    <3> QED
      BY <3>1, <3>2
  <2>7. ASSUME scan'.findings = {}, NEW q \in Inside, Ahead(q) PROVE Harmless(q) \/ Ahead(q)'
    <3>1. CASE OnStack(scan.stack, q)
      <4>1. v[Depth] = g /\ (\A k \in 1..(Depth - 1) : v[k] = scan.stack[k]) /\ 1..Depth \subseteq DOMAIN v
        BY <1>5, <1>10, <2>2 DEF Topped
      <4>2. OnStack(v, q) \/ q \in Below(p)
        BY <1>11, <3>1, <4>1
      <4>3. CASE OnStack(v, q)
        BY <2>3, <4>3 DEF Ahead
      <4>4. CASE q = p
        <5>1. p \notin TellingPath
          BY <2>3, <2>7 DEF told, Finding
        <5> QED
          BY <1>d, <4>4, <5>1 DEF Harmless, Regular, s
      <4>5. CASE q \in Below(p) \ {p}
        <5>1. Holds(v[Depth + 1], q) /\ Depth + 1 \in DOMAIN v
          BY <1>5, <2>2, <2>5, <4>5 DEF Holds
        <5> QED
          BY <2>3, <5>1 DEF Ahead, OnStack
      <4> QED
        BY <4>2, <4>3, <4>4, <4>5
    <3>2. CASE ~OnStack(scan.stack, q)
      BY <1>3, <2>3, <2>7, <3>2 DEF Ahead
    <3> QED
      BY <3>1, <3>2
  <2>8. Covered'
    BY <1>1, <1>3, <2>3, <2>7, CoverKept
  <2>9. ReadTrue(scan.file)' /\ FileType(scan'.file)
    BY <1>1, <1>3, <2>3 DEF ReadTrue, ScanType
  <2> QED
    BY <1>3, <1>8, <2>2, <2>3, <2>6, <2>8, <2>9, WalkGoesOn
<1>e. ASSUME s.kind = "file",
             scan' = [scan EXCEPT !.stack[Depth].entries = rest, !.findings = @ \cup told,
                                  !.file = [NoFile EXCEPT !.path = p, !.step = "open", !.before = s]]
      PROVE  ScanInv'
  <2> DEFINE f == [NoFile EXCEPT !.path = p, !.step = "open", !.before = s]
  <2>1. scan' = [scan EXCEPT !.stack = u, !.findings = scan.findings \cup told, !.file = f]
    BY <1>1, <1>5, <1>e DEF Current, ScanType, u, g
  <2>2. FileType(f) /\ f.path = p /\ f.step = "open" /\ f.before = s
    BY <1>7 DEF FileType, NoFile
  <2> HIDE DEF f
  <2>3. /\ DOMAIN scan' = DOMAIN scan /\ scan'.phase = "walk" /\ scan'.roots = scan.roots
        /\ scan'.snapshots = scan.snapshots /\ scan'.stack = u /\ scan'.file = f
        /\ scan'.findings = scan.findings \cup told
    BY <1>1, <1>3, <2>1 DEF ScanType
  <2>4. p \notin Directories
    BY <1>1, <1>7, <1>e, KindFacts DEF s
  <2>5. \A k \in DOMAIN scan'.stack :
           \/ k \in DOMAIN scan.stack /\ scan'.stack[k] = scan.stack[k]
           \/ FrameType(scan'.stack[k]) /\ ListingTrue(scan.stack[k])'
    BY <1>9, <1>13, <2>3 DEF ListingTrue
  <2>6. ASSUME NEW q \in Inside, Ahead(q) PROVE Ahead(q)'
    <3>1. CASE OnStack(scan.stack, q)
      <4>1. u[Depth] = g /\ (\A k \in 1..(Depth - 1) : u[k] = scan.stack[k]) /\ 1..Depth \subseteq DOMAIN u
        BY <1>5, <1>10 DEF Topped
      <4>2. OnStack(u, q) \/ q \in Below(p)
        BY <1>11, <3>1, <4>1
      <4> QED
        BY <1>16, <2>2, <2>3, <2>4, <4>2 DEF Ahead
    <3>2. CASE ToEnter(scan.roots, Len(scan.snapshots), q)
      BY <2>3, <3>2 DEF Ahead
    <3>3. CASE scan.file.path = q
      <4>1. q \in Path /\ Missing \notin Path
        BY <1>15, TreeAssumption DEF Missing
      <4> QED
        BY <1>3, <3>3, <4>1 DEF NoFile
    <3> QED
      BY <2>6, <3>1, <3>2, <3>3 DEF Ahead
  <2>8. Covered'
    BY <1>1, <1>3, <2>3, <2>6, CoverKept
  <2>9. ReadTrue(scan.file)'
    <3>1. /\ s.kind = "file" /\ s.id \in Moment /\ s.id <= clock
          /\ s.stamp \in Moment /\ s.stamp <= clock
      <4>1. Stat(p) # Nowhere
        BY <1>e DEF s, Nowhere
      <4> QED
        BY <1>1, <1>7, <1>e, <4>1, Looked DEF s
    <3>2. p \in TellingPath => scan'.findings # {}
      BY <2>3 DEF told, Finding
    <3>3. clock' = clock
      BY <1>8 DEF files
    <3> QED
      BY <2>2, <2>3, <3>1, <3>2, <3>3 DEF ReadTrue
  <2>10. IsSeq(scan'.stack)
    BY <1>10, <2>3 DEF Topped
  <2> QED
    BY <1>3, <1>8, <2>2, <2>3, <2>5, <2>8, <2>9, <2>10, WalkGoesOn
<1> QED
  BY <1>b, <1>c, <1>d, <1>e

LEMMA ScanLeaves ==
  ASSUME ScanInv, tool = "scan", UNCHANGED tool, LeaveDirectory
  PROVE  ScanInv'
<1>1. /\ TreeOK /\ Stamped /\ ScanType /\ Listings /\ ReadTrue(scan.file) /\ Covered /\ tool' = "scan"
      /\ UNCHANGED tree
  BY DEF ScanInv, LeaveDirectory
<1>2. /\ Busy /\ Depth > 0 /\ Current.step = "entries" /\ Current.entries = <<>>
      /\ scan' = [scan EXCEPT !.stack = Popped]
  BY DEF LeaveDirectory, AtStep
<1>3. scan.phase = "walk" /\ scan.file = NoFile
  BY <1>2 DEF Busy
<1>4. IsSeq(scan.stack) /\ scan.stack # <<>>
  BY <1>1, <1>2 DEF ScanType, Depth
<1>5. Depth \in Nat \ {0} /\ DOMAIN scan.stack = 1..Depth
  BY <1>4, StackFacts DEF Depth
<1>6. IsSeq(Popped) /\ DOMAIN Popped = 1..(Depth - 1) /\ \A k \in 1..(Depth - 1) : Popped[k] = scan.stack[k]
  BY <1>4, TopRemoved DEF Popped, Depth
<1>7. /\ DOMAIN scan' = DOMAIN scan /\ scan'.phase = "walk" /\ scan'.roots = scan.roots
      /\ scan'.snapshots = scan.snapshots /\ scan'.stack = Popped /\ scan'.file = NoFile
      /\ scan'.findings = scan.findings
  BY <1>1, <1>2, <1>3 DEF ScanType
<1>8. ASSUME NEW q, Ahead(q) PROVE Ahead(q)'
  <2>1. CASE OnStack(scan.stack, q)
    <3>1. PICK k \in 1..Depth : Holds(scan.stack[k], q)
      BY <1>5, <2>1 DEF OnStack
    <3>2. k # Depth
      <4>1. ~Holds(Current, q)
        BY <1>2 DEF Holds
      <4> QED
        BY <3>1, <4>1 DEF Current
    <3>3. k \in DOMAIN Popped /\ Popped[k] = scan.stack[k]
      BY <1>5, <1>6, <3>2
    <3> QED
      BY <1>7, <3>1, <3>3 DEF Ahead, OnStack
  <2>2. CASE ~OnStack(scan.stack, q)
    BY <1>3, <1>7, <1>8, <2>2 DEF Ahead
  <2> QED
    BY <2>1, <2>2
<1>9. Covered'
  BY <1>1, <1>3, <1>7, <1>8, CoverKept
<1>10. \A k \in DOMAIN scan'.stack : k \in DOMAIN scan.stack /\ scan'.stack[k] = scan.stack[k]
  BY <1>5, <1>6, <1>7
<1>11. UNCHANGED files /\ late' = late
  BY <1>1 DEF tree, files
<1>12. ReadTrue(scan.file)' /\ FileType(scan'.file)
  BY <1>1, <1>3, <1>7 DEF ReadTrue, ScanType
<1> QED
  BY <1>1, <1>3, <1>6, <1>7, <1>9, <1>10, <1>11, <1>12, WalkGoesOn

LEMMA FileRefused ==
  ASSUME ScanInv, tool = "scan", UNCHANGED <<tree, tool>>, scan.phase = "walk", NEW c, EndFile({c})
  PROVE  ScanInv'
<1> DEFINE F == UNION {Finding(x, scan.file.path) : x \in {c}}
<1>1. F # {}
  BY DEF Finding
<1>2. scan' = [scan EXCEPT !.file = NoFile, !.findings = @ \cup F]
  BY DEF EndFile
<1>3. UNCHANGED files /\ late' = late
  BY DEF tree, files
<1> HIDE DEF F
<1> QED
  BY <1>1, <1>2, <1>3, FileEnds

LEMMA ScanReads ==
  ASSUME ScanInv, tool = "scan", UNCHANGED tool, OpenFile \/ CompareFile \/ ReadFile
  PROVE  ScanInv'
<1>1. TreeOK /\ Stamped /\ ScanType /\ ReadTrue(scan.file) /\ UNCHANGED tree
  BY DEF ScanInv, OpenFile, CompareFile, ReadFile
<1>2. scan.phase = "walk" /\ scan.file.step \in {"open", "compare", "read"}
  BY DEF OpenFile, CompareFile, ReadFile, AtFile
<1>3. scan.file # NoFile
  BY <1>2 DEF NoFile
<1>4. ASSUME NEW c, EndFile({c}) PROVE ScanInv'
  BY <1>1, <1>2, <1>4, FileRefused
<1> DEFINE s == Stat(scan.file.path)
<1>5. /\ DOMAIN scan.file = {"path", "step", "before", "opened", "data"} /\ scan.file.path \in Path
      /\ DOMAIN scan = {"phase", "roots", "looked", "snapshots", "stack", "file", "findings"}
  BY <1>1, <1>3 DEF ScanType, FileType
<1>6. UNCHANGED files
  BY <1>1 DEF tree
<1>7. s = scan.file.before => s.kind = "file"
  BY <1>1, <1>3 DEF ReadTrue
<1>8. ASSUME NEW f, scan' = [scan EXCEPT !.file = f], DOMAIN f = DOMAIN scan.file, f.path = scan.file.path,
             f.before = scan.file.before, f.opened = scan.file.before,
             f.step = "finish" => f.data = object[<<f.path, f.before.id>>].data
      PROVE  ScanInv'
  <2>1. FileType(f)
    BY <1>5, <1>8 DEF FileType
  <2>2. scan'.file = f /\ scan'.findings = scan.findings /\ clock' = clock /\ object' = object
    BY <1>5, <1>6, <1>8 DEF files
  <2>3. ReadTrue(scan.file)'
    BY <1>1, <1>3, <1>8, <2>2 DEF ReadTrue
  <2> QED
    BY <1>1, <1>2, <1>8, <2>1, <2>3, FileGoesOn
<1>a. CASE OpenFile
  <2> DEFINE f == [scan.file EXCEPT !.step = "compare", !.opened = s]
  <2>1. CASE s.kind = "link"
    <3>1. EndFile({"unsafe_symlink"})
      BY <1>7, <1>a, <2>1 DEF OpenFile
    <3> QED
      BY <1>4, <3>1
  <2>2. CASE s.kind # "link" /\ s # scan.file.before
    <3>1. EndFile({"entry_inspection_error"})
      BY <1>a, <2>2 DEF OpenFile
    <3> QED
      BY <1>4, <3>1
  <2>3. CASE s.kind # "link" /\ s = scan.file.before
    <3>1. \/ scan' = [scan EXCEPT !.file.step = "compare", !.file.opened = s]
          \/ EndFile({"file_read_error"})
      BY <1>a, <2>3 DEF OpenFile
    <3>2. CASE scan' = [scan EXCEPT !.file.step = "compare", !.file.opened = s]
      <4>1. scan' = [scan EXCEPT !.file = f]
        BY <1>5, <3>2
      <4>2. /\ DOMAIN f = DOMAIN scan.file /\ f.path = scan.file.path /\ f.step = "compare"
            /\ f.before = scan.file.before /\ f.opened = scan.file.before
        BY <1>5, <2>3
      <4> HIDE DEF f
      <4> QED
        BY <1>8, <4>1, <4>2
    <3> QED
      BY <1>4, <3>1, <3>2
  <2> QED
    BY <2>1, <2>2, <2>3
<1>b. CASE CompareFile
  <2> DEFINE f == [scan.file EXCEPT !.step = "read"]
  <2>0. scan.file.opened = scan.file.before
    BY <1>1, <1>3, <1>b DEF ReadTrue, CompareFile, AtFile
  <2>1. CASE s.kind = "link"
    <3>1. EndFile({"unsafe_symlink"})
      BY <1>7, <1>b, <2>1 DEF CompareFile
    <3> QED
      BY <1>4, <3>1
  <2>2. CASE s.kind # "link" /\ s # scan.file.before
    <3>1. EndFile({"entry_inspection_error"})
      BY <1>b, <2>2 DEF CompareFile
    <3> QED
      BY <1>4, <3>1
  <2>3. CASE s.kind # "link" /\ s = scan.file.before
    <3>1. \/ scan' = [scan EXCEPT !.file.step = "read"]
          \/ EndFile({"oversize_file"})
      BY <1>b, <2>3 DEF CompareFile
    <3>2. CASE scan' = [scan EXCEPT !.file.step = "read"]
      <4>1. scan' = [scan EXCEPT !.file = f]
        BY <1>5, <3>2
      <4>2. /\ DOMAIN f = DOMAIN scan.file /\ f.path = scan.file.path /\ f.step = "read"
            /\ f.before = scan.file.before /\ f.opened = scan.file.before
        BY <1>5, <2>0
      <4> HIDE DEF f
      <4> QED
        BY <1>8, <4>1, <4>2
    <3> QED
      BY <1>4, <3>1, <3>2
  <2> QED
    BY <2>1, <2>2, <2>3
<1>c. CASE ReadFile
  <2> DEFINE data == object[<<scan.file.path, scan.file.opened.id>>].data
             f == [scan.file EXCEPT !.step = "finish", !.data = data]
  <2>0. scan.file.opened = scan.file.before
    BY <1>1, <1>3, <1>c DEF ReadTrue, ReadFile, AtFile
  <2>1. \/ EndFile({"file_read_error"})
        \/ scan' = [scan EXCEPT !.file.step = "finish", !.file.data = data]
    BY <1>c DEF ReadFile
  <2>2. CASE scan' = [scan EXCEPT !.file.step = "finish", !.file.data = data]
    <3>1. scan' = [scan EXCEPT !.file = f]
      BY <1>5, <2>2
    <3>2. /\ DOMAIN f = DOMAIN scan.file /\ f.path = scan.file.path /\ f.data = data
          /\ f.before = scan.file.before /\ f.opened = scan.file.before
      BY <1>5, <2>0
    <3>3. f.data = object[<<f.path, f.before.id>>].data
      BY <2>0, <3>2
    <3> HIDE DEF f
    <3> QED
      BY <1>8, <3>1, <3>2, <3>3
  <2> QED
    BY <1>4, <2>1, <2>2
<1> QED
  BY <1>a, <1>b, <1>c

LEMMA ScanFinishes ==
  ASSUME ScanInv, tool = "scan", UNCHANGED tool, FinishFile
  PROVE  ScanInv'
<1> DEFINE f == scan.file
           fails == \/ DescriptorStat(f.path, f.opened.id) # f.opened
                    \/ Stat(f.path) # f.before
                    \/ f.data \in HugeData
<1>1. TreeOK /\ Stamped /\ ScanType /\ ReadTrue(f) /\ Covered
  BY DEF ScanInv
<1>2. scan.phase = "walk" /\ f.step = "finish"
  BY DEF FinishFile, AtFile
<1>3. f # NoFile /\ f.path \in Path
  BY <1>1, <1>2 DEF NoFile, ScanType, FileType
<1>4. CASE fails
  <2>1. \E c : EndFile({c}) /\ UNCHANGED tree
    BY <1>4 DEF FinishFile
  <2> QED
    BY <1>2, <2>1, FileRefused
<1>5. CASE ~fails
  <2> DEFINE F == UNION {Finding(c, f.path) : c \in Codes(f.data)}
  <2>1. /\ scan' = [scan EXCEPT !.file = NoFile, !.findings = @ \cup F]
        /\ late' = late \ {f.path} /\ UNCHANGED files
    BY <1>5 DEF FinishFile, EndFile, Vouch
  <2>2. ASSUME F = {} PROVE Covered'
    <3>1. f.data \notin TellingData \cup BinaryData \cup HugeData
      <4>1. Codes(f.data) = {}
        BY <2>2 DEF Finding
      <4> QED
        BY <1>5, <4>1 DEF Codes
    <3>2. Stat(f.path) = f.before /\ f.before = f.opened /\ f.before.kind = "file"
      BY <1>1, <1>2, <1>3, <1>5 DEF ReadTrue
    <3>3. Resolve(f.path) = f.before.id
      BY <3>2 DEF Stat, Nowhere
    <3>4. Contents(f.path) = f.data
      <4>1. DescriptorStat(f.path, f.opened.id).stamp = object[<<f.path, f.before.id>>].stamp
        BY <3>2 DEF DescriptorStat
      <4>2. object[<<f.path, f.before.id>>].stamp = f.before.stamp
        BY <1>5, <3>2, <4>1
      <4> QED
        BY <1>1, <1>2, <1>3, <3>3, <4>2 DEF ReadTrue, Contents
    <3>5. scan.findings = {} => Harmless(f.path)
      BY <1>1, <1>3, <3>1, <3>2, <3>4 DEF ReadTrue, Harmless
    <3> HIDE DEF F
    <3>6. /\ scan'.phase = "walk" /\ scan'.roots = scan.roots /\ scan'.snapshots = scan.snapshots
          /\ scan'.stack = scan.stack /\ scan'.findings = scan.findings
      BY <1>1, <1>2, <2>1, <2>2 DEF ScanType
    <3> SUFFICES ASSUME scan.findings = {}, NEW q \in Inside, q \notin late'
                 PROVE  Harmless(q)' \/ Ahead(q)'
      BY <3>6 DEF Covered, Inside
    <3>7. Harmless(q)' <=> Harmless(q)
      BY <2>1, SameFiles DEF Harmless, Regular
    <3>8. CASE q = f.path
      BY <3>5, <3>7, <3>8
    <3>9. CASE q # f.path
      <4>1. q \notin late
        BY <2>1, <3>9
      <4>2. Harmless(q) \/ Ahead(q)
        BY <1>1, <1>2, <4>1 DEF Covered
      <4> QED
        BY <3>6, <3>7, <3>9, <4>2 DEF Ahead
    <3> QED
      BY <3>8, <3>9
  <2> HIDE DEF F
  <2>3. UNCHANGED <<files, tool>> /\ late' \subseteq late
    BY <2>1
  <2> QED
    BY <1>2, <2>1, <2>2, <2>3, FileEnds
<1> QED
  BY <1>4, <1>5

LEMMA ScanReports ==
  ASSUME ScanInv, tool = "scan", UNCHANGED tool, EndScan
  PROVE  ScanInv'
<1> DEFINE r == IF scan.findings = {} THEN "pass" ELSE "fail"
<1>1. /\ ScanType /\ Covered /\ scan.phase = "walk" /\ scan.file = NoFile /\ Len(scan.stack) = 0
      /\ scan.snapshots = <<>> /\ End(r) /\ UNCHANGED tree
  BY DEF ScanInv, EndScan, Busy, Depth
<1>2. /\ scan'.phase = r /\ scan'.roots = scan.roots
      /\ r = "pass" => scan.findings = {}
  BY <1>1 DEF End, ScanType
<1>3. late' = late /\ UNCHANGED files
  BY <1>1 DEF tree, files
<1>4. ASSUME NEW q \in Inside PROVE ~Ahead(q)
  <2>1. ~ToEnter(scan.roots, Len(scan.snapshots), q)
    <3>1. Len(scan.snapshots) = 0 /\ Len(scan.roots) \in Nat /\ DOMAIN scan.roots = 1..Len(scan.roots)
      BY <1>1 DEF ScanType
    <3> QED
      BY <3>1 DEF ToEnter
  <2>2. DOMAIN scan.stack = {}
    BY <1>1, AppendAny DEF ScanType
  <2>3. q \in Path /\ Missing \notin Path
    BY TreeAssumption DEF Inside, Below, Missing
  <2> QED
    BY <1>1, <2>1, <2>2, <2>3 DEF Ahead, OnStack, NoFile
<1>5. \A q : Harmless(q)' <=> Harmless(q)
  BY <1>3, SameFiles DEF Harmless, Regular
<1>6. Covered'
  BY <1>1, <1>2, <1>3, <1>4, <1>5 DEF Covered, Inside
<1> QED
  BY <1>1, <1>6, ScanEnds

LEMMA ScanStepKeeps ==
  ASSUME ScanInv, Scan
  PROVE  ScanInv'
<1>1. tool = "scan" /\ UNCHANGED tool /\ ScanStep
  BY DEF Scan
<1> QED
  BY <1>1, ScanPrepares, ScanLists, ScanChecks, ScanMeets, ScanLeaves, ScanReads, ScanFinishes, ScanReports
  DEF ScanStep

LEMMA ScanInitial == Init => ScanInv
<1> SUFFICES ASSUME Init PROVE ScanInv
  OBVIOUS
<1>1. TreeOK /\ Stamped
  <2>1. PICK present \in FilesFor[tool] : TreeInit(present)
    BY DEF Init
  <2> QED
    BY <2>1, TreeInitial
<1>2. scan.phase = "first look"
  <2>1. PICK roots \in RootChoices : ScanInit(IF tool = "scan" THEN roots ELSE <<>>)
    BY DEF Init
  <2> QED
    BY <2>1 DEF ScanInit
<1>3. CASE tool = "scan"
  <2>1. PICK roots \in RootChoices : ScanInit(roots)
    BY <1>3 DEF Init
  <2>2. roots \in Seq(Directories) /\ roots # <<>>
    BY AuditAssumption
  <2>3. /\ scan.roots = roots /\ scan.snapshots = <<>> /\ scan.stack = <<>> /\ scan.file = NoFile
        /\ DOMAIN scan = {"phase", "roots", "looked", "snapshots", "stack", "file", "findings"}
    BY <2>1 DEF ScanInit
  <2>4. IsSeq(<<>>) /\ Len(<<>>) = 0 /\ DOMAIN <<>> = {}
    BY DEF IsSeq
  <2>5. Len(roots) > 0
    BY <2>2
  <2>6. ScanType
    BY <2>2, <2>3, <2>4, <2>5 DEF ScanType, FileType, NoFile
  <2>7. Listings /\ ReadTrue(scan.file) /\ Covered
    BY <1>2, <2>3, <2>4 DEF Listings, ReadTrue, Covered
  <2> QED
    BY <1>1, <1>2, <1>3, <2>3, <2>4, <2>5, <2>6, <2>7 DEF ScanInv
<1> QED
  BY <1>2, <1>3 DEF ScanInv

LEMMA ScanKept == ScanInv /\ [Next]_vars => ScanInv'
<1> SUFFICES ASSUME ScanInv, [Next]_vars PROVE ScanInv'
  OBVIOUS
<1>1. CASE Scan
  BY <1>1, ScanStepKeeps
<1>2. CASE Others /\ tool = "scan"
  BY <1>2, ScanOthers
<1>3. ASSUME tool # "scan", UNCHANGED <<scan, tool>> PROVE ScanInv'
  BY <1>3 DEF ScanInv
<1>4. CASE Adapter \/ Seal \/ Baseline \/ (Others /\ tool # "scan")
  BY <1>3, <1>4 DEF Adapter, Seal, Baseline, Others
<1>5. CASE UNCHANGED vars
  <2>1. UNCHANGED <<tree, scan, tool>>
    BY <1>5 DEF vars
  <2>2. object' = object /\ top' = top /\ clock' = clock /\ late' = late /\ scan' = scan /\ tool' = tool
    BY <2>1 DEF tree, files
  <2>3. UNCHANGED files /\ \A q : (Harmless(q)' <=> Harmless(q)) /\ Listing(q)' = Listing(q) /\ Resolve(q)' = Resolve(q)
    BY <2>2, SameFiles DEF files, Harmless, Regular, Listing
  <2>4. TreeOK' = TreeOK /\ Stamped' = Stamped /\ ScanType' = ScanType
    BY <2>2 DEF TreeOK, Stamped, ScanType
  <2>5. ReadTrue(scan.file)' = ReadTrue(scan.file) /\ Covered' = Covered
    BY <2>2, <2>3 DEF ReadTrue, Covered, Inside, Ahead
  <2>6. ScanType /\ Listings => Listings'
    BY <2>2, <2>3, FramesKept
  <2> QED
    BY <2>2, <2>4, <2>5, <2>6 DEF ScanInv
<1> QED
  BY <1>1, <1>2, <1>4, <1>5 DEF Next

LEMMA ScanImplies == ScanInv => PassMissesNothing
<1> SUFFICES ASSUME ScanInv, scan.phase = "pass", NEW p \in Inside, p \notin late
             PROVE  Harmless(p)
  BY DEF PassMissesNothing, Harmless, Inside
<1> QED
  BY DEF ScanInv, Covered

(* A passing audit missed nothing that was there when it looked, for any   *)
(* tree, any roots and any changes by others at any moments.               *)
THEOREM AuditSound == Spec => []PassMissesNothing
<1>1. Init => ScanInv
  BY ScanInitial
<1>2. ScanInv /\ [Next]_vars => ScanInv'
  BY ScanKept
<1>3. ScanInv => PassMissesNothing
  BY ScanImplies
<1> QED
  BY <1>1, <1>2, <1>3, PTL DEF Spec
=============================================================================
