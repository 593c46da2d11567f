---------------------------- MODULE LeakageScan ----------------------------
(***************************************************************************)
(* labos.benchmarks.leakage_scan: the audit that no file below the scan    *)
(* roots tells a private token, by name or by content.  It walks trees     *)
(* that may change under it, and answers each surprise with a finding.     *)
(***************************************************************************)
EXTENDS FileTree

CONSTANTS TellingPath,      \* names that hold a token
          TellingData, BinaryData, HugeData

VARIABLE scan

(* A directory being scanned: its expected and its first snapshot, the     *)
(* names seen when listing began, and what is left of the listing with the *)
(* kind each entry was listed with.                                        *)
Frame(p, expected) ==
  [ dir |-> p, expected |-> expected, step |-> "snapshot", before |-> Nowhere,
    begun |-> <<>>, entries |-> <<>> ]

NoFile == [path |-> Missing, step |-> "none", before |-> Nowhere, opened |-> Nowhere, data |-> <<>>]

(* roots: disjoint, in the order of their IDs.                             *)
ScanInit(roots) ==
  scan = [ phase |-> "first look", roots |-> roots, looked |-> <<>>, snapshots |-> <<>>,
           stack |-> <<>>, file |-> NoFile, findings |-> {} ]

End(result) == scan' = [scan EXCEPT !.phase = result]

-----------------------------------------------------------------------------
(* _validate_scan_roots: each root is looked at before and after it is     *)
(* resolved.                                                               *)
LookAtRoot ==
  /\ scan.phase = "first look"
  /\ LET s == Stat(scan.roots[Len(scan.snapshots) + 1])
     IN IF s.kind # "dir" THEN End("error")
        ELSE scan' = [scan EXCEPT !.phase = "second look", !.looked = s]
  /\ UNCHANGED tree

SnapshotRoot ==
  /\ scan.phase = "second look"
  /\ LET s == Stat(scan.roots[Len(scan.snapshots) + 1])
     IN IF s.kind # "dir" \/ s.id # scan.looked.id THEN End("error")
        ELSE scan' = [scan EXCEPT
               !.phase = IF Len(scan.snapshots) + 1 = Len(scan.roots) THEN "policy" ELSE "first look",
               !.looked = <<>>, !.snapshots = Append(@, s)]
  /\ UNCHANGED tree

(* load_private_leakage_policy                                             *)
LoadPolicy ==
  /\ scan.phase = "policy"
  /\ End("error") \/ End("walk")
  /\ UNCHANGED tree

-----------------------------------------------------------------------------
(* _scan_directory                                                         *)

Busy == scan.phase = "walk" /\ scan.file = NoFile
Depth == Len(scan.stack)
Current == scan.stack[Depth]
Popped == SubSeq(scan.stack, 1, Depth - 1)

EnterRoot ==
  /\ Busy /\ Depth = 0 /\ scan.snapshots # <<>>
  /\ scan' = [scan EXCEPT !.stack = <<Frame(scan.roots[Len(scan.roots) - Len(scan.snapshots) + 1],
                                            Head(scan.snapshots))>>,
                          !.snapshots = Tail(@)]
  /\ UNCHANGED tree

AtStep(step) == Busy /\ Depth > 0 /\ Current.step = step

Finding(code, p) == {[code |-> code, path |-> p]}

(* _handle_directory_substitution                                          *)
Substituted ==
  IF Depth = 1 THEN End("error")
  ELSE scan' = [scan EXCEPT !.stack = Popped, !.findings = @ \cup
                  Finding(IF Stat(Current.dir).kind = "link" THEN "unsafe_symlink"
                          ELSE "entry_inspection_error", Current.dir)]

(* lstat of a directory that is gone.                                      *)
Unlisted ==
  scan' = [scan EXCEPT !.stack = Popped, !.findings = @ \cup Finding("directory_read_error", Current.dir)]

SnapshotDirectory ==
  /\ AtStep("snapshot")
  /\ LET s == Stat(Current.dir)
     IN IF s = Nowhere THEN Unlisted
        ELSE IF s # Current.expected THEN Substituted
        ELSE scan' = [scan EXCEPT !.stack[Depth].step = "begin", !.stack[Depth].before = s]
  /\ UNCHANGED tree

Kinds(p) == [q \in Listing(p) |-> Stat(q).kind]

BeginListing ==
  /\ AtStep("begin")
  /\ IF Stat(Current.dir).kind = "none" THEN Unlisted
     ELSE scan' = [scan EXCEPT !.stack[Depth].step = "end", !.stack[Depth].begun = Kinds(Current.dir)]
  /\ UNCHANGED tree

(* What comes or goes during the listing may be listed or not.             *)
EndListing ==
  /\ AtStep("end")
  /\ LET first == Current.begun
         last == Kinds(Current.dir)
         sure == DOMAIN first \cap DOMAIN last
     IN \E listed \in SUBSET (DOMAIN first \cup DOMAIN last) :
          /\ sure \subseteq listed
          /\ scan' = [scan EXCEPT !.stack[Depth].step = "listed", !.stack[Depth].begun = <<>>,
               !.stack[Depth].entries = [q \in listed |-> IF q \in DOMAIN first THEN first[q] ELSE last[q]]]
  /\ UNCHANGED tree

(* Faulty variant: the directory is not looked at after the listing.       *)
CheckListing_Once ==
  /\ AtStep("listed")
  /\ scan' = [scan EXCEPT !.stack[Depth].step = "entries"]
  /\ Vouch(Below(Current.dir) \ {Current.dir})

CheckListing ==
  /\ AtStep("listed")
  /\ LET s == Stat(Current.dir)
     IN CASE s = Nowhere -> Unlisted /\ UNCHANGED tree
          [] s # Nowhere /\ (s # Current.expected \/ s # Current.before) -> Substituted /\ UNCHANGED tree
          [] s # Nowhere /\ s = Current.expected /\ s = Current.before ->
               /\ scan' = [scan EXCEPT !.stack[Depth].step = "entries"]
               /\ Vouch(Below(Current.dir) \ {Current.dir})

-----------------------------------------------------------------------------
(* _scan_entry: entries in the order of their names; the kind at listing   *)
(* tells a link.                                                           *)
ScanEntry ==
  /\ AtStep("entries") /\ Current.entries # <<>>
  /\ LET entries == Current.entries
         p == CHOOSE q \in DOMAIN entries : \A r \in DOMAIN entries : q <= r
         rest == [q \in DOMAIN entries \ {p} |-> entries[q]]
         told == IF p \in TellingPath THEN Finding("path_match", p) ELSE {}
         s == Stat(p)
         next(code) == scan' = [scan EXCEPT !.stack[Depth].entries = rest,
                                  !.findings = @ \cup told \cup Finding(code, p)]
     IN CASE entries[p] = "link" -> next("unsafe_symlink")
          [] entries[p] # "link" /\ s.kind = "none" -> next("entry_inspection_error")
          [] entries[p] # "link" /\ s.kind = "link" -> next("unsafe_special_file")
          [] entries[p] # "link" /\ s.kind = "dir" ->
               scan' = [scan EXCEPT !.stack = Append([@ EXCEPT ![Depth].entries = rest], Frame(p, s)),
                                    !.findings = @ \cup told]
          [] entries[p] # "link" /\ s.kind = "file" ->
               scan' = [scan EXCEPT !.stack[Depth].entries = rest, !.findings = @ \cup told,
                                    !.file = [NoFile EXCEPT !.path = p, !.step = "open", !.before = s]]
  /\ UNCHANGED tree

LeaveDirectory ==
  /\ AtStep("entries") /\ Current.entries = <<>>
  /\ scan' = [scan EXCEPT !.stack = Popped]
  /\ UNCHANGED tree

-----------------------------------------------------------------------------
(* _read_regular_file                                                      *)

AtFile(step) == scan.phase = "walk" /\ scan.file.step = step

EndFile(codes) ==
  scan' = [scan EXCEPT !.file = NoFile,
             !.findings = @ \cup UNION {Finding(c, scan.file.path) : c \in codes}]

(* os.open with O_NOFOLLOW and fstat, or _open_failure_code.  The size is  *)
(* looked at after the name has been compared once more.                   *)
OpenFile ==
  /\ AtFile("open")
  /\ LET s == Stat(scan.file.path)
     IN CASE s.kind = "link" -> EndFile({"unsafe_symlink"})
          [] s.kind # "link" /\ s # scan.file.before -> EndFile({"entry_inspection_error"})
          [] s = scan.file.before ->
               \/ scan' = [scan EXCEPT !.file.step = "compare", !.file.opened = s]
               \/ EndFile({"file_read_error"})
  /\ UNCHANGED tree

CompareFile ==
  /\ AtFile("compare")
  /\ LET s == Stat(scan.file.path)
     IN CASE s.kind = "link" -> EndFile({"unsafe_symlink"})
          [] s.kind # "link" /\ s # scan.file.before -> EndFile({"entry_inspection_error"})
          [] s = scan.file.before ->
               IF Contents(scan.file.path) \in HugeData THEN EndFile({"oversize_file"})
               ELSE scan' = [scan EXCEPT !.file.step = "read"]
  /\ UNCHANGED tree

(* A call may fail.                                                        *)
ReadFile ==
  /\ AtFile("read")
  /\ \/ EndFile({"file_read_error"})
     \/ scan' = [scan EXCEPT !.file.step = "finish",
                   !.file.data = object[<<scan.file.path, scan.file.opened.id>>].data]
  /\ UNCHANGED tree

Codes(data) ==
  IF data \in BinaryData THEN {"non_utf8_file"}
  ELSE IF data \in TellingData THEN {"content_match"} ELSE {}

(* fstat and lstat once more, and the matches of the decoded text.         *)
FinishFile ==
  /\ AtFile("finish")
  /\ LET f == scan.file
     IN IF \/ DescriptorStat(f.path, f.opened.id) # f.opened
           \/ Stat(f.path) # f.before
           \/ f.data \in HugeData
        THEN /\ EndFile({IF f.data \in HugeData THEN "oversize_file" ELSE "entry_inspection_error"})
             /\ UNCHANGED tree
        ELSE EndFile(Codes(f.data)) /\ Vouch({f.path})

(* The report.                                                             *)
EndScan ==
  /\ Busy /\ Depth = 0 /\ scan.snapshots = <<>>
  /\ End(IF scan.findings = {} THEN "pass" ELSE "fail")
  /\ UNCHANGED tree

ScanStep ==
  \/ LookAtRoot \/ SnapshotRoot \/ LoadPolicy \/ EnterRoot
  \/ SnapshotDirectory \/ BeginListing \/ EndListing \/ CheckListing \/ ScanEntry \/ LeaveDirectory
  \/ OpenFile \/ CompareFile \/ ReadFile \/ FinishFile \/ EndScan

-----------------------------------------------------------------------------
(* A pass misses nothing that was there to be seen: whatever a path below  *)
(* a scan root now leads to that tells a token, or could not be searched,  *)
(* or is a link, came there after the audit had read that path, or, for a  *)
(* path it never met, after it had checked its listing of the directory;   *)
(* nothing that changes, comes or is swapped before that moment slips      *)
(* through, in whatever order it does.                                     *)
PassMissesNothing ==
  scan.phase = "pass" =>
    \A p \in UNION {Below(scan.roots[n]) \ {scan.roots[n]} : n \in DOMAIN scan.roots} :
      (\/ Stat(p).kind = "link"
       \/ Stat(p).kind # "none" /\ p \in TellingPath
       \/ Regular(p) /\ Contents(p) \in TellingData \cup BinaryData \cup HugeData)
      => p \in late
=============================================================================
