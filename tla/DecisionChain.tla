---------------------------- MODULE DecisionChain ----------------------------
(***************************************************************************)
(* From a case to a canonical decision proposal, through files:            *)
(*                                                                         *)
(*   export-decision-review   builds the decision board of the case and    *)
(*                            writes the four files of a review package    *)
(*                            (labos/review_package/exporter.py);          *)
(*   new-decision-record      writes a record bound to that package        *)
(*                            (labos/decision_record/template.py), which   *)
(*                            people then fill in;                         *)
(*   propose-canonical-decision  validates the record against package and  *)
(*                            case and writes the four files of a proposal *)
(*                            (labos/canonical_proposal/builder.py).       *)
(*                                                                         *)
(* No file is locked.  Each command reads its inputs one after the other,  *)
(* some of them two or three times.  Overlap says what other people and    *)
(* commands change while a command runs: with Overlap = {} commands run    *)
(* one at a time on files at rest.                                         *)
(*                                                                         *)
(* A hash is the content it is a hash of.  The board of a case depends on  *)
(* its numbered files AND on the sidecars in evidence/ and measurements/   *)
(* (through the thermomechanical screen), but only the numbered files are  *)
(* hashed, by packages, records and proposals alike.  The numbered files   *)
(* are one value; of the sidecars it matters whether the screen finds      *)
(* stress and bow reviewed.  A file of a package or proposal is Absent,    *)
(* Torn (cut short), or what was written.                                  *)
(***************************************************************************)
EXTENDS RecordValidator

CONSTANTS Case,       \* states of the numbered case files, as texts
          Bodies,     \* what people write into a record
          Command,    \* calls of the commands
          Kind,       \* per call: which command it is
          Overlap,    \* what may change under a running command
          Absent, Torn, Nothing

(* What a text k comes to, beside sidecars that are reviewed or not.  The  *)
(* screen is applicable to k or not (screen_thermomechanical); if it is, k *)
(* leaves something open itself, or has everything declared, so that it is *)
(* up to the sidecars whether rule 003 triggers.                           *)
FactsOf(k, reviewed) ==
  [k EXCEPT !.thermomechanical = (@ = "open" \/ (@ = "declared" /\ ~reviewed))]

ASSUME CaseAssumption ==
  \A k \in Case : /\ k.thermomechanical \in {"not_applicable", "open", "declared"}
                  /\ \A s \in BOOLEAN : FactsOf(k, s) \in Facts
ASSUME BodyAssumption    == Bodies \subseteq Body
ASSUME KindAssumption    == \A c \in Command : Kind[c] \in {"export", "template", "propose"}
ASSUME OverlapAssumption == Overlap \subseteq {"export", "template", "propose", "package", "record"}
ASSUME ContentAssumption == Absent # Torn

(* Two cases with the same facts get the same board (up to wording).       *)
BoardFacts == {FactsOf(k, s) : k \in Case, s \in BOOLEAN}

(* build_decision_board, as far as the chain hands it on.                  *)
Board == [f \in BoardFacts |-> [status |-> StatusOf(f), routes |-> RoutesOf(f)]]

VARIABLES
  case,      \* the numbered case files
  reviewed,  \* the sidecars show reviewed evidence of stress and of bow
  package,   \* the files of the review package directory
  record,    \* the decision record file, or Absent
  proposal,  \* the files of the proposal directory
  call       \* the local state of each call

files == <<case, reviewed, package, record, proposal>>
vars  == <<case, reviewed, package, record, proposal, call>>

(* The files of a package, and of a proposal, in the order of writing.     *)
PackageFiles  == <<"preview.md", "preview.json", "manifest", "checklist">>
ProposalFiles == <<"board", "diff", "manifest", "checklist">>

NoContext == [manifest |-> Nothing, board |-> Nothing, digest |-> Nothing]

(* A call at step l: its --force, how far it is with several files, what   *)
(* it and its validator have loaded, and what it is going to write.  seen  *)
(* is no data of the program: it collects, for the properties, the states  *)
(* that the numbered files have been in since the package was first read.  *)
CallAt(l, f) == [pc |-> l, force |-> f, at |-> 1, own |-> NoContext,
                 validator |-> NoContext, draft |-> Nothing, seen |-> {}]

Init ==
  /\ case \in Case /\ reviewed \in BOOLEAN
  /\ package = [f \in Elements(PackageFiles) |-> Absent]
  /\ record = Absent
  /\ proposal = [f \in Elements(ProposalFiles) |-> Absent]
  /\ call \in [Command -> {CallAt("start", f) : f \in BOOLEAN}]

Running(c) == call[c].pc \notin {"start", "ended"}

(* Nothing runs, or the call may overlap with others.                      *)
MayDisturb(kind) == kind \in Overlap \/ \A c \in Command : ~Running(c)

(* Commands under which people edit the case may be running, no others.    *)
MayEdit == \A c \in Command : Running(c) => Kind[c] \in Overlap

GoTo(c, l) == call' = [call EXCEPT ![c].pc = l]

(* The command returns, raises or is killed; what it wrote stays.          *)
End(c) == call' = [call EXCEPT ![c] = CallAt("ended", FALSE)]

-----------------------------------------------------------------------------
(* export-decision-review                                                  *)

(* build_decision_board and the three artifacts made from the board, which *)
(* is that of the numbered files and of the sidecars.                      *)
BuildBoard(c) ==
  /\ call[c].pc = "start" /\ Kind[c] = "export" /\ MayDisturb("package")
  /\ call' = [call EXCEPT ![c].pc = "manifest",
                          ![c].draft = [board |-> FactsOf(case, reviewed), sources |-> Nothing]]
  /\ UNCHANGED files

(* build_manifest reads the numbered files again for their hashes; the     *)
(* sidecars are not hashed.                                                *)
BuildManifest(c) ==
  /\ call[c].pc = "manifest"
  /\ call' = [call EXCEPT ![c].pc = "overwrite", ![c].draft.sources = case]
  /\ UNCHANGED files

(* _validate_overwrite, of a package and of a proposal.                    *)
ValidateOverwrite(c, dir, next) ==
  /\ call[c].pc = "overwrite"
  /\ IF call[c].force \/ Elements(dir) = {Absent} THEN GoTo(c, next) ELSE End(c)
  /\ UNCHANGED files

(* What file f of a package holds if its manifest is m.                    *)
PackageContent(m, f) ==
  CASE f \in {"preview.md", "preview.json"} -> m.board
    [] f = "manifest"                       -> m
    [] f = "checklist"                      -> Nothing

(* write_text opens the file, which empties it ...                         *)
TruncateFile(c) ==
  /\ call[c].pc = "truncate"
  /\ package' = [package EXCEPT ![PackageFiles[call[c].at]] = Torn]
  /\ GoTo(c, "write")
  /\ UNCHANGED <<case, reviewed, record, proposal>>

(* ... and writes it; then comes the next one.                             *)
WriteFile(c) ==
  LET f == PackageFiles[call[c].at]
  IN /\ call[c].pc = "write"
     /\ package' = [package EXCEPT ![f] = PackageContent(call[c].draft, f)]
     /\ IF f = "checklist" THEN End(c)
        ELSE call' = [call EXCEPT ![c].pc = "truncate", ![c].at = @ + 1]
     /\ UNCHANGED <<case, reviewed, record, proposal>>

Export(c) ==
  \/ BuildBoard(c) \/ BuildManifest(c)
  \/ Kind[c] = "export" /\ ValidateOverwrite(c, package, "truncate")
  \/ TruncateFile(c) \/ WriteFile(c)

-----------------------------------------------------------------------------
(* load_verified_review_package, called by the other two commands; the     *)
(* proposer calls it a second time, through the validator.                 *)

Start(c) ==
  /\ call[c].pc = "start" /\ Kind[c] # "export" /\ MayDisturb("package")
  /\ call' = [call EXCEPT ![c].pc = "load", ![c].seen = {case}]
  /\ UNCHANGED files

Loading(c) == call[c].pc \in {"load", "reload"}

Loaded(c) == IF call[c].pc = "load" THEN call[c].own ELSE call[c].validator

(* What call c has loaded becomes x, and it goes on with part n.           *)
Load(c, x, n) ==
  call' = IF call[c].pc = "load" THEN [call EXCEPT ![c].own = x, ![c].at = n]
                                 ELSE [call EXCEPT ![c].validator = x, ![c].at = n]

(* All four files are there, and the manifest parses.                      *)
ReadManifest(c) ==
  /\ Loading(c) /\ call[c].at = 1
  /\ IF Absent \in Elements(package) \/ package["manifest"] = Torn
     THEN End(c)
     ELSE Load(c, [NoContext EXCEPT !.manifest = package["manifest"]], 2)
  /\ UNCHANGED files

(* Faulty variant: the hashes are not compared.                            *)
VerifyArtifacts_Skipped(c) ==
  /\ Loading(c) /\ call[c].at = 2
  /\ Load(c, Loaded(c), 3)
  /\ UNCHANGED files

(* The hashes of the previews and of the checklist match the manifest.     *)
VerifyArtifacts(c) ==
  /\ Loading(c) /\ call[c].at = 2
  /\ IF \A f \in {"preview.md", "preview.json", "checklist"} :
          package[f] = PackageContent(Loaded(c).manifest, f)
     THEN Load(c, Loaded(c), 3)
     ELSE End(c)
  /\ UNCHANGED files

(* The board preview is read again and parsed.                             *)
ReadPreview(c) ==
  /\ Loading(c) /\ call[c].at = 3
  /\ IF package["preview.json"] \in {Absent, Torn}
     THEN End(c)
     ELSE Load(c, [Loaded(c) EXCEPT !.board = package["preview.json"]], 4)
  /\ UNCHANGED files

(* The manifest is read again for its hash.                                *)
HashManifest(c) ==
  /\ Loading(c) /\ call[c].at = 4
  /\ Load(c, [Loaded(c) EXCEPT !.digest = package["manifest"]], 5)
  /\ UNCHANGED files

(* The context is returned to the template, the proposer, the validator.   *)
ReturnContext(c) ==
  /\ Loading(c) /\ call[c].at = 5
  /\ call' = [call EXCEPT ![c].at = 1,
       ![c].pc = IF Kind[c] = "template" THEN "create"
                 ELSE IF @ = "load" THEN "reload" ELSE "validate"]
  /\ UNCHANGED files

LoadPackage(c) ==
  \/ Start(c) \/ ReadManifest(c) \/ VerifyArtifacts(c) \/ ReadPreview(c)
  \/ HashManifest(c) \/ ReturnContext(c)

-----------------------------------------------------------------------------
(* new-decision-record                                                     *)

(* The review_package_binding of a record, and what it is compared with.   *)
Binding(x) ==
  [ digest  |-> x.digest,
    status  |-> Board[x.manifest.board].status,
    sources |-> x.manifest.sources ]

(* An existing record is refused without --force, and replaced in one step *)
(* with it (os.replace).                                                   *)
CreateRecord(c) ==
  /\ call[c].pc = "create"
  /\ End(c)
  /\ IF record # Absent /\ ~call[c].force THEN UNCHANGED record
     ELSE record' = [body |-> TemplateBody, binding |-> Binding(call[c].own)]
  /\ UNCHANGED <<case, reviewed, package, proposal>>

-----------------------------------------------------------------------------
(* propose-canonical-decision                                              *)

(* Faulty variant: of the binding, only the source hashes are compared.    *)
Judged_SameSources(r, x) ==
  Verdict(r.body, r.binding.sources = Binding(x).sources,
          [ status |-> Board[x.manifest.board].status,
            routes |-> Board[x.manifest.board].routes \cup Board[x.board].routes ])

(* A record as validate_decision_record judges it in context x.            *)
Judged(r, x) ==
  Verdict(r.body, r.binding = Binding(x),
          [ status |-> Board[x.manifest.board].status,
            routes |-> Board[x.manifest.board].routes \cup Board[x.board].routes ])

(* Faulty variant: a WARN will do.                                         *)
ValidateRecord_AllowWarn(c) ==
  /\ call[c].pc = "validate"
  /\ IF record # Absent /\ Judged(record, call[c].validator) # "FAIL"
     THEN GoTo(c, "record")
     ELSE End(c)
  /\ UNCHANGED files

(* validate_decision_record reads the record and must say PASS.            *)
ValidateRecord(c) ==
  /\ call[c].pc = "validate"
  /\ IF record # Absent /\ Judged(record, call[c].validator) = "PASS"
     THEN GoTo(c, "record")
     ELSE End(c)
  /\ UNCHANGED files

(* The record is read a second time: this one is going to be rendered.     *)
ReadRecord(c) ==
  /\ call[c].pc = "record"
  /\ IF record.body.status = "final" /\ record.body.outcome # "pending"
     THEN call' = [call EXCEPT ![c].pc = "case", ![c].draft =
            [ record |-> record, recordDigest |-> Nothing, context |-> call[c].own,
              sources |-> Nothing, base |-> Nothing ]]
     ELSE End(c)
  /\ UNCHANGED files

(* Faulty variant: the hashes of the package are taken on trust.           *)
CheckCase_Trusting(c) ==
  /\ call[c].pc = "case"
  /\ call' = [call EXCEPT ![c].pc = "render",
                          ![c].draft.sources = call[c].own.manifest.sources]
  /\ UNCHANGED files

(* The numbered files must be as the package and the record have them; the *)
(* sidecars, on which the board rests as well, are not looked at again.    *)
CheckCase(c) ==
  /\ call[c].pc = "case"
  /\ IF /\ case = call[c].own.manifest.sources
        /\ case = call[c].draft.record.binding.sources
     THEN call' = [call EXCEPT ![c].pc = "render", ![c].draft.sources = case]
     ELSE End(c)
  /\ UNCHANGED files

(* The board file is read, one of the numbered files; the proposed one and *)
(* the diff are rendered.                                                  *)
Render(c) ==
  /\ call[c].pc = "render"
  /\ call' = [call EXCEPT ![c].pc = "seal", ![c].draft.base = case]
  /\ UNCHANGED files

(* build_manifest, with a third read of the record for its hash.           *)
Seal(c) ==
  /\ call[c].pc = "seal"
  /\ call' = [call EXCEPT ![c].pc = "overwrite", ![c].draft.recordDigest = record]
  /\ UNCHANGED files

(* _write_artifacts: temporary files are moved into place one by one.      *)
Publish(c) ==
  LET f == ProposalFiles[call[c].at]
  IN /\ call[c].pc = "publish"
     /\ proposal' = [proposal EXCEPT ![f] = call[c].draft]
     /\ IF f = "checklist" THEN End(c) ELSE call' = [call EXCEPT ![c].at = @ + 1]
     /\ UNCHANGED <<case, reviewed, package, record>>

Propose(c) ==
  \/ ValidateRecord(c) \/ ReadRecord(c) \/ CheckCase(c) \/ Render(c) \/ Seal(c)
  \/ Kind[c] = "propose" /\ ValidateOverwrite(c, proposal, "publish")
  \/ Publish(c)

-----------------------------------------------------------------------------
(* A command is killed, or a system call fails.                            *)
Stop(c) ==
  /\ Running(c)
  /\ End(c)
  /\ UNCHANGED files

(* People edit the numbered files, which running calls live to see ...     *)
EditCase(k) ==
  /\ MayEdit
  /\ case' = k
  /\ call' = [c \in Command |->
       IF Running(c) /\ Kind[c] # "export" THEN [call[c] EXCEPT !.seen = @ \cup {k}] ELSE call[c]]
  /\ UNCHANGED <<reviewed, package, record, proposal>>

(* ... review sidecars or withdraw a review, and fill in the record.       *)
EditSidecars ==
  /\ MayEdit
  /\ reviewed' = ~reviewed
  /\ UNCHANGED <<case, package, record, proposal, call>>

EditRecord(b) ==
  /\ record # Absent /\ MayDisturb("record")
  /\ record' = [record EXCEPT !.body = b]
  /\ UNCHANGED <<case, reviewed, package, proposal, call>>

Next ==
  \/ \E c \in Command :
       Export(c) \/ LoadPackage(c) \/ CreateRecord(c) \/ Propose(c) \/ Stop(c)
  \/ \E k \in Case : EditCase(k)
  \/ EditSidecars
  \/ \E b \in Bodies : EditRecord(b)

Spec == Init /\ [][Next]_vars

-----------------------------------------------------------------------------
(* "A complete, hash-verified Decision Review Package": what a load ended  *)
(* with is ONE package.  Its board is the one its manifest vouches for and *)
(* its hash the hash of that manifest, although the files are read one     *)
(* after the other and a killed export may have left any of them behind.   *)
ContextCoherent ==
  \A c \in Command : \A x \in {call[c].own, call[c].validator} :
    x.digest # Nothing => x.digest = x.manifest /\ x.board = x.manifest.board

(* The files of a proposal that are in place.                              *)
Proposed == Elements(proposal) \ {Absent}

(* "HOLD packages cannot be approved", to the end of the chain: a proposal *)
(* that reports an approval or a customer release is for numbered files,   *)
(* as hashed in that proposal, that leave nothing open themselves.  The    *)
(* critical inputs are there, the comparison is reviewed, no candidate     *)
(* waits for data or validation (as every deferred one does) and, but for  *)
(* a review in the sidecars, which may have been withdrawn since, nothing  *)
(* is left to be measured or shown.  Between them lie an export, a record  *)
(* filled in by hand, a re-export perhaps, and edits of the case, the last *)
(* ones while the proposal is being made.                                  *)
ApprovalWarranted ==
  \A p \in Proposed :
    p.record.body.outcome = "approved" \/ p.record.body.release = "approved"
      => LET f == FactsOf(p.sources, TRUE)
         IN /\ f.missing = {} /\ f.reviewed /\ Secondary(f) = {}
            /\ \A r \in Elements(f.patterns) :
                 RouteStatus(f, r) \notin {"needs_data", "needs_validation"}

(* "A draft, WARN, FAIL, stale, or pending record is rejected without      *)
(* creating output": the record a proposal is rendered from is one that    *)
(* validates PASS against the package it is rendered with.                 *)
RenderedRecordPasses == \A p \in Proposed : Judged(p.record, p.context) = "PASS"

(* "A ... stale ... record is rejected": a proposal is made from a record  *)
(* that is bound to the package as it stands.  When the package has been   *)
(* exported anew since, the numbered files may be the same and only the    *)
(* sidecars, and with them the board, have changed.                        *)
StaleRecordRefused ==
  [][\A f \in Elements(ProposalFiles) :
       LET p == proposal'[f]
       IN p # proposal[f] =>
            /\ p.record.binding.digest = package["manifest"]
            /\ p.sources = package["manifest"].sources]_vars

(* "The current numbered canonical case files must still match the source  *)
(* hashes in both": a proposal, the hashes it gives and the board it is a  *)
(* diff against, is of states the numbered files were in while the command *)
(* ran, and not only when the package was exported.  (They may have been   *)
(* edited since, even between the two; nothing prevents that.)             *)
ProposalWasCurrent ==
  [][\A f \in Elements(ProposalFiles) :
       LET p == proposal'[f]
       IN p # proposal[f] =>
            \E c \in Command : call[c].pc = "publish" /\ {p.sources, p.base} \subseteq call[c].seen]_vars

(* "HOLD_FOR_DATA and HOLD_FOR_MEASUREMENT packages cannot be approved":   *)
(* no route is reported as approved on the ground of such a package.       *)
HoldApprovesNoRoute ==
  \A p \in Proposed :
    Board[p.context.manifest.board].status \in {"HOLD_FOR_DATA", "HOLD_FOR_MEASUREMENT"}
      => p.record.body.approved = <<>>
=============================================================================
