------------------------ MODULE DecisionChainProofs ------------------------
(***************************************************************************)
(* What the decision chain guarantees for any texts of a case, any records *)
(* and any number of commands, which may be killed anywhere, be repeated   *)
(* with --force, and find what others left behind.  The types, and that a  *)
(* proposal is of states the case was in meanwhile, hold whatever overlaps.*)
(* That loads and records are coherent needs that commands run one at a    *)
(* time and records are not edited meanwhile; that approvals are warranted *)
(* needs the latter, and that nobody edits the case during an export.      *)
(***************************************************************************)
EXTENDS DecisionChain, TLAPS

-----------------------------------------------------------------------------
(* Types.                                                                  *)

PackageFile == {"preview.md", "preview.json", "manifest", "checklist"}
ProposalFile == {"board", "diff", "manifest", "checklist"}

Manifest == [board : BoardFacts, sources : Case]

Context ==
  [ manifest : Manifest \cup {Nothing}, board : BoardFacts \cup {Nothing},
    digest : Manifest \cup {Absent, Torn, Nothing} ]

Bound ==
  [ digest : Manifest \cup {Absent, Torn, Nothing}, status : {StatusOf(f) : f \in BoardFacts},
    sources : Case ]

Record == [body : Bodies \cup {TemplateBody}, binding : Bound]

Unhashed == [board : BoardFacts, sources : {Nothing}]

Proposal ==
  [ record : Record, recordDigest : Record \cup {Absent, Nothing}, context : Context,
    sources : Case \cup {Nothing}, base : Case \cup {Nothing} ]

Label == {"start", "ended", "manifest", "overwrite", "truncate", "write", "load", "reload",
          "create", "validate", "record", "case", "render", "seal", "publish"}

CallState ==
  [ pc : Label, force : BOOLEAN, at : 1..5, own : Context, validator : Context,
    draft : Unhashed \cup Manifest \cup Proposal \cup {Nothing}, seen : SUBSET Case ]

FilesOK ==
  /\ case \in Case
  /\ reviewed \in BOOLEAN
  /\ package \in [PackageFile -> BoardFacts \cup Manifest \cup {Absent, Torn, Nothing}]
  /\ package["manifest"] \in Manifest \cup {Absent, Torn}
  /\ package["preview.json"] \in BoardFacts \cup {Absent, Torn}
  /\ record \in Record \cup {Absent}
  /\ proposal \in [ProposalFile -> Proposal \cup {Absent}]

TypeOK == FilesOK /\ call \in [Command -> CallState]

(* The steps of a proposal: with a record validated, and rendered from it. *)
Validated == {"record", "case", "render", "seal", "overwrite", "publish"}
Rendering == {"case", "render", "seal", "overwrite", "publish"}

(* What a call at a step has in its hands.                                 *)
Shape(c, k) ==
  LET kind == Kind[c]
  IN /\ k.pc \in {"manifest", "truncate", "write"} => kind = "export"
     /\ k.pc \in {"load", "create"} => kind # "export"
     /\ k.pc = "create" => kind = "template"
     /\ k.pc \in {"reload", "validate"} \cup Validated /\ ~(kind = "export" /\ k.pc = "overwrite")
          => kind = "propose"
     /\ k.pc = "manifest" => k.draft \in Unhashed
     /\ kind = "export" /\ k.pc \in {"overwrite", "truncate", "write"} => k.draft \in Manifest
     /\ kind = "propose" /\ k.pc \in Rendering => k.draft \in Proposal
     /\ k.pc = "load" /\ k.at > 1 => k.own.manifest \in Manifest
     /\ k.pc \in {"create", "reload", "validate"} => k.own.manifest \in Manifest
     /\ kind = "propose" /\ k.pc \in Validated => k.own.manifest \in Manifest
     /\ k.pc = "reload" /\ k.at > 1 => k.validator.manifest \in Manifest
     /\ k.pc = "validate" => k.validator.manifest \in Manifest
     /\ k.pc \in {"truncate", "write", "publish"} => k.at \in 1..4
     /\ k.pc \notin {"truncate", "write", "publish", "load", "reload"} => k.at = 1

(* A record that has been validated is still there, if not the same.       *)
Recorded ==
  \A c \in Command : Kind[c] = "propose" /\ call[c].pc \in Validated => record \in Record

Shaped == TypeOK /\ Recorded /\ \A c \in Command : Shape(c, call[c])

-----------------------------------------------------------------------------
(* Names of files.                                                         *)

LEMMA PackageNames ==
  /\ Elements(PackageFiles) = PackageFile
  /\ PackageFiles[1] = "preview.md" /\ PackageFiles[2] = "preview.json"
  /\ PackageFiles[3] = "manifest" /\ PackageFiles[4] = "checklist"
<1>1. DOMAIN PackageFiles = {1, 2, 3, 4}
  BY DEF PackageFiles
<1>2. /\ PackageFiles[1] = "preview.md" /\ PackageFiles[2] = "preview.json"
      /\ PackageFiles[3] = "manifest" /\ PackageFiles[4] = "checklist"
  BY DEF PackageFiles
<1> QED
  BY <1>1, <1>2 DEF Elements, PackageFile

LEMMA ProposalNames ==
  /\ Elements(ProposalFiles) = ProposalFile
  /\ \A n \in 1..4 : ProposalFiles[n] \in ProposalFile /\ (ProposalFiles[n] = "checklist" <=> n = 4)
<1>1. DOMAIN ProposalFiles = {1, 2, 3, 4} /\ 1..4 = {1, 2, 3, 4}
  BY DEF ProposalFiles
<1>2. /\ ProposalFiles[1] = "board" /\ ProposalFiles[2] = "diff"
      /\ ProposalFiles[3] = "manifest" /\ ProposalFiles[4] = "checklist"
  BY DEF ProposalFiles
<1> QED
  BY <1>1, <1>2 DEF Elements, ProposalFile

LEMMA NoContextTyped ==
  NoContext \in Context /\ NoContext = [manifest |-> Nothing, board |-> Nothing, digest |-> Nothing]
  BY DEF NoContext, Context

LEMMA BoardTyped ==
  /\ FactsOf(case, reviewed) \in BoardFacts \/ ~FilesOK
  /\ \A f \in BoardFacts : Board[f].status = StatusOf(f)
  BY DEF BoardFacts, Board, FilesOK

LEMMA BindingTyped ==
  ASSUME NEW x \in Context, x.manifest \in Manifest
  PROVE  Binding(x) \in Bound
<1>1. x.manifest.board \in BoardFacts /\ x.manifest.sources \in Case
  BY DEF Manifest
<1>2. Board[x.manifest.board].status = StatusOf(x.manifest.board)
  BY <1>1, BoardTyped
<1> QED
  BY <1>1, <1>2 DEF Binding, Bound, Context

-----------------------------------------------------------------------------
(* Steps of one call keep the shape of all.                                *)

LEMMA CallNow ==
  ASSUME Shaped, NEW c \in Command
  PROVE  /\ call[c] \in CallState /\ Shape(c, call[c]) /\ DOMAIN call = Command /\ FilesOK
         /\ Kind[c] = "propose" /\ call[c].pc \in Validated => record \in Record
  BY DEF Shaped, TypeOK, Recorded

LEMMA CallStep ==
  ASSUME Shaped, NEW c \in Command, NEW x \in CallState, call' = [call EXCEPT ![c] = x],
         FilesOK', Shape(c, x), record \in Record => record' \in Record,
         Kind[c] = "propose" /\ x.pc \in Validated => record \in Record
  PROVE  Shaped'
<1>1. call' \in [Command -> CallState] /\ call'[c] = x
      /\ \A d \in Command : d # c => call'[d] = call[d]
  BY DEF Shaped, TypeOK
<1>2. Recorded'
  BY <1>1 DEF Shaped, Recorded
<1>3. \A d \in Command : Shape(d, call'[d])
  BY <1>1 DEF Shaped
<1> QED
  BY <1>1, <1>2, <1>3 DEF Shaped, TypeOK, Shape, Validated, Rendering

LEMMA FilesStay ==
  ASSUME FilesOK, UNCHANGED files
  PROVE  FilesOK' /\ record' = record
  BY DEF FilesOK, files

LEMMA Ended ==
  ASSUME Shaped, NEW c \in Command, End(c), FilesOK', record \in Record => record' \in Record
  PROVE  Shaped'
<1> DEFINE x == CallAt("ended", FALSE)
<1>1. x \in CallState
  BY NoContextTyped DEF CallAt, CallState, Label
<1>2. Shape(c, x) /\ x.pc \notin Validated
  BY DEF Shape, CallAt, Validated, Rendering
<1> QED
  BY <1>1, <1>2, CallStep DEF End

(* A step that reads is judged by what it makes of the call.               *)
LEMMA Reading ==
  ASSUME Shaped, NEW c \in Command, NEW x \in CallState, call' = [call EXCEPT ![c] = x],
         UNCHANGED files, Shape(c, x), Kind[c] = "propose" /\ x.pc \in Validated => record \in Record
  PROVE  Shaped'
  BY FilesStay, CallStep, CallNow

LEMMA EndsReading ==
  ASSUME Shaped, NEW c \in Command, End(c), UNCHANGED files
  PROVE  Shaped'
  BY FilesStay, Ended, CallNow

LEMMA BuildBoardShaped ==
  ASSUME Shaped, NEW c \in Command, BuildBoard(c)
  PROVE  Shaped'
<1> DEFINE d == [board |-> FactsOf(case, reviewed), sources |-> Nothing]
           x == [call[c] EXCEPT !.pc = "manifest", !.draft = d]
<1>1. /\ call[c] \in CallState /\ Shape(c, call[c]) /\ DOMAIN call = Command /\ FilesOK
      /\ call[c].pc = "start" /\ Kind[c] = "export" /\ UNCHANGED files
  BY CallNow DEF BuildBoard
<1>2. d \in Unhashed
  BY <1>1, BoardTyped DEF Unhashed
<1>3. call[c].at = 1 /\ x.at = 1 /\ x.pc = "manifest" /\ x.draft = d
  BY <1>1 DEF CallState, Shape
<1> HIDE DEF d
<1>4. x \in CallState /\ Shape(c, x)
  BY <1>1, <1>2, <1>3 DEF CallState, Label, Shape, Validated, Rendering
<1>5. call' = [call EXCEPT ![c] = x]
  BY <1>1 DEF BuildBoard, d
<1> QED
  BY <1>1, <1>3, <1>4, <1>5, Reading

LEMMA BuildManifestShaped ==
  ASSUME Shaped, NEW c \in Command, BuildManifest(c)
  PROVE  Shaped'
<1> DEFINE m == [call[c].draft EXCEPT !.sources = case]
           x == [call[c] EXCEPT !.pc = "overwrite", !.draft = m]
<1>1. /\ call[c] \in CallState /\ Shape(c, call[c]) /\ DOMAIN call = Command /\ FilesOK
      /\ call[c].pc = "manifest" /\ UNCHANGED files
  BY CallNow DEF BuildManifest
<1>2. Kind[c] = "export" /\ call[c].draft \in Unhashed /\ call[c].at = 1
  BY <1>1 DEF Shape
<1>3. m \in Manifest
  BY <1>1, <1>2 DEF Unhashed, Manifest, FilesOK
<1>4. x.at = 1 /\ x.pc = "overwrite" /\ x.draft = m
  BY <1>1, <1>2 DEF CallState
<1>5. call' = [call EXCEPT ![c] = x]
  BY <1>1 DEF BuildManifest
<1> HIDE DEF m
<1>6. x \in CallState /\ Shape(c, x)
  BY <1>1, <1>2, <1>3, <1>4 DEF CallState, Label, Shape, Validated, Rendering
<1> QED
  BY <1>1, <1>2, <1>5, <1>6, Reading

(* The check for existing files, of both commands that write several.      *)
LEMMA ValidateOverwriteShaped ==
  ASSUME Shaped, NEW c \in Command, NEW dir, NEW next,
         \/ Kind[c] = "export" /\ next = "truncate"
         \/ Kind[c] = "propose" /\ next = "publish",
         ValidateOverwrite(c, dir, next)
  PROVE  Shaped'
<1> DEFINE x == [call[c] EXCEPT !.pc = next]
<1>1. /\ call[c] \in CallState /\ Shape(c, call[c]) /\ DOMAIN call = Command
      /\ call[c].pc = "overwrite" /\ UNCHANGED files
      /\ Kind[c] = "propose" => record \in Record
  BY CallNow DEF ValidateOverwrite, Validated
<1>2. CASE End(c)
  BY <1>1, <1>2, EndsReading
<1>3. CASE GoTo(c, next)
  <2>1. call' = [call EXCEPT ![c] = x]
    BY <1>1, <1>3 DEF GoTo
  <2>2. x.pc = next /\ x.at = 1 /\ x.draft = call[c].draft /\ x.own = call[c].own
    BY <1>1 DEF CallState, Shape
  <2>3. x \in CallState /\ Shape(c, x)
    BY <1>1, <2>2 DEF CallState, Label, Shape, Validated, Rendering
  <2> QED
    BY <1>1, <2>1, <2>3, Reading
<1> QED
  BY <1>2, <1>3 DEF ValidateOverwrite

LEMMA TruncateFileShaped ==
  ASSUME Shaped, NEW c \in Command, TruncateFile(c)
  PROVE  Shaped'
<1> DEFINE x == [call[c] EXCEPT !.pc = "write"]
<1>1. /\ call[c] \in CallState /\ Shape(c, call[c]) /\ DOMAIN call = Command /\ FilesOK
      /\ call[c].pc = "truncate" /\ UNCHANGED <<case, reviewed, record, proposal>>
      /\ package' = [package EXCEPT ![PackageFiles[call[c].at]] = Torn]
  BY CallNow DEF TruncateFile
<1>2. x.pc = "write" /\ x.at = call[c].at /\ x.draft = call[c].draft
  BY <1>1 DEF CallState
<1>3. x \in CallState /\ Shape(c, x)
  BY <1>1, <1>2 DEF CallState, Label, Shape, Validated, Rendering
<1>4. FilesOK'
  BY <1>1 DEF FilesOK, PackageFile
<1>5. call' = [call EXCEPT ![c] = x] /\ Kind[c] = "export"
  BY <1>1 DEF TruncateFile, GoTo, Shape
<1> QED
  BY <1>1, <1>3, <1>4, <1>5, CallStep

(* What is written into the package is what the call has prepared.         *)
LEMMA Written ==
  ASSUME Shaped, NEW c \in Command, WriteFile(c)
  PROVE  LET f == PackageFiles[call[c].at]
         IN /\ f \in PackageFile /\ (f # "checklist" => call[c].at + 1 \in 1..4)
            /\ package' = [package EXCEPT ![f] = PackageContent(call[c].draft, f)]
            /\ f \in {"preview.md", "preview.json"} =>
                 PackageContent(call[c].draft, f) = call[c].draft.board
            /\ f = "manifest" => PackageContent(call[c].draft, f) = call[c].draft
            /\ f = "checklist" => PackageContent(call[c].draft, f) = Nothing
<1>1. call[c].at \in {1, 2, 3, 4}
  BY CallNow DEF WriteFile, Shape
<1> QED
  BY <1>1, PackageNames DEF WriteFile, PackageFile, PackageContent

LEMMA WriteFileShaped ==
  ASSUME Shaped, NEW c \in Command, WriteFile(c)
  PROVE  Shaped'
<1> DEFINE f == PackageFiles[call[c].at]
           m == call[c].draft
           x == [call[c] EXCEPT !.pc = "truncate", !.at = call[c].at + 1]
<1>1. /\ call[c] \in CallState /\ Shape(c, call[c]) /\ DOMAIN call = Command /\ FilesOK
      /\ call[c].pc = "write" /\ UNCHANGED <<case, reviewed, record, proposal>>
  BY CallNow DEF WriteFile
<1>2. Kind[c] = "export" /\ m \in Manifest /\ m.board \in BoardFacts
  BY <1>1 DEF Shape, Manifest
<1>3. /\ f \in PackageFile /\ (f # "checklist" => call[c].at + 1 \in 1..4)
      /\ package' = [package EXCEPT ![f] = PackageContent(m, f)]
      /\ f \in {"preview.md", "preview.json"} => PackageContent(m, f) = m.board
      /\ f = "manifest" => PackageContent(m, f) = m
      /\ f = "checklist" => PackageContent(m, f) = Nothing
  BY Written
<1> HIDE DEF f, m
<1>4. FilesOK'
  BY <1>1, <1>2, <1>3 DEF FilesOK, PackageFile
<1>5. CASE End(c)
  BY <1>1, <1>4, <1>5, Ended
<1>6. CASE f # "checklist" /\ call' = [call EXCEPT ![c] = x]
  <2>1. x.pc = "truncate" /\ x.at = call[c].at + 1 /\ x.at \in 1..4 /\ x.draft = m
    BY <1>1, <1>3, <1>6 DEF CallState, m
  <2>2. x \in CallState
    <3>1. "truncate" \in Label /\ call[c].at + 1 \in 1..5
      BY <1>3, <1>6 DEF Label
    <3> QED
      BY <1>1, <3>1 DEF CallState
  <2>3. Shape(c, x)
    BY <1>2, <2>1 DEF Shape, Validated, Rendering
  <2> QED
    BY <1>1, <1>2, <1>4, <1>6, <2>1, <2>2, <2>3, CallStep
<1> QED
  BY <1>5, <1>6 DEF WriteFile, f, m

LEMMA ExportShaped ==
  ASSUME Shaped, NEW c \in Command, Export(c)
  PROVE  Shaped'
  BY BuildBoardShaped, BuildManifestShaped, ValidateOverwriteShaped, TruncateFileShaped,
     WriteFileShaped DEF Export

LEMMA StartShaped ==
  ASSUME Shaped, NEW c \in Command, Start(c)
  PROVE  Shaped'
<1> DEFINE x == [call[c] EXCEPT !.pc = "load", !.seen = {case}]
<1>1. /\ call[c] \in CallState /\ Shape(c, call[c]) /\ DOMAIN call = Command /\ FilesOK
      /\ call[c].pc = "start" /\ Kind[c] # "export" /\ UNCHANGED files
      /\ call' = [call EXCEPT ![c] = x]
  BY CallNow DEF Start
<1>2. x.pc = "load" /\ x.at = 1
  BY <1>1 DEF CallState, Shape
<1>3. x \in CallState
  <2>1. "load" \in Label /\ {case} \in SUBSET Case
    BY <1>1 DEF Label, FilesOK
  <2> QED
    BY <1>1, <2>1 DEF CallState
<1>4. Shape(c, x)
  BY <1>1, <1>2 DEF Shape, Validated, Rendering
<1> QED
  BY <1>1, <1>2, <1>3, <1>4, Reading DEF Validated

(* A part of a load.                                                       *)
LEMMA LoadShaped ==
  ASSUME Shaped, NEW c \in Command, Loading(c), NEW y \in Context, NEW n \in 2..5,
         y.manifest \in Manifest, Load(c, y, n), UNCHANGED files
  PROVE  Shaped'
<1>1. call[c] \in CallState /\ Shape(c, call[c]) /\ DOMAIN call = Command
  BY CallNow
<1>2. CASE call[c].pc = "load"
  <2> DEFINE x == [call[c] EXCEPT !.own = y, !.at = n]
  <2>1. call' = [call EXCEPT ![c] = x]
    BY <1>1, <1>2 DEF Load
  <2>2. x.pc = "load" /\ x.at = n /\ x.own = y
    BY <1>1, <1>2 DEF CallState
  <2>3. x \in CallState
    <3>1. n \in 1..5
      OBVIOUS
    <3> QED
      BY <1>1, <3>1 DEF CallState
  <2>4. Shape(c, x)
    BY <1>1, <1>2, <2>2 DEF Shape, Validated, Rendering
  <2> QED
    BY <2>1, <2>2, <2>3, <2>4, Reading DEF Validated
<1>3. CASE call[c].pc = "reload"
  <2> DEFINE x == [call[c] EXCEPT !.validator = y, !.at = n]
  <2>1. call' = [call EXCEPT ![c] = x]
    BY <1>1, <1>3 DEF Load
  <2>2. x.pc = "reload" /\ x.at = n /\ x.own = call[c].own /\ x.validator = y
    BY <1>1, <1>3 DEF CallState
  <2>3. x \in CallState
    <3>1. n \in 1..5
      OBVIOUS
    <3> QED
      BY <1>1, <3>1 DEF CallState
  <2>4. Shape(c, x)
    BY <1>1, <1>3, <2>2 DEF Shape, Validated, Rendering
  <2> QED
    BY <2>1, <2>2, <2>3, <2>4, Reading DEF Validated
<1> QED
  BY <1>2, <1>3 DEF Loading

(* What has been loaded so far.                                            *)
LEMMA LoadNow ==
  ASSUME Shaped, NEW c \in Command, Loading(c)
  PROVE  /\ Loaded(c) \in Context /\ call[c].at \in 1..5
         /\ call[c].at > 1 => Loaded(c).manifest \in Manifest
         /\ call[c].pc \in {"load", "reload"}
  BY CallNow DEF Loading, Loaded, CallState, Shape

LEMMA ReadManifestShaped ==
  ASSUME Shaped, NEW c \in Command, ReadManifest(c)
  PROVE  Shaped'
<1>1. Loading(c) /\ UNCHANGED files
  BY DEF ReadManifest
<1>2. CASE End(c)
  BY <1>1, <1>2, EndsReading
<1>3. CASE /\ Absent \notin Elements(package) /\ package["manifest"] # Torn
           /\ Load(c, [NoContext EXCEPT !.manifest = package["manifest"]], 2)
  <2> DEFINE y == [NoContext EXCEPT !.manifest = package["manifest"]]
  <2>1. package["manifest"] \in Manifest
    BY <1>3 DEF Shaped, TypeOK, FilesOK, PackageFile, Elements
  <2>2. y \in Context /\ y.manifest \in Manifest
    BY <2>1 DEF NoContext, Context
  <2>3. Load(c, y, 2) /\ 2 \in 2..5
    BY <1>3
  <2> HIDE DEF y
  <2> QED
    BY <1>1, <2>2, <2>3, LoadShaped
<1> QED
  BY <1>2, <1>3 DEF ReadManifest

LEMMA VerifyArtifactsShaped ==
  ASSUME Shaped, NEW c \in Command, VerifyArtifacts(c)
  PROVE  Shaped'
<1>1. Loading(c) /\ UNCHANGED files /\ Loaded(c) \in Context /\ Loaded(c).manifest \in Manifest
  BY LoadNow DEF VerifyArtifacts
<1> QED
  BY <1>1, EndsReading, LoadShaped DEF VerifyArtifacts

LEMMA ReadPreviewShaped ==
  ASSUME Shaped, NEW c \in Command, ReadPreview(c)
  PROVE  Shaped'
<1> DEFINE y == [Loaded(c) EXCEPT !.board = package["preview.json"]]
<1>1. Loading(c) /\ UNCHANGED files /\ Loaded(c) \in Context /\ Loaded(c).manifest \in Manifest
  BY LoadNow DEF ReadPreview
<1>2. CASE package["preview.json"] \notin {Absent, Torn} /\ Load(c, y, 4)
  <2>1. package["preview.json"] \in BoardFacts
    BY <1>2 DEF Shaped, TypeOK, FilesOK
  <2>2. y \in Context /\ y.manifest \in Manifest
    BY <1>1, <2>1 DEF Context
  <2> HIDE DEF y
  <2> QED
    BY <1>1, <1>2, <2>2, LoadShaped
<1> QED
  BY <1>1, <1>2, EndsReading DEF ReadPreview

LEMMA HashManifestShaped ==
  ASSUME Shaped, NEW c \in Command, HashManifest(c)
  PROVE  Shaped'
<1> DEFINE y == [Loaded(c) EXCEPT !.digest = package["manifest"]]
<1>1. Loading(c) /\ UNCHANGED files /\ Loaded(c) \in Context /\ Loaded(c).manifest \in Manifest
  BY LoadNow DEF HashManifest
<1>2. y \in Context /\ y.manifest \in Manifest
  BY <1>1 DEF Context, Shaped, TypeOK, FilesOK
<1>3. Load(c, y, 5)
  BY DEF HashManifest
<1> HIDE DEF y
<1> QED
  BY <1>1, <1>2, <1>3, LoadShaped

(* Where a call goes with its context.                                     *)
LEMMA Returning ==
  ASSUME Shaped, NEW c \in Command, ReturnContext(c)
  PROVE  \E l \in {"create", "reload", "validate"} :
           /\ l = "create" <=> Kind[c] = "template"
           /\ l = "reload" <=> Kind[c] # "template" /\ call[c].pc = "load"
           /\ call' = [call EXCEPT ![c] = [call[c] EXCEPT !.at = 1, !.pc = l]]
<1> DEFINE l == IF Kind[c] = "template" THEN "create"
                ELSE IF call[c].pc = "load" THEN "reload" ELSE "validate"
<1>1. /\ l \in {"create", "reload", "validate"}
      /\ l = "create" <=> Kind[c] = "template"
      /\ l = "reload" <=> Kind[c] # "template" /\ call[c].pc = "load"
  OBVIOUS
<1>2. call' = [call EXCEPT ![c] = [call[c] EXCEPT !.at = 1, !.pc = l]]
  BY DEF ReturnContext
<1> QED
  BY <1>1, <1>2

LEMMA ReturnContextShaped ==
  ASSUME Shaped, NEW c \in Command, ReturnContext(c)
  PROVE  Shaped'
<1>1. /\ call[c] \in CallState /\ Shape(c, call[c]) /\ DOMAIN call = Command
      /\ call[c].at = 5 /\ call[c].pc \in {"load", "reload"} /\ UNCHANGED files
  BY CallNow DEF ReturnContext, Loading
<1>2. PICK l \in {"create", "reload", "validate"} :
        /\ l = "create" <=> Kind[c] = "template"
        /\ l = "reload" <=> Kind[c] # "template" /\ call[c].pc = "load"
        /\ call' = [call EXCEPT ![c] = [call[c] EXCEPT !.at = 1, !.pc = l]]
  BY Returning
<1> DEFINE x == [call[c] EXCEPT !.at = 1, !.pc = l]
<1>3. x.pc = l /\ x.at = 1 /\ x.own = call[c].own /\ x.validator = call[c].validator
  BY <1>1 DEF CallState
<1>4. x \in CallState
  <2>1. l \in Label /\ 1 \in 1..5
    BY <1>2 DEF Label
  <2> QED
    BY <1>1, <2>1 DEF CallState
<1>5. Shape(c, x)
  BY <1>1, <1>2, <1>3, KindAssumption DEF Shape, Validated, Rendering
<1> QED
  BY <1>1, <1>2, <1>3, <1>4, <1>5, Reading DEF Validated

LEMMA LoadPackageShaped ==
  ASSUME Shaped, NEW c \in Command, LoadPackage(c)
  PROVE  Shaped'
  BY StartShaped, ReadManifestShaped, VerifyArtifactsShaped, ReadPreviewShaped,
     HashManifestShaped, ReturnContextShaped DEF LoadPackage

LEMMA CreateRecordShaped ==
  ASSUME Shaped, NEW c \in Command, CreateRecord(c)
  PROVE  Shaped'
<1> DEFINE r == [body |-> TemplateBody, binding |-> Binding(call[c].own)]
<1>1. /\ call[c] \in CallState /\ Shape(c, call[c]) /\ FilesOK /\ call[c].pc = "create" /\ End(c)
      /\ UNCHANGED <<case, reviewed, package, proposal>>
      /\ record' = record \/ record' = r
  BY CallNow DEF CreateRecord
<1>2. r \in Record
  BY <1>1, BindingTyped DEF Shape, CallState, Record
<1>3. FilesOK' /\ (record \in Record => record' \in Record)
  BY <1>1, <1>2 DEF FilesOK
<1> QED
  BY <1>1, <1>3, Ended

-----------------------------------------------------------------------------
(* The steps of a proposal, and the other steps.                           *)

LEMMA ValidateRecordShaped ==
  ASSUME Shaped, NEW c \in Command, ValidateRecord(c)
  PROVE  Shaped'
<1> DEFINE x == [call[c] EXCEPT !.pc = "record"]
<1>1. /\ call[c] \in CallState /\ Shape(c, call[c]) /\ DOMAIN call = Command /\ FilesOK
      /\ call[c].pc = "validate" /\ UNCHANGED files
  BY CallNow DEF ValidateRecord
<1>2. CASE End(c)
  BY <1>1, <1>2, EndsReading
<1>3. CASE record # Absent /\ GoTo(c, "record")
  <2>1. call' = [call EXCEPT ![c] = x] /\ record \in Record
    BY <1>1, <1>3 DEF GoTo, FilesOK
  <2>2. x.pc = "record" /\ x.at = 1 /\ x.own = call[c].own /\ x.validator = call[c].validator
    BY <1>1 DEF CallState, Shape
  <2>3. x \in CallState
    BY <1>1 DEF CallState, Label
  <2>4. Shape(c, x)
    BY <1>1, <2>2 DEF Shape, Validated, Rendering
  <2> QED
    BY <1>1, <2>1, <2>3, <2>4, Reading
<1> QED
  BY <1>2, <1>3 DEF ValidateRecord

(* The four steps that follow each add to what is going to be published.   *)
LEMMA PreparingShaped ==
  ASSUME Shaped, NEW c \in Command, UNCHANGED files, call[c].pc \in {"record", "case", "render", "seal"},
         NEW l \in {"case", "render", "seal", "overwrite"}, NEW d \in Proposal,
         call' = [call EXCEPT ![c] = [call[c] EXCEPT !.pc = l, !.draft = d]]
  PROVE  Shaped'
<1> DEFINE x == [call[c] EXCEPT !.pc = l, !.draft = d]
<1>1. /\ call[c] \in CallState /\ Shape(c, call[c]) /\ DOMAIN call = Command
      /\ Kind[c] = "propose" /\ record \in Record
  BY CallNow DEF Shape, Validated
<1>2. x.pc = l /\ x.at = 1 /\ x.own = call[c].own /\ x.draft = d
  BY <1>1 DEF CallState, Shape
<1>3. x \in CallState
  BY <1>1 DEF CallState, Label
<1>4. Shape(c, x)
  BY <1>1, <1>2 DEF Shape, Validated, Rendering
<1> QED
  BY <1>1, <1>3, <1>4, Reading

(* What a proposer has in its hands.                                       *)
LEMMA ProposerNow ==
  ASSUME Shaped, NEW c \in Command, call[c].pc \in {"record", "case", "render", "seal", "publish"}
  PROVE  /\ Kind[c] = "propose" /\ record \in Record /\ case \in Case
         /\ call[c].own \in Context /\ call[c].own.manifest \in Manifest
         /\ call[c].pc # "record" => call[c].draft \in Proposal
  BY CallNow DEF Shape, Validated, Rendering, CallState, FilesOK

LEMMA ReadRecordShaped ==
  ASSUME Shaped, NEW c \in Command, ReadRecord(c)
  PROVE  Shaped'
<1> DEFINE d == [ record |-> record, recordDigest |-> Nothing, context |-> call[c].own,
                  sources |-> Nothing, base |-> Nothing ]
<1>1. call[c].pc = "record" /\ UNCHANGED files /\ DOMAIN call = Command
  BY CallNow DEF ReadRecord
<1>2. CASE End(c)
  BY <1>1, <1>2, EndsReading
<1>3. CASE call' = [call EXCEPT ![c].pc = "case", ![c].draft = d]
  <2>1. d \in Proposal
    BY <1>1, ProposerNow DEF Proposal
  <2>2. call' = [call EXCEPT ![c] = [call[c] EXCEPT !.pc = "case", !.draft = d]]
    BY <1>1, <1>3
  <2> HIDE DEF d
  <2> QED
    BY <1>1, <2>1, <2>2, PreparingShaped
<1> QED
  BY <1>2, <1>3 DEF ReadRecord

LEMMA CheckCaseShaped ==
  ASSUME Shaped, NEW c \in Command, CheckCase(c)
  PROVE  Shaped'
<1> DEFINE d == [call[c].draft EXCEPT !.sources = case]
<1>1. call[c].pc = "case" /\ UNCHANGED files /\ DOMAIN call = Command
  BY CallNow DEF CheckCase
<1>2. CASE End(c)
  BY <1>1, <1>2, EndsReading
<1>3. CASE call' = [call EXCEPT ![c].pc = "render", ![c].draft.sources = case]
  <2>1. d \in Proposal
    BY <1>1, ProposerNow DEF Proposal
  <2>2. call' = [call EXCEPT ![c] = [call[c] EXCEPT !.pc = "render", !.draft = d]]
    BY <1>1, <1>3
  <2> HIDE DEF d
  <2> QED
    BY <1>1, <2>1, <2>2, PreparingShaped
<1> QED
  BY <1>2, <1>3 DEF CheckCase

LEMMA RenderShaped ==
  ASSUME Shaped, NEW c \in Command, Render(c)
  PROVE  Shaped'
<1> DEFINE d == [call[c].draft EXCEPT !.base = case]
<1>1. call[c].pc = "render" /\ UNCHANGED files /\ DOMAIN call = Command
  BY CallNow DEF Render
<1>2. d \in Proposal
  BY <1>1, ProposerNow DEF Proposal
<1>3. call' = [call EXCEPT ![c] = [call[c] EXCEPT !.pc = "seal", !.draft = d]]
  BY <1>1 DEF Render
<1> HIDE DEF d
<1> QED
  BY <1>1, <1>2, <1>3, PreparingShaped

LEMMA SealShaped ==
  ASSUME Shaped, NEW c \in Command, Seal(c)
  PROVE  Shaped'
<1> DEFINE d == [call[c].draft EXCEPT !.recordDigest = record]
<1>1. call[c].pc = "seal" /\ UNCHANGED files /\ DOMAIN call = Command
  BY CallNow DEF Seal
<1>2. d \in Proposal
  BY <1>1, ProposerNow DEF Proposal
<1>3. call' = [call EXCEPT ![c] = [call[c] EXCEPT !.pc = "overwrite", !.draft = d]]
  BY <1>1 DEF Seal
<1> HIDE DEF d
<1> QED
  BY <1>1, <1>2, <1>3, PreparingShaped

LEMMA PublishShaped ==
  ASSUME Shaped, NEW c \in Command, Publish(c)
  PROVE  /\ Shaped'
         /\ ProposalFiles[call[c].at] \in ProposalFile
         /\ proposal' = [proposal EXCEPT ![ProposalFiles[call[c].at]] = call[c].draft]
         /\ call' = [call EXCEPT ![c].at = @ + 1] \/ End(c)
<1> DEFINE f == ProposalFiles[call[c].at]
           x == [call[c] EXCEPT !.at = call[c].at + 1]
<1>1. /\ call[c] \in CallState /\ Shape(c, call[c]) /\ DOMAIN call = Command
      /\ call[c].pc = "publish" /\ UNCHANGED <<case, reviewed, package, record>>
      /\ FilesOK /\ call[c].at \in 1..4 /\ record \in Record /\ call[c].draft \in Proposal
  BY CallNow, ProposerNow DEF Publish, Shape
<1>2. f \in ProposalFile /\ (f # "checklist" => call[c].at + 1 \in 1..4)
  BY <1>1, ProposalNames
<1>3. proposal' = [proposal EXCEPT ![f] = call[c].draft]
  BY DEF Publish
<1>4. FilesOK'
  BY <1>1, <1>2, <1>3 DEF FilesOK
<1>5. CASE End(c)
  BY <1>1, <1>2, <1>3, <1>4, <1>5, Ended
<1>6. CASE f # "checklist" /\ call' = [call EXCEPT ![c].at = @ + 1]
  <2>1. call' = [call EXCEPT ![c] = x]
    BY <1>6
  <2>2. x.pc = "publish" /\ x.at \in 1..4 /\ x.own = call[c].own /\ x.draft = call[c].draft
    BY <1>1, <1>2, <1>6 DEF CallState
  <2>3. x \in CallState
    <3>1. call[c].at + 1 \in 1..5
      BY <1>2, <1>6
    <3> QED
      BY <1>1, <3>1 DEF CallState
  <2>4. Shape(c, x)
    BY <1>1, <2>2 DEF Shape, Validated, Rendering
  <2> QED
    BY <1>1, <1>2, <1>3, <1>4, <1>6, <2>1, <2>3, <2>4, CallStep
<1> QED
  BY <1>5, <1>6 DEF Publish

LEMMA ProposeShaped ==
  ASSUME Shaped, NEW c \in Command, Propose(c)
  PROVE  Shaped'
  BY ValidateRecordShaped, ReadRecordShaped, CheckCaseShaped, RenderShaped, SealShaped,
     ValidateOverwriteShaped, PublishShaped DEF Propose

LEMMA EditsShaped ==
  ASSUME Shaped,
         \/ \E k \in Case : EditCase(k)
         \/ EditSidecars
         \/ \E b \in Bodies : EditRecord(b)
  PROVE  Shaped'
<1>1. ASSUME NEW k \in Case, EditCase(k) PROVE Shaped'
  <2>1. FilesOK' /\ record' = record
    BY <1>1 DEF EditCase, Shaped, TypeOK, FilesOK
  <2>2. ASSUME NEW c \in Command
        PROVE  call'[c] \in CallState /\ Shape(c, call'[c]) /\ call'[c].pc = call[c].pc
    <3>1. call[c] \in CallState /\ Shape(c, call[c])
      BY CallNow
    <3> DEFINE x == [call[c] EXCEPT !.seen = call[c].seen \cup {k}]
    <3>2. x \in CallState
      <4>1. call[c].seen \cup {k} \in SUBSET Case
        BY <3>1 DEF CallState
      <4> QED
        BY <3>1, <4>1 DEF CallState
    <3>3. /\ x.pc = call[c].pc /\ x.at = call[c].at /\ x.own = call[c].own
          /\ x.validator = call[c].validator /\ x.draft = call[c].draft
      BY <3>1 DEF CallState
    <3>4. Shape(c, x)
      BY <3>1, <3>3 DEF Shape
    <3>5. call'[c] = x \/ call'[c] = call[c]
      BY <1>1 DEF EditCase
    <3> QED
      BY <3>1, <3>2, <3>3, <3>4, <3>5
  <2>3. call' \in [Command -> CallState]
    BY <1>1, <2>2 DEF EditCase
  <2>4. Recorded'
    BY <2>1, <2>2 DEF Shaped, Recorded
  <2>5. (\A c \in Command : Shape(c, call[c]))'
    BY <2>2 DEF Shape, Validated, Rendering
  <2> QED
    BY <2>1, <2>3, <2>4, <2>5 DEF Shaped, TypeOK
<1>2. CASE EditSidecars
  <2>1. FilesOK' /\ record' = record /\ call' = call
    BY <1>2 DEF EditSidecars, Shaped, TypeOK, FilesOK
  <2> QED
    BY <2>1 DEF Shaped, TypeOK, Recorded, Shape, Validated, Rendering
<1>3. ASSUME NEW b \in Bodies, EditRecord(b) PROVE Shaped'
  <2>1. record' \in Record /\ call' = call
    BY <1>3 DEF EditRecord, Shaped, TypeOK, FilesOK, Record
  <2>2. FilesOK'
    BY <1>3, <2>1 DEF EditRecord, Shaped, TypeOK, FilesOK
  <2> QED
    BY <2>1, <2>2 DEF Shaped, TypeOK, Recorded, Shape, Validated, Rendering
<1> QED
  BY <1>1, <1>2, <1>3

LEMMA ShapedAlways == Spec => []Shaped
<1>1. Init => Shaped
  <2> SUFFICES ASSUME Init PROVE Shaped
    OBVIOUS
  <2>1. /\ Elements(PackageFiles) = PackageFile /\ Elements(ProposalFiles) = ProposalFile
    BY PackageNames, ProposalNames
  <2>2. FilesOK
    BY <2>1 DEF Init, FilesOK, PackageFile
  <2>3. {CallAt("start", f) : f \in BOOLEAN} \subseteq CallState
    BY NoContextTyped DEF CallAt, CallState, Label
  <2>4. ASSUME NEW c \in Command PROVE call[c].pc = "start" /\ call[c].at = 1
    BY DEF Init, CallAt
  <2> QED
    BY <2>2, <2>3, <2>4 DEF Init, Shaped, TypeOK, Recorded, Shape, Validated, Rendering
<1>2. ASSUME Shaped, Next PROVE Shaped'
  <2>1. ASSUME NEW c \in Command,
               Export(c) \/ LoadPackage(c) \/ CreateRecord(c) \/ Propose(c) \/ Stop(c)
        PROVE  Shaped'
    BY <1>2, <2>1, ExportShaped, LoadPackageShaped, CreateRecordShaped, ProposeShaped,
       EndsReading DEF Stop
  <2> QED
    BY <1>2, <2>1, EditsShaped DEF Next
<1>3. ASSUME Shaped, UNCHANGED vars PROVE Shaped'
  <2>1. FilesOK' /\ call' = call /\ record' = record
    BY <1>3, FilesStay DEF vars, files, Shaped, TypeOK
  <2> QED
    BY <1>3, <2>1 DEF Shaped, TypeOK, Recorded, Shape, Validated, Rendering
<1> QED
  BY <1>1, <1>2, <1>3, PTL DEF Spec

(* The files of the chain and what the commands hold of them are what they *)
(* are meant to be, whatever overlaps: a manifest is Absent, cut short, or *)
(* a manifest.                                                             *)
THEOREM ChainTypeCorrect == Spec => []TypeOK
<1>1. Shaped => TypeOK
  BY DEF Shaped
<1> QED
  BY <1>1, ShapedAlways, PTL

-----------------------------------------------------------------------------
(* The invariants behind the other theorems.                               *)

(* Commands run one at a time, and nobody edits a record meanwhile.        *)
Quiet == Overlap \cap {"package", "record"} = {}

(* Nobody edits the case during an export, nor a record during a proposal. *)
Trusted == Overlap \cap {"export", "record"} = {}

(* A proposer has watched the case since it was started, and what it says  *)
(* of the numbered files it has seen.                                      *)
Watched(c) ==
  LET k == call[c]
  IN Kind[c] = "propose" =>
       /\ Running(c) => case \in k.seen
       /\ k.pc \in {"render", "seal", "overwrite", "publish"} => k.draft.sources \in k.seen
       /\ k.pc \in {"seal", "overwrite", "publish"} => k.draft.base \in k.seen

(* A load of the package that is at part n.                                *)
Progress(x, n) ==
  LET m == package["manifest"]
  IN /\ n = 1 => x = NoContext
     /\ n \in {2, 3} => x = [manifest |-> m, board |-> Nothing, digest |-> Nothing]
     /\ n > 2 => package["preview.json"] = m.board
     /\ n = 4 => x = [manifest |-> m, board |-> m.board, digest |-> Nothing]
     /\ n = 5 => x = [manifest |-> m, board |-> m.board, digest |-> m]

Whole(x) == Progress(x, 5)

(* In quiet times, what a running call has read is what is there.          *)
Calm(c) ==
  LET k == call[c]
      proposing(set) == Kind[c] = "propose" /\ k.pc \in set
  IN /\ k.pc \in {"start", "ended"} \/ Kind[c] = "export" =>
          k.own = NoContext /\ k.validator = NoContext
     /\ k.pc = "load" => Progress(k.own, k.at) /\ k.validator = NoContext
     /\ k.pc = "create" => Whole(k.own) /\ k.validator = NoContext
     /\ proposing({"reload", "validate"} \cup Validated) => Whole(k.own)
     /\ k.pc = "reload" => Progress(k.validator, k.at)
     /\ proposing({"validate"} \cup Validated) => k.validator = k.own
     /\ proposing(Validated) => Judged(record, k.own) = "PASS"
     /\ proposing(Rendering) => k.draft.record = record /\ k.draft.context = k.own
     /\ proposing({"render", "seal", "overwrite", "publish"}) =>
          k.draft.sources = k.own.manifest.sources

Alone == \A c, d \in Command : Running(c) /\ Running(d) => c = d

AllPass ==
  \A f \in ProposalFile :
    proposal[f] # Absent => Judged(proposal[f].record, proposal[f].context) = "PASS"

(* The board of a manifest is that of its sources, beside some sidecars.   *)
Traceable(m) == \E s \in BOOLEAN : m.board = FactsOf(m.sources, s)

(* If a record approves, there is a ready board of its sources.            *)
Warranted(r) ==
  r.body.outcome = "approved" \/ r.body.release = "approved"
    => \E s \in BOOLEAN : StatusOf(FactsOf(r.binding.sources, s)) = "READY_FOR_HUMAN_DECISION"

(* What a call has read or made can be trusted.                            *)
Sure(c) ==
  LET k == call[c]
      proposing(set) == Kind[c] = "propose" /\ k.pc \in set
  IN /\ k.pc = "manifest" => \E s \in BOOLEAN : k.draft.board = FactsOf(case, s)
     /\ Kind[c] = "export" /\ k.pc \in {"overwrite", "truncate", "write"} => Traceable(k.draft)
     /\ k.pc = "reload" /\ k.at > 1 => Traceable(k.validator.manifest)
     /\ k.pc = "validate" => Traceable(k.validator.manifest)
     /\ k.pc = "record" => Warranted(record)
     /\ proposing(Rendering) => Warranted(k.draft.record)
     /\ proposing({"render", "seal", "overwrite", "publish"}) =>
          k.draft.sources = k.draft.record.binding.sources

PackageTraceable ==
  package["manifest"] \notin {Absent, Torn} => Traceable(package["manifest"])

AllWarranted ==
  \A f \in ProposalFile : proposal[f] # Absent =>
    Warranted(proposal[f].record) /\ proposal[f].sources = proposal[f].record.binding.sources

IInv ==
  /\ \A c \in Command : Watched(c)
  /\ Quiet => Alone /\ AllPass /\ \A c \in Command : Calm(c)
  /\ Trusted => PackageTraceable /\ AllWarranted /\ \A c \in Command : Sure(c)

-----------------------------------------------------------------------------
(* Steps of one call.                                                      *)

LEMMA IdleStays ==
  ASSUME NEW d \in Command, ~Running(d), Calm(d), call'[d] = call[d]
  PROVE  Calm(d)' /\ ~Running(d)'
  BY DEF Calm, Running, Validated, Rendering

(* While a call runs, or when one starts, no other does in quiet times;    *)
(* what the others can be sure of does not depend on the package.          *)
LEMMA Step ==
  ASSUME Shaped, IInv, NEW c \in Command, NEW x, call' = [call EXCEPT ![c] = x],
         case' = case, record' = record \/ Warranted(record'),
         Running(c) \/ MayDisturb("package"),
         Watched(c)',
         Quiet => Calm(c)' /\ AllPass',
         Trusted => Sure(c)' /\ PackageTraceable' /\ AllWarranted'
  PROVE  IInv'
<1>1. \A d \in Command : d # c => call'[d] = call[d]
  BY DEF Shaped, TypeOK
<1>2. ASSUME NEW d \in Command, d # c PROVE Watched(d)'
  BY <1>1, <1>2 DEF IInv, Watched, Running
<1>3. ASSUME Quiet PROVE Alone' /\ \A d \in Command : Calm(d)'
  <2>1. \A d \in Command : d # c => ~Running(d)
    BY <1>3 DEF IInv, Alone, MayDisturb, Quiet
  <2>2. ASSUME NEW d \in Command, d # c PROVE Calm(d)' /\ ~Running(d)'
    BY <1>1, <1>3, <2>1, <2>2, IdleStays DEF IInv
  <2> QED
    BY <1>3, <2>2 DEF Alone
<1>4. ASSUME Trusted, NEW d \in Command, d # c PROVE Sure(d)'
  BY <1>1, <1>4 DEF IInv, Sure, Warranted, Traceable
<1> QED
  BY <1>2, <1>3, <1>4 DEF IInv, Quiet, Trusted

(* What is published, and the package, if nothing changes.                 *)
LEMMA Unchanged ==
  ASSUME IInv, UNCHANGED files
  PROVE  /\ case' = case /\ record' = record
         /\ Quiet => AllPass'
         /\ Trusted => PackageTraceable' /\ AllWarranted'
  BY DEF IInv, files, AllPass, PackageTraceable, AllWarranted, Judged, Traceable, Warranted

LEMMA Reads ==
  ASSUME Shaped, IInv, NEW c \in Command, NEW x, call' = [call EXCEPT ![c] = x],
         UNCHANGED files, Running(c) \/ MayDisturb("package"),
         Watched(c)', Quiet => Calm(c)', Trusted => Sure(c)'
  PROVE  IInv'
  BY Unchanged, Step

LEMMA Ends ==
  ASSUME Shaped, IInv, NEW c \in Command, Running(c), End(c),
         case' = case, record' = record \/ Warranted(record'),
         Quiet => AllPass', Trusted => PackageTraceable' /\ AllWarranted'
  PROVE  IInv'
<1> DEFINE x == CallAt("ended", FALSE)
<1>1. call' = [call EXCEPT ![c] = x] /\ call'[c] = x
  BY DEF End, Shaped, TypeOK
<1>2. x.pc = "ended" /\ x.own = NoContext /\ x.validator = NoContext
  BY DEF CallAt
<1> HIDE DEF x
<1>3. Watched(c)' /\ Calm(c)' /\ Sure(c)'
  BY <1>1, <1>2 DEF Watched, Running, Calm, Sure, Validated, Rendering
<1> QED
  BY <1>1, <1>3, Step

LEMMA EndsUnchanged ==
  ASSUME Shaped, IInv, NEW c \in Command, Running(c), End(c), UNCHANGED files
  PROVE  IInv'
  BY Unchanged, Ends

(* What is known of a call before it takes a step.                         *)
LEMMA Now ==
  ASSUME Shaped, IInv, NEW c \in Command
  PROVE  /\ call[c] \in CallState /\ Shape(c, call[c]) /\ DOMAIN call = Command
         /\ Watched(c)
         /\ Quiet => Calm(c)
         /\ Trusted => Sure(c)
  BY CallNow DEF IInv

-----------------------------------------------------------------------------
(* export-decision-review.                                                 *)

LEMMA BuildBoardKeeps ==
  ASSUME Shaped, IInv, NEW c \in Command, BuildBoard(c)
  PROVE  IInv'
<1> DEFINE d == [board |-> FactsOf(case, reviewed), sources |-> Nothing]
           x == [call[c] EXCEPT !.pc = "manifest", !.draft = d]
<1>1. /\ call[c] \in CallState /\ DOMAIN call = Command /\ UNCHANGED files
      /\ call[c].pc = "start" /\ Kind[c] = "export" /\ MayDisturb("package")
      /\ Quiet => Calm(c)
  BY Now DEF BuildBoard
<1>2. \E s \in BOOLEAN : d.board = FactsOf(case, s)
  BY DEF Shaped, TypeOK, FilesOK
<1>3. call' = [call EXCEPT ![c] = x]
  BY <1>1 DEF BuildBoard
<1> HIDE DEF d
<1>4. /\ call'[c] = x /\ x.pc = "manifest" /\ x.draft = d
      /\ x.own = call[c].own /\ x.validator = call[c].validator
  BY <1>1, <1>3 DEF CallState
<1>5. Watched(c)' /\ (Quiet => Calm(c)')
  BY <1>1, <1>4 DEF Watched, Calm, Validated, Rendering
<1>6. Sure(c)'
  <2>1. \E s \in BOOLEAN : x.draft.board = FactsOf(case', s)
    BY <1>1, <1>2, <1>4 DEF files
  <2> QED
    BY <1>1, <1>4, <2>1 DEF Sure
<1> QED
  BY <1>1, <1>3, <1>5, <1>6, Reads

LEMMA BuildManifestKeeps ==
  ASSUME Shaped, IInv, NEW c \in Command, BuildManifest(c)
  PROVE  IInv'
<1> DEFINE m == [call[c].draft EXCEPT !.sources = case]
           x == [call[c] EXCEPT !.pc = "overwrite", !.draft = m]
<1>1. /\ call[c] \in CallState /\ Shape(c, call[c]) /\ DOMAIN call = Command /\ UNCHANGED files
      /\ call[c].pc = "manifest" /\ Running(c)
      /\ Quiet => Calm(c)
      /\ Trusted => Sure(c)
  BY Now DEF BuildManifest, Running
<1>2. Kind[c] = "export" /\ call[c].draft \in Unhashed
  BY <1>1 DEF Shape
<1>3. m.board = call[c].draft.board /\ m.sources = case
  BY <1>2 DEF Unhashed
<1>4. Trusted => Traceable(m)
  BY <1>1, <1>3 DEF Sure, Traceable
<1>5. call' = [call EXCEPT ![c] = x]
  BY <1>1 DEF BuildManifest
<1> HIDE DEF m
<1>6. /\ call'[c] = x /\ x.pc = "overwrite" /\ x.draft = m
      /\ x.own = call[c].own /\ x.validator = call[c].validator
  BY <1>1, <1>5 DEF CallState
<1>7. Watched(c)' /\ (Quiet => Calm(c)')
  BY <1>1, <1>2, <1>6 DEF Watched, Calm, Validated, Rendering
<1>8. Trusted => Sure(c)'
  BY <1>1, <1>2, <1>4, <1>6 DEF Sure, Traceable, Rendering
<1> QED
  BY <1>1, <1>5, <1>7, <1>8, Reads

LEMMA ValidateOverwriteKeeps ==
  ASSUME Shaped, IInv, NEW c \in Command, NEW dir, NEW next,
         \/ Kind[c] = "export" /\ next = "truncate"
         \/ Kind[c] = "propose" /\ next = "publish",
         ValidateOverwrite(c, dir, next)
  PROVE  IInv'
<1> DEFINE x == [call[c] EXCEPT !.pc = next]
<1>1. /\ call[c] \in CallState /\ Shape(c, call[c]) /\ DOMAIN call = Command /\ UNCHANGED files
      /\ call[c].pc = "overwrite" /\ Running(c)
      /\ Watched(c)
      /\ Quiet => Calm(c)
      /\ Trusted => Sure(c)
  BY Now DEF ValidateOverwrite, Running
<1>2. CASE End(c)
  BY <1>1, <1>2, EndsUnchanged
<1>3. CASE GoTo(c, next)
  <2>1. call' = [call EXCEPT ![c] = x]
    BY <1>1, <1>3 DEF GoTo
  <2>2. /\ call'[c] = x /\ x.pc = next /\ x.draft = call[c].draft /\ x.seen = call[c].seen
        /\ x.own = call[c].own /\ x.validator = call[c].validator
    BY <1>1, <2>1 DEF CallState
  <2>3. Watched(c)'
    BY <1>1, <2>2 DEF Watched, Running, files
  <2>4. Quiet => Calm(c)'
    BY <1>1, <2>2 DEF Calm, Progress, Whole, Validated, Rendering, files
  <2>5. Trusted => Sure(c)'
    BY <1>1, <2>2 DEF Sure, Traceable, Warranted, Rendering
  <2> QED
    BY <1>1, <2>1, <2>3, <2>4, <2>5, Reads
<1> QED
  BY <1>2, <1>3 DEF ValidateOverwrite

LEMMA TruncateFileKeeps ==
  ASSUME Shaped, IInv, NEW c \in Command, TruncateFile(c)
  PROVE  IInv'
<1> DEFINE x == [call[c] EXCEPT !.pc = "write"]
<1>1. /\ call[c] \in CallState /\ Shape(c, call[c]) /\ DOMAIN call = Command
      /\ call[c].pc = "truncate" /\ Running(c) /\ Kind[c] = "export"
      /\ UNCHANGED <<case, reviewed, record, proposal>>
      /\ Quiet => Calm(c)
      /\ Trusted => Sure(c)
  BY Now DEF TruncateFile, Running, Shape
<1>2. call' = [call EXCEPT ![c] = x]
  BY <1>1 DEF TruncateFile, GoTo
<1>3. /\ call'[c] = x /\ x.pc = "write" /\ x.draft = call[c].draft
      /\ x.own = call[c].own /\ x.validator = call[c].validator
  BY <1>1, <1>2 DEF CallState
<1>4. Watched(c)' /\ (Quiet => Calm(c)')
  BY <1>1, <1>3 DEF Watched, Calm, Validated, Rendering
<1>5. Trusted => Sure(c)'
  BY <1>1, <1>3 DEF Sure, Traceable, Rendering
<1>6. package' = [package EXCEPT ![PackageFiles[call[c].at]] = Torn]
  BY DEF TruncateFile
<1>7. Trusted => PackageTraceable'
  BY <1>6 DEF IInv, PackageTraceable, Traceable, Shaped, TypeOK, FilesOK, PackageFile
<1>8. (Quiet => AllPass') /\ (Trusted => AllWarranted')
  BY <1>1 DEF IInv, AllPass, AllWarranted, Judged, Warranted
<1> QED
  BY <1>1, <1>2, <1>4, <1>5, <1>7, <1>8, Step

LEMMA WriteFileKeeps ==
  ASSUME Shaped, IInv, NEW c \in Command, WriteFile(c)
  PROVE  IInv'
<1> DEFINE f == PackageFiles[call[c].at]
           m == call[c].draft
           x == [call[c] EXCEPT !.pc = "truncate", !.at = call[c].at + 1]
<1>1. /\ call[c] \in CallState /\ Shape(c, call[c]) /\ DOMAIN call = Command
      /\ call[c].pc = "write" /\ Running(c) /\ Kind[c] = "export"
      /\ UNCHANGED <<case, reviewed, record, proposal>>
      /\ Quiet => Calm(c)
      /\ Trusted => Sure(c)
  BY Now DEF WriteFile, Running, Shape
<1>2. /\ f \in PackageFile
      /\ package' = [package EXCEPT ![f] = PackageContent(m, f)]
      /\ f = "manifest" => PackageContent(m, f) = m
  BY Written
<1>3. Trusted => PackageTraceable'
  <2>1. Trusted => Traceable(m)
    BY <1>1 DEF Sure
  <2> HIDE DEF f, m
  <2> QED
    BY <1>2, <2>1 DEF IInv, PackageTraceable, Traceable, Shaped, TypeOK, FilesOK, PackageFile
<1>4. (Quiet => AllPass') /\ (Trusted => AllWarranted')
  BY <1>1 DEF IInv, AllPass, AllWarranted, Judged, Warranted
<1>5. CASE End(c)
  BY <1>1, <1>3, <1>4, <1>5, Ends
<1>6. CASE call' = [call EXCEPT ![c] = x]
  <2>1. /\ call'[c] = x /\ x.pc = "truncate" /\ x.draft = m
        /\ x.own = call[c].own /\ x.validator = call[c].validator
    BY <1>1, <1>6 DEF CallState
  <2>2. Watched(c)' /\ (Quiet => Calm(c)')
    BY <1>1, <2>1 DEF Watched, Calm, Validated, Rendering
  <2>3. Trusted => Sure(c)'
    BY <1>1, <2>1 DEF Sure, Traceable, Rendering
  <2> QED
    BY <1>1, <1>3, <1>4, <1>6, <2>2, <2>3, Step
<1> QED
  BY <1>5, <1>6 DEF WriteFile

LEMMA ExportKeeps ==
  ASSUME Shaped, IInv, NEW c \in Command, Export(c)
  PROVE  IInv'
  BY BuildBoardKeeps, BuildManifestKeeps, ValidateOverwriteKeeps, TruncateFileKeeps, WriteFileKeeps
     DEF Export

-----------------------------------------------------------------------------
(* load_verified_review_package.                                           *)

LEMMA StartKeeps ==
  ASSUME Shaped, IInv, NEW c \in Command, Start(c)
  PROVE  IInv'
<1> DEFINE x == [call[c] EXCEPT !.pc = "load", !.seen = {case}]
<1>1. /\ call[c] \in CallState /\ Shape(c, call[c]) /\ DOMAIN call = Command /\ UNCHANGED files
      /\ call[c].pc = "start" /\ Kind[c] # "export" /\ MayDisturb("package")
      /\ call' = [call EXCEPT ![c] = x]
      /\ Quiet => Calm(c)
  BY Now DEF Start
<1>2. /\ call'[c] = x /\ x.pc = "load" /\ x.seen = {case} /\ x.at = 1
      /\ x.own = call[c].own /\ x.validator = call[c].validator
  BY <1>1 DEF CallState, Shape
<1>3. Watched(c)'
  BY <1>1, <1>2 DEF Watched, files
<1>4. Quiet => Calm(c)'
  BY <1>1, <1>2 DEF Calm, Progress, Validated, Rendering
<1>5. Sure(c)'
  BY <1>2 DEF Sure, Rendering
<1> QED
  BY <1>1, <1>3, <1>4, <1>5, Reads

(* A part of a load: in quiet times, what it has read so far is what is    *)
(* there; if exports can be trusted, so can what is read from a package.   *)
LEMMA LoadKeeps ==
  ASSUME Shaped, IInv, NEW c \in Command, Loading(c), NEW y, NEW n \in 2..5,
         Load(c, y, n), UNCHANGED files,
         Quiet => Progress(y, n), call[c].pc = "load" \/ (Trusted => Traceable(y.manifest))
  PROVE  IInv'
<1>1. /\ call[c] \in CallState /\ Shape(c, call[c]) /\ DOMAIN call = Command /\ Running(c)
      /\ Watched(c)
      /\ Quiet => Calm(c)
      /\ Trusted => Sure(c)
  BY Now DEF Loading, Running
<1>2. CASE call[c].pc = "load"
  <2> DEFINE x == [call[c] EXCEPT !.own = y, !.at = n]
  <2>1. call' = [call EXCEPT ![c] = x]
    BY <1>1, <1>2 DEF Load
  <2>2. /\ call'[c] = x /\ x.pc = "load" /\ x.at = n /\ x.own = y
        /\ x.validator = call[c].validator /\ x.seen = call[c].seen
    BY <1>1, <1>2, <2>1 DEF CallState
  <2>3. Watched(c)'
    BY <1>1, <2>2 DEF Watched, Running, files
  <2>4. Quiet => Calm(c)'
    <3>1. Quiet => Progress(y, n)'
      BY DEF Progress, files
    <3>2. Kind[c] # "export"
      BY <1>1, <1>2 DEF Shape
    <3> QED
      BY <1>1, <1>2, <2>2, <3>1, <3>2 DEF Calm, Validated, Rendering
  <2>5. Sure(c)'
    BY <2>2 DEF Sure, Rendering
  <2> QED
    BY <1>1, <2>1, <2>3, <2>4, <2>5, Reads
<1>3. CASE call[c].pc = "reload"
  <2> DEFINE x == [call[c] EXCEPT !.validator = y, !.at = n]
  <2>1. call' = [call EXCEPT ![c] = x]
    BY <1>1, <1>3 DEF Load
  <2>2. /\ call'[c] = x /\ x.pc = "reload" /\ x.at = n /\ x.own = call[c].own
        /\ x.validator = y /\ x.seen = call[c].seen
    BY <1>1, <1>3, <2>1 DEF CallState
  <2>3. Watched(c)'
    BY <1>1, <2>2 DEF Watched, Running, files
  <2>4. Quiet => Calm(c)'
    <3>1. Quiet => Progress(y, n)'
      BY DEF Progress, files
    <3>2. Kind[c] = "propose"
      BY <1>1, <1>3 DEF Shape
    <3>3. Quiet => Whole(call[c].own)
      BY <1>1, <1>3, <3>2 DEF Calm
    <3>4. Quiet => Whole(call[c].own)'
      BY <2>2, <3>3 DEF Whole, Progress, files
    <3> QED
      BY <1>3, <2>2, <3>1, <3>2, <3>4 DEF Calm, Validated, Rendering
  <2>5. Trusted => Sure(c)'
    BY <1>1, <1>3, <2>2 DEF Sure, Traceable, Rendering, Shape
  <2> QED
    BY <1>1, <2>1, <2>3, <2>4, <2>5, Reads
<1> QED
  BY <1>2, <1>3 DEF Loading

(* How far a load is.                                                      *)
LEMMA LoadedNow ==
  ASSUME Shaped, IInv, NEW c \in Command, Loading(c)
  PROVE  /\ Running(c) /\ Loaded(c) \in Context
         /\ Quiet => Progress(Loaded(c), call[c].at)
         /\ call[c].pc = "load" \/ (Trusted /\ call[c].at > 1 => Traceable(Loaded(c).manifest))
  BY Now, LoadNow DEF Loading, Running, Loaded, Calm, Sure

LEMMA ReadManifestKeeps ==
  ASSUME Shaped, IInv, NEW c \in Command, ReadManifest(c)
  PROVE  IInv'
<1> DEFINE m == package["manifest"]
           y == [NoContext EXCEPT !.manifest = m]
<1>1. Loading(c) /\ Running(c) /\ UNCHANGED files
  BY LoadedNow DEF ReadManifest
<1>2. CASE End(c)
  BY <1>1, <1>2, EndsUnchanged
<1>3. CASE Absent \notin Elements(package) /\ m # Torn /\ Load(c, y, 2)
  <2>1. m \notin {Absent, Torn}
    BY <1>3 DEF Shaped, TypeOK, FilesOK, PackageFile, Elements
  <2>2. y = [manifest |-> m, board |-> Nothing, digest |-> Nothing]
    BY DEF NoContext
  <2>3. Progress(y, 2)
    BY <2>2 DEF Progress
  <2>4. Trusted => Traceable(y.manifest)
    BY <2>1, <2>2 DEF IInv, PackageTraceable
  <2>5. Load(c, y, 2) /\ 2 \in 2..5
    BY <1>3
  <2> HIDE DEF y
  <2> QED
    BY <1>1, <2>3, <2>4, <2>5, LoadKeeps
<1> QED
  BY <1>2, <1>3 DEF ReadManifest

LEMMA VerifyArtifactsKeeps ==
  ASSUME Shaped, IInv, NEW c \in Command, VerifyArtifacts(c)
  PROVE  IInv'
<1> DEFINE y == Loaded(c)
<1>1. /\ Loading(c) /\ Running(c) /\ UNCHANGED files /\ call[c].at = 2
      /\ Quiet => Progress(y, 2)
      /\ call[c].pc = "load" \/ (Trusted => Traceable(y.manifest))
  BY LoadedNow DEF VerifyArtifacts
<1>2. CASE End(c)
  BY <1>1, <1>2, EndsUnchanged
<1>3. CASE package["preview.json"] = PackageContent(y.manifest, "preview.json") /\ Load(c, y, 3)
  <2>1. package["preview.json"] = y.manifest.board
    BY <1>3 DEF PackageContent
  <2>2. Quiet => Progress(y, 3)
    BY <1>1, <2>1 DEF Progress
  <2>3. Load(c, y, 3) /\ 3 \in 2..5
    BY <1>3
  <2> HIDE DEF y
  <2> QED
    BY <1>1, <2>2, <2>3, LoadKeeps
<1> QED
  BY <1>2, <1>3 DEF VerifyArtifacts

LEMMA ReadPreviewKeeps ==
  ASSUME Shaped, IInv, NEW c \in Command, ReadPreview(c)
  PROVE  IInv'
<1> DEFINE y == [Loaded(c) EXCEPT !.board = package["preview.json"]]
<1>1. /\ Loading(c) /\ Running(c) /\ UNCHANGED files /\ call[c].at = 3
      /\ Loaded(c) \in Context
      /\ Quiet => Progress(Loaded(c), 3)
      /\ call[c].pc = "load" \/ (Trusted => Traceable(Loaded(c).manifest))
  BY LoadedNow DEF ReadPreview
<1>2. CASE End(c)
  BY <1>1, <1>2, EndsUnchanged
<1>3. CASE Load(c, y, 4)
  <2>1. y.manifest = Loaded(c).manifest
    BY <1>1 DEF Context
  <2>2. Quiet => Progress(y, 4)
    BY <1>1 DEF Progress
  <2>3. Load(c, y, 4) /\ 4 \in 2..5
    BY <1>3
  <2> HIDE DEF y
  <2> QED
    BY <1>1, <2>1, <2>2, <2>3, LoadKeeps
<1> QED
  BY <1>2, <1>3 DEF ReadPreview

LEMMA HashManifestKeeps ==
  ASSUME Shaped, IInv, NEW c \in Command, HashManifest(c)
  PROVE  IInv'
<1> DEFINE y == [Loaded(c) EXCEPT !.digest = package["manifest"]]
<1>1. /\ Loading(c) /\ Running(c) /\ UNCHANGED files /\ call[c].at = 4
      /\ Loaded(c) \in Context
      /\ Quiet => Progress(Loaded(c), 4)
      /\ call[c].pc = "load" \/ (Trusted => Traceable(Loaded(c).manifest))
  BY LoadedNow DEF HashManifest
<1>2. y.manifest = Loaded(c).manifest
  BY <1>1 DEF Context
<1>3. Quiet => Progress(y, 5)
  BY <1>1 DEF Progress
<1>4. Load(c, y, 5) /\ 5 \in 2..5
  BY DEF HashManifest
<1> HIDE DEF y
<1> QED
  BY <1>1, <1>2, <1>3, <1>4, LoadKeeps

LEMMA ReturnContextKeeps ==
  ASSUME Shaped, IInv, NEW c \in Command, ReturnContext(c)
  PROVE  IInv'
<1>1. /\ call[c] \in CallState /\ Shape(c, call[c]) /\ DOMAIN call = Command
      /\ call[c].at = 5 /\ call[c].pc \in {"load", "reload"} /\ Running(c) /\ UNCHANGED files
      /\ Watched(c)
      /\ Quiet => Calm(c)
      /\ Trusted => Sure(c)
  BY Now DEF ReturnContext, Loading, Running
<1>2. PICK l \in {"create", "reload", "validate"} :
        /\ l = "create" <=> Kind[c] = "template"
        /\ l = "reload" <=> Kind[c] # "template" /\ call[c].pc = "load"
        /\ call' = [call EXCEPT ![c] = [call[c] EXCEPT !.at = 1, !.pc = l]]
  BY Returning
<1> DEFINE x == [call[c] EXCEPT !.at = 1, !.pc = l]
<1>3. /\ call'[c] = x /\ x.pc = l /\ x.at = 1 /\ x.seen = call[c].seen
      /\ x.own = call[c].own /\ x.validator = call[c].validator
  BY <1>1, <1>2 DEF CallState
<1>4. Watched(c)'
  BY <1>1, <1>2, <1>3 DEF Watched, Running, files
<1>5. Quiet => Calm(c)'
  <2> SUFFICES ASSUME Quiet PROVE Calm(c)'
    OBVIOUS
  <2>1. Calm(c) /\ Kind[c] # "export"
    BY <1>1 DEF Shape
  <2>2. Whole(call[c].own)
    BY <1>1, <2>1, KindAssumption DEF Calm, Whole, Shape
  <2>3. /\ call[c].pc = "load" => call[c].validator = NoContext
        /\ call[c].pc = "reload" => Whole(call[c].validator)
    BY <1>1, <2>1 DEF Calm, Whole
  <2>4. call[c].pc = "reload" => call[c].validator = call[c].own
    BY <2>2, <2>3 DEF Whole, Progress
  <2>5. Whole(call[c].own)'
    BY <1>1, <1>3, <2>2 DEF Whole, Progress, files
  <2>6. l = "reload" => Progress(call[c].validator, 1)'
    BY <1>2, <1>3, <2>3 DEF Progress
  <2>7. l = "create" => call[c].pc = "load"
    BY <1>1, <1>2 DEF Shape
  <2>8. l # "create" => Kind[c] = "propose"
    BY <1>2, <2>1, KindAssumption
  <2> HIDE DEF x
  <2>9. CASE l = "create"
    BY <1>3, <2>1, <2>3, <2>5, <2>7, <2>9 DEF Calm, Validated, Rendering
  <2>10. CASE l = "reload"
    BY <1>3, <2>1, <2>5, <2>6, <2>8, <2>10 DEF Calm, Validated, Rendering
  <2>11. CASE l = "validate"
    <3>1. Kind[c] = "propose" /\ call[c].pc = "reload"
      BY <1>1, <1>2, <2>8, <2>11
    <3> QED
      BY <1>3, <2>4, <2>5, <2>11, <3>1 DEF Calm, Validated, Rendering
  <2> QED
    BY <1>2, <2>9, <2>10, <2>11
<1>6. Trusted => Sure(c)'
  BY <1>1, <1>2, <1>3 DEF Sure, Traceable, Rendering
<1> QED
  BY <1>1, <1>2, <1>4, <1>5, <1>6, Reads

LEMMA LoadPackageKeeps ==
  ASSUME Shaped, IInv, NEW c \in Command, LoadPackage(c)
  PROVE  IInv'
  BY StartKeeps, ReadManifestKeeps, VerifyArtifactsKeeps, ReadPreviewKeeps, HashManifestKeeps,
     ReturnContextKeeps DEF LoadPackage

-----------------------------------------------------------------------------
(* new-decision-record.                                                    *)

(* The record a template writes approves nothing.                          *)
LEMMA CreateRecordKeeps ==
  ASSUME Shaped, IInv, NEW c \in Command, CreateRecord(c)
  PROVE  IInv'
<1> DEFINE r == [body |-> TemplateBody, binding |-> Binding(call[c].own)]
<1>1. /\ Running(c) /\ End(c)
      /\ UNCHANGED <<case, reviewed, package, proposal>>
      /\ record' = record \/ record' = r
  BY DEF CreateRecord, Running
<1>2. Warranted(r)
  BY DEF Warranted, TemplateBody
<1>3. /\ Quiet => AllPass'
      /\ Trusted => PackageTraceable' /\ AllWarranted'
  BY <1>1 DEF IInv, AllPass, PackageTraceable, AllWarranted, Judged, Traceable, Warranted
<1> HIDE DEF r
<1>4. record' = record \/ Warranted(record')
  BY <1>1, <1>2
<1> QED
  BY <1>1, <1>3, <1>4, Ends

-----------------------------------------------------------------------------
(* propose-canonical-decision.                                             *)

LEMMA ApprovalNeedsReady ==
  ASSUME NEW b, NEW bound, NEW p, Verdict(b, bound, p) = "PASS",
         b.outcome = "approved" \/ b.release = "approved"
  PROVE  p.status = "READY_FOR_HUMAN_DECISION"
<1>1. OutcomeJustified(b, p) /\ ReleaseJustified(b, p)
  BY DEF Verdict
<1> QED
  BY <1>1 DEF OutcomeJustified, ReleaseJustified

(* A record that passes is bound to the context, and does not approve more *)
(* than the package allows.                                                *)
LEMMA PassMeans ==
  ASSUME NEW r, NEW x, x.manifest \in Manifest, Judged(r, x) = "PASS"
  PROVE  /\ r.binding = Binding(x)
         /\ Traceable(x.manifest) => Warranted(r)
<1>1. r.binding = Binding(x)
  BY DEF Judged, Verdict
<1>2. x.manifest.board \in BoardFacts
  BY DEF Manifest
<1>3. ASSUME Traceable(x.manifest), r.body.outcome = "approved" \/ r.body.release = "approved"
      PROVE  \E s \in BOOLEAN : StatusOf(FactsOf(r.binding.sources, s)) = "READY_FOR_HUMAN_DECISION"
  <2> DEFINE p == [ status |-> Board[x.manifest.board].status,
                    routes |-> Board[x.manifest.board].routes \cup Board[x.board].routes ]
  <2>1. Verdict(r.body, r.binding = Binding(x), p) = "PASS"
    BY DEF Judged
  <2>2. p.status = Board[x.manifest.board].status
    OBVIOUS
  <2> HIDE DEF p
  <2>3. Board[x.manifest.board].status = "READY_FOR_HUMAN_DECISION"
    BY <1>3, <2>1, <2>2, ApprovalNeedsReady
  <2>4. r.binding.sources = x.manifest.sources
    BY <1>1 DEF Binding
  <2> QED
    BY <1>2, <1>3, <2>3, <2>4, BoardTyped DEF Traceable
<1> QED
  BY <1>1, <1>3 DEF Warranted

LEMMA ValidateRecordKeeps ==
  ASSUME Shaped, IInv, NEW c \in Command, ValidateRecord(c)
  PROVE  IInv'
<1> DEFINE x == [call[c] EXCEPT !.pc = "record"]
<1>1. /\ call[c] \in CallState /\ Shape(c, call[c]) /\ DOMAIN call = Command
      /\ call[c].pc = "validate" /\ Running(c) /\ UNCHANGED files
      /\ Kind[c] = "propose" /\ call[c].validator.manifest \in Manifest
      /\ Watched(c)
      /\ Quiet => Calm(c)
      /\ Trusted => Sure(c)
  BY Now DEF ValidateRecord, Running, Shape
<1>2. CASE End(c)
  BY <1>1, <1>2, EndsUnchanged
<1>3. CASE Judged(record, call[c].validator) = "PASS" /\ GoTo(c, "record")
  <2>1. call' = [call EXCEPT ![c] = x]
    BY <1>1, <1>3 DEF GoTo
  <2>2. /\ call'[c] = x /\ x.pc = "record" /\ x.seen = call[c].seen
        /\ x.own = call[c].own /\ x.validator = call[c].validator
    BY <1>1, <2>1 DEF CallState
  <2> HIDE DEF x
  <2>3. Watched(c)'
    BY <1>1, <2>2 DEF Watched, Running, files
  <2>4. Quiet => Calm(c)'
    <3> SUFFICES ASSUME Quiet PROVE Calm(c)'
      OBVIOUS
    <3>1. Whole(call[c].own) /\ call[c].validator = call[c].own
      BY <1>1 DEF Calm
    <3>2. Whole(call[c].own)' /\ (call[c].validator = call[c].own)'
      BY <1>1, <2>2, <3>1 DEF Whole, Progress, files
    <3>3. (Judged(record, call[c].own) = "PASS")'
      BY <1>1, <1>3, <2>2, <3>1 DEF files
    <3> QED
      BY <1>1, <2>2, <3>2, <3>3 DEF Calm, Validated, Rendering
  <2>5. Trusted => Sure(c)'
    <3>1. Trusted => Warranted(record)
      BY <1>1, <1>3, PassMeans DEF Sure
    <3>2. Trusted => Warranted(record')
      BY <1>1, <3>1 DEF files
    <3> QED
      BY <2>2, <3>2 DEF Sure, Rendering
  <2> QED
    BY <1>1, <2>1, <2>3, <2>4, <2>5, Reads
<1> QED
  BY <1>2, <1>3 DEF ValidateRecord

(* The four steps that follow each add to what is going to be published.   *)
LEMMA PreparingKeeps ==
  ASSUME Shaped, IInv, NEW c \in Command, UNCHANGED files,
         call[c].pc \in {"record", "case", "render", "seal"},
         NEW l \in {"case", "render", "seal", "overwrite"}, NEW d,
         call' = [call EXCEPT ![c] = [call[c] EXCEPT !.pc = l, !.draft = d]],
         l # "case" => d.sources \in call[c].seen,
         l \in {"seal", "overwrite"} => d.base \in call[c].seen,
         Quiet => /\ d.record = record /\ d.context = call[c].own
                  /\ l # "case" => d.sources = call[c].own.manifest.sources,
         Trusted => /\ Warranted(d.record)
                    /\ l # "case" => d.sources = d.record.binding.sources
  PROVE  IInv'
<1> DEFINE x == [call[c] EXCEPT !.pc = l, !.draft = d]
<1>1. /\ call[c] \in CallState /\ Shape(c, call[c]) /\ DOMAIN call = Command /\ Running(c)
      /\ Kind[c] = "propose"
      /\ Watched(c)
      /\ Quiet => Calm(c)
  BY Now DEF Running, Shape, Validated
<1>2. /\ call'[c] = x /\ x.pc = l /\ x.draft = d /\ x.seen = call[c].seen
      /\ x.own = call[c].own /\ x.validator = call[c].validator
  BY <1>1 DEF CallState
<1> HIDE DEF x
<1>3. Watched(c)'
  BY <1>1, <1>2 DEF Watched, Running, files
<1>4. Quiet => Calm(c)'
  <2> SUFFICES ASSUME Quiet PROVE Calm(c)'
    OBVIOUS
  <2>1. /\ Whole(call[c].own) /\ call[c].validator = call[c].own
        /\ Judged(record, call[c].own) = "PASS"
    BY <1>1 DEF Calm, Validated
  <2>2. Whole(call[c].own)' /\ (call[c].validator = call[c].own)'
    BY <1>2, <2>1 DEF Whole, Progress, files
  <2>3. (Judged(record, call[c].own) = "PASS")' /\ record' = record
    BY <1>2, <2>1 DEF files
  <2> QED
    BY <1>1, <1>2, <2>2, <2>3 DEF Calm, Validated, Rendering
<1>5. Trusted => Sure(c)'
  BY <1>1, <1>2 DEF Sure, Warranted, Rendering
<1> QED
  BY <1>1, <1>2, <1>3, <1>4, <1>5, Reads

(* What a proposer holds before it prepares something, and what of it the  *)
(* next step needs.                                                        *)
LEMMA PreparerNow ==
  ASSUME Shaped, IInv, NEW c \in Command, call[c].pc \in {"record", "case", "render", "seal", "publish"}
  PROVE  /\ Running(c) /\ DOMAIN call = Command /\ Kind[c] = "propose"
         /\ case \in call[c].seen
         /\ call[c].pc \in {"render", "seal", "publish"} => call[c].draft.sources \in call[c].seen
         /\ call[c].pc \in {"seal", "publish"} => call[c].draft.base \in call[c].seen
         /\ call[c].pc # "record" => call[c].draft \in Proposal
         /\ Quiet =>
              /\ Judged(record, call[c].own) = "PASS"
              /\ call[c].pc # "record" =>
                   call[c].draft.record = record /\ call[c].draft.context = call[c].own
              /\ call[c].pc \in {"render", "seal", "publish"} =>
                   call[c].draft.sources = call[c].own.manifest.sources
         /\ Trusted =>
              /\ call[c].pc = "record" => Warranted(record)
              /\ call[c].pc # "record" => Warranted(call[c].draft.record)
              /\ call[c].pc \in {"render", "seal", "publish"} =>
                   call[c].draft.sources = call[c].draft.record.binding.sources
<1>1. /\ Running(c) /\ DOMAIN call = Command /\ Kind[c] = "propose"
      /\ call[c].pc # "record" => call[c].draft \in Proposal
  BY CallNow, ProposerNow DEF Running
<1>2. Watched(c) /\ (Quiet => Calm(c)) /\ (Trusted => Sure(c))
  BY Now
<1>3. /\ case \in call[c].seen
      /\ call[c].pc \in {"render", "seal", "publish"} => call[c].draft.sources \in call[c].seen
      /\ call[c].pc \in {"seal", "publish"} => call[c].draft.base \in call[c].seen
  BY <1>1, <1>2 DEF Watched
<1>4. ASSUME Quiet
      PROVE  /\ Judged(record, call[c].own) = "PASS"
             /\ call[c].pc # "record" =>
                  call[c].draft.record = record /\ call[c].draft.context = call[c].own
             /\ call[c].pc \in {"render", "seal", "publish"} =>
                  call[c].draft.sources = call[c].own.manifest.sources
  BY <1>1, <1>2, <1>4 DEF Calm, Validated, Rendering
<1>5. ASSUME Trusted
      PROVE  /\ call[c].pc = "record" => Warranted(record)
             /\ call[c].pc # "record" => Warranted(call[c].draft.record)
             /\ call[c].pc \in {"render", "seal", "publish"} =>
                  call[c].draft.sources = call[c].draft.record.binding.sources
  BY <1>1, <1>2, <1>5 DEF Sure, Rendering
<1> QED
  BY <1>1, <1>3, <1>4, <1>5

LEMMA ReadRecordKeeps ==
  ASSUME Shaped, IInv, NEW c \in Command, ReadRecord(c)
  PROVE  IInv'
<1> DEFINE d == [ record |-> record, recordDigest |-> Nothing, context |-> call[c].own,
                  sources |-> Nothing, base |-> Nothing ]
<1>1. call[c].pc = "record" /\ UNCHANGED files /\ Running(c) /\ DOMAIN call = Command
      /\ (Trusted => Warranted(record))
  BY PreparerNow DEF ReadRecord
<1>2. CASE End(c)
  BY <1>1, <1>2, EndsUnchanged
<1>3. CASE call' = [call EXCEPT ![c].pc = "case", ![c].draft = d]
  <2>1. d.record = record /\ d.context = call[c].own
    OBVIOUS
  <2>2. call' = [call EXCEPT ![c] = [call[c] EXCEPT !.pc = "case", !.draft = d]]
    BY <1>1, <1>3
  <2> HIDE DEF d
  <2>3. Trusted => Warranted(d.record)
    BY <1>1, <2>1
  <2> QED
    BY <1>1, <2>1, <2>2, <2>3, PreparingKeeps
<1> QED
  BY <1>2, <1>3 DEF ReadRecord

LEMMA CheckCaseKeeps ==
  ASSUME Shaped, IInv, NEW c \in Command, CheckCase(c)
  PROVE  IInv'
<1> DEFINE d == [call[c].draft EXCEPT !.sources = case]
<1>1. /\ call[c].pc = "case" /\ UNCHANGED files /\ Running(c) /\ DOMAIN call = Command
      /\ call[c].draft \in Proposal /\ case \in call[c].seen
      /\ Quiet => call[c].draft.record = record /\ call[c].draft.context = call[c].own
      /\ Trusted => Warranted(call[c].draft.record)
  BY PreparerNow DEF CheckCase
<1>2. CASE End(c)
  BY <1>1, <1>2, EndsUnchanged
<1>3. CASE /\ case = call[c].own.manifest.sources
           /\ case = call[c].draft.record.binding.sources
           /\ call' = [call EXCEPT ![c].pc = "render", ![c].draft.sources = case]
  <2>1. /\ d.record = call[c].draft.record /\ d.context = call[c].draft.context
        /\ d.sources = case
    BY <1>1 DEF Proposal
  <2>2. call' = [call EXCEPT ![c] = [call[c] EXCEPT !.pc = "render", !.draft = d]]
    BY <1>1, <1>3
  <2> HIDE DEF d
  <2>3. Trusted => Warranted(d.record) /\ d.sources = d.record.binding.sources
    BY <1>1, <1>3, <2>1
  <2>4. Quiet => /\ d.record = record /\ d.context = call[c].own
                 /\ d.sources = call[c].own.manifest.sources
    BY <1>1, <1>3, <2>1
  <2> QED
    BY <1>1, <2>1, <2>2, <2>3, <2>4, PreparingKeeps
<1> QED
  BY <1>2, <1>3 DEF CheckCase

LEMMA RenderKeeps ==
  ASSUME Shaped, IInv, NEW c \in Command, Render(c)
  PROVE  IInv'
<1> DEFINE d == [call[c].draft EXCEPT !.base = case]
<1>1. call[c].pc = "render" /\ UNCHANGED files /\ DOMAIN call = Command
  BY CallNow DEF Render
<1>2. /\ call[c].draft \in Proposal /\ case \in call[c].seen
      /\ call[c].draft.sources \in call[c].seen
      /\ Quiet => /\ call[c].draft.record = record /\ call[c].draft.context = call[c].own
                  /\ call[c].draft.sources = call[c].own.manifest.sources
      /\ Trusted => /\ Warranted(call[c].draft.record)
                    /\ call[c].draft.sources = call[c].draft.record.binding.sources
  BY <1>1, PreparerNow
<1>3. /\ d.record = call[c].draft.record /\ d.context = call[c].draft.context
      /\ d.sources = call[c].draft.sources /\ d.base = case
  BY <1>2 DEF Proposal
<1>4. call' = [call EXCEPT ![c] = [call[c] EXCEPT !.pc = "seal", !.draft = d]]
  BY <1>1 DEF Render
<1> HIDE DEF d
<1>5. Trusted => Warranted(d.record) /\ d.sources = d.record.binding.sources
  BY <1>2, <1>3
<1> QED
  BY <1>1, <1>2, <1>3, <1>4, <1>5, PreparingKeeps

LEMMA SealKeeps ==
  ASSUME Shaped, IInv, NEW c \in Command, Seal(c)
  PROVE  IInv'
<1> DEFINE d == [call[c].draft EXCEPT !.recordDigest = record]
<1>1. call[c].pc = "seal" /\ UNCHANGED files /\ DOMAIN call = Command
  BY CallNow DEF Seal
<1>2. /\ call[c].draft \in Proposal
      /\ call[c].draft.sources \in call[c].seen /\ call[c].draft.base \in call[c].seen
      /\ Quiet => /\ call[c].draft.record = record /\ call[c].draft.context = call[c].own
                  /\ call[c].draft.sources = call[c].own.manifest.sources
      /\ Trusted => /\ Warranted(call[c].draft.record)
                    /\ call[c].draft.sources = call[c].draft.record.binding.sources
  BY <1>1, PreparerNow
<1>3. /\ d.record = call[c].draft.record /\ d.context = call[c].draft.context
      /\ d.sources = call[c].draft.sources /\ d.base = call[c].draft.base
  BY <1>2 DEF Proposal
<1>4. call' = [call EXCEPT ![c] = [call[c] EXCEPT !.pc = "overwrite", !.draft = d]]
  BY <1>1 DEF Seal
<1> HIDE DEF d
<1>5. Trusted => Warranted(d.record) /\ d.sources = d.record.binding.sources
  BY <1>2, <1>3
<1> QED
  BY <1>1, <1>2, <1>3, <1>4, <1>5, PreparingKeeps

LEMMA PublishKeeps ==
  ASSUME Shaped, IInv, NEW c \in Command, Publish(c)
  PROVE  IInv'
<1> DEFINE f == ProposalFiles[call[c].at]
           d == call[c].draft
           x == [call[c] EXCEPT !.at = call[c].at + 1]
<1>1. call[c].pc = "publish" /\ UNCHANGED <<case, reviewed, package, record>>
  BY DEF Publish
<1>2. /\ Running(c) /\ DOMAIN call = Command /\ Kind[c] = "propose"
      /\ Quiet => /\ Judged(record, call[c].own) = "PASS"
                  /\ d.record = record /\ d.context = call[c].own
      /\ Trusted => Warranted(d.record) /\ d.sources = d.record.binding.sources
  BY <1>1, PreparerNow
<1>3. /\ f \in ProposalFile /\ proposal' = [proposal EXCEPT ![f] = d]
      /\ call' = [call EXCEPT ![c] = x] \/ End(c)
  BY PublishShaped, <1>2
<1>4. /\ call[c] \in CallState /\ Watched(c)
      /\ Quiet => Calm(c)
      /\ Trusted => Sure(c)
  BY Now
<1> HIDE DEF f, d
<1>5. \A g \in ProposalFile : proposal'[g] = d \/ proposal'[g] = proposal[g]
  BY <1>3 DEF Shaped, TypeOK, FilesOK
<1>6. Quiet => AllPass'
  BY <1>2, <1>5 DEF IInv, AllPass, Judged
<1>7. Trusted => PackageTraceable' /\ AllWarranted'
  BY <1>1, <1>2, <1>5 DEF IInv, PackageTraceable, AllWarranted, Traceable, Warranted
<1>8. CASE End(c)
  BY <1>1, <1>2, <1>6, <1>7, <1>8, Ends
<1>9. CASE call' = [call EXCEPT ![c] = x]
  <2>1. /\ call'[c] = x /\ x.pc = "publish" /\ x.draft = call[c].draft /\ x.seen = call[c].seen
        /\ x.own = call[c].own /\ x.validator = call[c].validator
    BY <1>1, <1>2, <1>4, <1>9 DEF CallState
  <2> HIDE DEF x
  <2>2. Watched(c)'
    BY <1>1, <1>2, <1>4, <2>1 DEF Watched, Running
  <2>3. Quiet => Calm(c)'
    <3> SUFFICES ASSUME Quiet PROVE Calm(c)'
      OBVIOUS
    <3>1. Whole(call[c].own)'
      BY <1>1, <1>2, <1>4, <2>1 DEF Calm, Validated, Whole, Progress
    <3>2. (Judged(record, call[c].own) = "PASS")'
      BY <1>1, <1>2, <2>1
    <3> QED
      BY <1>1, <1>2, <1>4, <2>1, <3>1, <3>2 DEF Calm, Validated, Rendering
  <2>4. Trusted => Sure(c)'
    BY <1>1, <1>2, <1>4, <2>1 DEF Sure, Warranted, Rendering
  <2> QED
    BY <1>1, <1>2, <1>6, <1>7, <1>9, <2>2, <2>3, <2>4, Step
<1> QED
  BY <1>3, <1>8, <1>9

LEMMA ProposeKeeps ==
  ASSUME Shaped, IInv, NEW c \in Command, Propose(c)
  PROVE  IInv'
  BY ValidateRecordKeeps, ReadRecordKeeps, CheckCaseKeeps, RenderKeeps, SealKeeps,
     ValidateOverwriteKeeps, PublishKeeps DEF Propose

-----------------------------------------------------------------------------
(* People's edits, and the invariant.                                      *)

LEMMA EditCaseKeeps ==
  ASSUME Shaped, IInv, NEW k \in Case, EditCase(k)
  PROVE  IInv'
<1>1. /\ case' = k /\ UNCHANGED <<reviewed, package, record, proposal>> /\ MayEdit
      /\ \A c \in Command :
           call'[c] = IF Running(c) /\ Kind[c] # "export"
                      THEN [call[c] EXCEPT !.seen = @ \cup {k}] ELSE call[c]
  BY DEF EditCase
<1>2. ASSUME NEW c \in Command
      PROVE  /\ call'[c].pc = call[c].pc /\ call'[c].at = call[c].at /\ call'[c].own = call[c].own
             /\ call'[c].validator = call[c].validator /\ call'[c].draft = call[c].draft
             /\ call'[c].seen =
                  IF Running(c) /\ Kind[c] # "export" THEN call[c].seen \cup {k} ELSE call[c].seen
  BY <1>1, CallNow DEF CallState
<1>3. ASSUME NEW c \in Command PROVE Watched(c)'
  <2>1. Watched(c)
    BY DEF IInv
  <2>2. Running(c)' <=> Running(c)
    BY <1>2 DEF Running
  <2> SUFFICES ASSUME Kind[c] = "propose"
               PROVE  /\ Running(c) => case' \in call'[c].seen
                      /\ call'[c].pc \in {"render", "seal", "overwrite", "publish"} =>
                           call'[c].draft.sources \in call'[c].seen
                      /\ call'[c].pc \in {"seal", "overwrite", "publish"} =>
                           call'[c].draft.base \in call'[c].seen
    BY <2>2 DEF Watched
  <2> QED
    BY <1>1, <1>2, <2>1 DEF Watched
<1>4. ASSUME Quiet PROVE Alone' /\ AllPass' /\ \A c \in Command : Calm(c)'
  <2>1. Alone' /\ AllPass'
    BY <1>1, <1>2, <1>4 DEF IInv, Alone, AllPass, Running, Judged
  <2>2. ASSUME NEW c \in Command PROVE Calm(c)'
    <3>1. Calm(c)
      BY <1>4 DEF IInv
    <3>2. package' = package /\ record' = record
      BY <1>1
    <3>3. /\ call'[c].pc = call[c].pc /\ call'[c].at = call[c].at /\ call'[c].own = call[c].own
          /\ call'[c].validator = call[c].validator /\ call'[c].draft = call[c].draft
      BY <1>2
    <3> QED
      BY <3>1, <3>2, <3>3 DEF Calm, Whole, Progress
  <2> QED
    BY <2>1, <2>2
<1>5. ASSUME Trusted PROVE PackageTraceable' /\ AllWarranted' /\ \A c \in Command : Sure(c)'
  <2>1. PackageTraceable' /\ AllWarranted'
    BY <1>1, <1>5 DEF IInv, PackageTraceable, AllWarranted, Traceable, Warranted
  <2>2. ASSUME NEW c \in Command PROVE Sure(c)'
    <3>1. call[c].pc # "manifest"
      BY <1>1, <1>5, CallNow DEF MayEdit, Running, Trusted, Shape
    <3>2. Sure(c)
      BY <1>5 DEF IInv
    <3>3. record' = record /\ call'[c].pc = call[c].pc /\ call'[c].at = call[c].at
          /\ call'[c].validator = call[c].validator /\ call'[c].draft = call[c].draft
      BY <1>1, <1>2
    <3> QED
      BY <3>1, <3>2, <3>3 DEF Sure, Traceable, Warranted
  <2> QED
    BY <2>1, <2>2
<1> QED
  BY <1>3, <1>4, <1>5 DEF IInv, Quiet, Trusted

(* Sidecars matter only to the next export.                                *)
LEMMA EditSidecarsKeeps ==
  ASSUME IInv, UNCHANGED <<case, package, record, proposal, call>>
  PROVE  IInv'
  BY DEF IInv, Watched, Running, Alone, AllPass, Judged, Calm, Progress, Whole, PackageTraceable,
     AllWarranted, Sure, Traceable, Warranted, Quiet, Trusted

LEMMA EditRecordKeeps ==
  ASSUME Shaped, IInv, NEW b \in Bodies, EditRecord(b)
  PROVE  IInv'
<1>1. UNCHANGED <<case, reviewed, package, proposal, call>> /\ MayDisturb("record")
  BY DEF EditRecord
<1>2. \A c \in Command : Watched(c)'
  BY <1>1 DEF IInv, Watched, Running
<1>3. ASSUME Quiet PROVE Alone' /\ AllPass' /\ \A c \in Command : Calm(c)'
  <2>1. \A c \in Command : ~Running(c)
    BY <1>1, <1>3 DEF MayDisturb, Quiet
  <2>2. \A c \in Command : Calm(c)' /\ ~Running(c)'
    BY <1>1, <1>3, <2>1, IdleStays DEF IInv
  <2> QED
    BY <1>1, <1>3, <2>2 DEF IInv, Alone, AllPass, Judged
<1>4. ASSUME Trusted PROVE PackageTraceable' /\ AllWarranted' /\ \A c \in Command : Sure(c)'
  <2>1. \A c \in Command : call[c].pc \in {"start", "ended"}
    BY <1>1, <1>4 DEF MayDisturb, Trusted, Running
  <2>2. \A c \in Command : Sure(c)'
    BY <1>1, <2>1 DEF Sure, Rendering
  <2> QED
    BY <1>1, <1>4, <2>2 DEF IInv, PackageTraceable, AllWarranted, Traceable, Warranted
<1> QED
  BY <1>2, <1>3, <1>4 DEF IInv, Quiet, Trusted

LEMMA Initially == Init => IInv
<1> SUFFICES ASSUME Init PROVE IInv
  OBVIOUS
<1>1. \A c \in Command : /\ call[c].pc = "start"
                         /\ call[c].own = NoContext /\ call[c].validator = NoContext
  BY DEF Init, CallAt
<1>2. package["manifest"] = Absent /\ \A f \in ProposalFile : proposal[f] = Absent
  BY PackageNames, ProposalNames DEF Init, PackageFile
<1> QED
  BY <1>1, <1>2 DEF IInv, Watched, Running, Alone, AllPass, Calm, PackageTraceable, AllWarranted,
     Sure, Validated, Rendering

LEMMA Inductive == Spec => [](Shaped /\ IInv)
<1>1. ASSUME Shaped, IInv, Next PROVE IInv'
  <2>1. ASSUME NEW c \in Command,
               Export(c) \/ LoadPackage(c) \/ CreateRecord(c) \/ Propose(c) \/ Stop(c)
        PROVE  IInv'
    BY <1>1, <2>1, ExportKeeps, LoadPackageKeeps, CreateRecordKeeps, ProposeKeeps, EndsUnchanged
       DEF Stop
  <2> QED
    BY <1>1, <2>1, EditCaseKeeps, EditSidecarsKeeps, EditRecordKeeps DEF Next, EditSidecars
<1>2. ASSUME Shaped, IInv, UNCHANGED vars PROVE IInv'
  BY <1>2, EditSidecarsKeeps DEF vars
<1> QED
  BY <1>1, <1>2, Initially, ShapedAlways, PTL DEF Spec

-----------------------------------------------------------------------------
(* The theorems.                                                           *)

(* What a load ended with is one package, as long as exports do not        *)
(* overlap with it: killed exports leave nothing that would be mistaken    *)
(* for a package.                                                          *)
THEOREM LoadedPackageIsOne == ASSUME Quiet PROVE Spec => []ContextCoherent
<1>1. ASSUME Shaped, IInv PROVE ContextCoherent
  <2> SUFFICES ASSUME NEW c \in Command, NEW x \in {call[c].own, call[c].validator},
                      x.digest # Nothing
               PROVE  x.digest = x.manifest /\ x.board = x.manifest.board
    BY DEF ContextCoherent
  <2>1. Calm(c) /\ call[c] \in CallState /\ Shape(c, call[c])
    BY <1>1, Now
  <2>2. Label = {"start", "ended", "manifest", "overwrite", "truncate", "write", "load", "reload",
                 "create", "validate"} \cup Validated
    BY DEF Label, Validated
  <2>3. NoContext.digest = Nothing
    BY NoContextTyped
  <2>4. ASSUME NEW n \in 1..5, Progress(x, n) PROVE n = 5
    BY <2>3, <2>4 DEF Progress
  <2>5. ASSUME Progress(x, 5) PROVE x.digest = x.manifest /\ x.board = x.manifest.board
    BY <2>5 DEF Progress
  <2>6. CASE x = NoContext
    BY <2>3, <2>6
  <2>7. CASE \E n \in 1..5 : Progress(x, n)
    BY <2>4, <2>5, <2>7
  <2>8. x = NoContext \/ \E n \in 1..5 : Progress(x, n)
    <3>1. 5 \in 1..5 /\ call[c].at \in 1..5
      BY <2>1 DEF CallState
    <3>2. CASE x = call[c].own
      BY <2>1, <2>2, <3>1, <3>2, KindAssumption DEF Calm, Whole, CallState, Shape, Validated
    <3>3. CASE x = call[c].validator
      BY <2>1, <2>2, <3>1, <3>3, KindAssumption DEF Calm, Whole, CallState, Shape, Validated
    <3> QED
      BY <3>2, <3>3
  <2> QED
    BY <2>6, <2>7, <2>8
<1> QED
  BY <1>1, Inductive, PTL

(* A proposal is rendered from a record that passes, as long as nobody     *)
(* edits the record meanwhile: it is read more than once.                  *)
THEOREM RenderedRecordsPass == ASSUME Quiet PROVE Spec => []RenderedRecordPasses
<1>1. ASSUME Shaped, IInv PROVE RenderedRecordPasses
  BY <1>1, ProposalNames DEF IInv, AllPass, RenderedRecordPasses, Proposed, Elements, Shaped,
     TypeOK, FilesOK
<1> QED
  BY <1>1, Inductive, PTL

LEMMA OnlyPublish ==
  ASSUME Next, NEW f, proposal'[f] # proposal[f]
  PROVE  \E c \in Command : Publish(c)
  BY DEF Next, Export, BuildBoard, BuildManifest, ValidateOverwrite, TruncateFile, WriteFile,
     LoadPackage, Start, ReadManifest, VerifyArtifacts, ReadPreview, HashManifest, ReturnContext,
     CreateRecord, Propose, ValidateRecord, ReadRecord, CheckCase, Render, Seal, Stop, EditCase,
     EditSidecars, EditRecord, files

(* What is published, and that only what is in hand.                       *)
LEMMA Publishing ==
  ASSUME Shaped, IInv, NEW c \in Command, Publish(c), NEW f \in ProposalFile,
         proposal'[f] # proposal[f]
  PROVE  call[c].pc = "publish" /\ Kind[c] = "propose" /\ proposal'[f] = call[c].draft
<1>1. call[c].pc = "publish"
  BY DEF Publish
<1>2. proposal' = [proposal EXCEPT ![ProposalFiles[call[c].at]] = call[c].draft]
  BY PublishShaped
<1> HIDE DEF ProposalFiles
<1> QED
  BY <1>1, <1>2, ProposerNow DEF Shaped, TypeOK, FilesOK

(* A record that is bound to an earlier package is stale, even if the      *)
(* numbered files are the same: it is not proposed from.                   *)
THEOREM StaleRecordsAreRefused == ASSUME Quiet PROVE Spec => StaleRecordRefused
<1>1. ASSUME Shaped, IInv, Next, NEW f \in Elements(ProposalFiles), proposal'[f] # proposal[f]
      PROVE  /\ proposal'[f].record.binding.digest = package["manifest"]
             /\ proposal'[f].sources = package["manifest"].sources
  <2>1. PICK c \in Command : Publish(c)
    BY <1>1, OnlyPublish
  <2>2. call[c].pc = "publish" /\ Kind[c] = "propose" /\ proposal'[f] = call[c].draft
    BY <1>1, <2>1, ProposalNames, Publishing
  <2>3. Calm(c) /\ call[c].own.manifest \in Manifest
    BY <1>1, <2>2, Now, ProposerNow
  <2>4. /\ Whole(call[c].own) /\ Judged(record, call[c].own) = "PASS"
        /\ call[c].draft.record = record /\ call[c].draft.sources = call[c].own.manifest.sources
    BY <2>2, <2>3 DEF Calm, Validated, Rendering
  <2>5. call[c].own.manifest = package["manifest"] /\ call[c].own.digest = package["manifest"]
    BY <2>4 DEF Whole, Progress
  <2>6. record.binding = Binding(call[c].own)
    BY <2>3, <2>4, PassMeans
  <2>7. record.binding.digest = call[c].own.digest
    BY <2>6 DEF Binding
  <2> QED
    BY <2>2, <2>4, <2>5, <2>7
<1>2. ASSUME Shaped, IInv, [Next]_vars
      PROVE  [\A f \in Elements(ProposalFiles) :
                LET p == proposal'[f]
                IN p # proposal[f] =>
                     /\ p.record.binding.digest = package["manifest"]
                     /\ p.sources = package["manifest"].sources]_vars
  BY <1>1, <1>2
<1> QED
  BY <1>2, Inductive, PTL DEF Spec, StaleRecordRefused

(* Whatever overlaps, a proposal and the hashes in it are of states that   *)
(* the numbered files were in while it was being made.                     *)
THEOREM ProposalsWereCurrent == Spec => ProposalWasCurrent
<1>1. ASSUME Shaped, IInv, Next, NEW f \in Elements(ProposalFiles), proposal'[f] # proposal[f]
      PROVE  \E c \in Command : /\ call[c].pc = "publish"
                                /\ {proposal'[f].sources, proposal'[f].base} \subseteq call[c].seen
  <2>1. PICK c \in Command : Publish(c)
    BY <1>1, OnlyPublish
  <2>2. call[c].pc = "publish" /\ Kind[c] = "propose" /\ proposal'[f] = call[c].draft
    BY <1>1, <2>1, ProposalNames, Publishing
  <2>3. call[c].draft.sources \in call[c].seen /\ call[c].draft.base \in call[c].seen
    BY <1>1, <2>2, PreparerNow
  <2> QED
    BY <2>2, <2>3
<1>2. ASSUME Shaped, IInv, [Next]_vars
      PROVE  [\A f \in Elements(ProposalFiles) :
                LET p == proposal'[f]
                IN p # proposal[f] =>
                     \E c \in Command :
                       call[c].pc = "publish" /\ {p.sources, p.base} \subseteq call[c].seen]_vars
  BY <1>1, <1>2
<1> QED
  BY <1>2, Inductive, PTL DEF Spec, ProposalWasCurrent

LEMMA ReadyMeansClear ==
  ASSUME NEW f, StatusOf(f) = "READY_FOR_HUMAN_DECISION"
  PROVE  /\ f.missing = {} /\ f.reviewed /\ Secondary(f) = {}
         /\ \A r : RouteStatus(f, r) \notin {"needs_data", "needs_validation"}
<1>1. f.missing = {} /\ f.reviewed /\ Secondary(f) = {}
  BY DEF StatusOf, TriageStatus
<1>2. ~InterfaceOpen(f)
  BY <1>1 DEF InterfaceOpen
<1>3. ASSUME NEW r PROVE RouteStatus(f, r) \notin {"needs_data", "needs_validation"}
  BY <1>1, <1>2 DEF RouteStatus
<1> QED
  BY <1>1, <1>3

(* Reviewed sidecars leave a case as ready as it is.                       *)
LEMMA ReadyBesideReviewed ==
  ASSUME NEW k \in Case, NEW s \in BOOLEAN, StatusOf(FactsOf(k, s)) = "READY_FOR_HUMAN_DECISION"
  PROVE  StatusOf(FactsOf(k, TRUE)) = "READY_FOR_HUMAN_DECISION"
<1> DEFINE f == FactsOf(k, s)
           g == FactsOf(k, TRUE)
<1>1. f \in Facts /\ g \in Facts
  BY CaseAssumption
<1>2. f.missing = {} /\ f.reviewed /\ Secondary(f) = {}
  BY ReadyMeansClear
<1>3. /\ g.missing = f.missing /\ g.patterns = f.patterns /\ g.diamond = f.diamond
      /\ g.bounded = f.bounded /\ g.packageUncertain = f.packageUncertain
      /\ g.symptom = f.symptom /\ g.measured = f.measured /\ g.reviewed = f.reviewed
  BY DEF FactsOf
<1>4. g.thermomechanical => f.thermomechanical
  <2>1. DOMAIN g = DOMAIN k /\ "thermomechanical" \in DOMAIN g
    BY <1>1 DEF FactsOf, Facts
  <2>2. /\ f.thermomechanical =
             (k.thermomechanical = "open" \/ (k.thermomechanical = "declared" /\ ~s))
        /\ g.thermomechanical = (k.thermomechanical = "open")
    BY <2>1 DEF FactsOf
  <2> QED
    BY <2>2
<1> HIDE DEF f, g
<1>5. \A class \in Elements(Classes) : Classified(g, class) => Classified(f, class)
  <2>1. DOMAIN Classes = {1, 2, 3, 4, 5}
    BY DEF Classes
  <2>2. Elements(Classes) = {"cooling_boundary_limited", "interface_limited_candidate",
          "package_limited_candidate", "thermomechanical_validation_needed", "measurement_limited"}
    BY <2>1 DEF Elements, Classes
  <2> QED
    BY <1>3, <1>4, <2>2 DEF Classified, DiamondContext
<1>6. Secondary(g) = {}
  BY <1>2, <1>5 DEF Secondary
<1> QED
  BY <1>2, <1>3, <1>6 DEF StatusOf, TriageStatus, g

(* Whoever approves, of the route or of a release to a customer, does so   *)
(* for numbered files that lack nothing, whatever commands overlap and     *)
(* however often the case is edited, as long as nobody edits it while an   *)
(* export runs, nor a record while a proposal does.                        *)
THEOREM ApprovalsAreWarranted == ASSUME Trusted PROVE Spec => []ApprovalWarranted
<1>1. ASSUME Shaped, IInv PROVE ApprovalWarranted
  <2> SUFFICES ASSUME NEW p \in Proposed,
                      p.record.body.outcome = "approved" \/ p.record.body.release = "approved"
               PROVE  StatusOf(FactsOf(p.sources, TRUE)) = "READY_FOR_HUMAN_DECISION"
    BY ReadyMeansClear DEF ApprovalWarranted
  <2>1. PICK f \in ProposalFile : p = proposal[f] /\ proposal[f] # Absent
    BY <1>1 DEF Proposed, Elements, Shaped, TypeOK, FilesOK
  <2>2. /\ Warranted(p.record) /\ p.sources = p.record.binding.sources
        /\ p \in Proposal
    BY <1>1, <2>1 DEF IInv, AllWarranted, Shaped, TypeOK, FilesOK
  <2>3. p.sources \in Case
    BY <2>2 DEF Proposal, Record, Bound
  <2>4. PICK s \in BOOLEAN : StatusOf(FactsOf(p.sources, s)) = "READY_FOR_HUMAN_DECISION"
    BY <2>2 DEF Warranted
  <2> QED
    BY <2>3, <2>4, ReadyBesideReviewed
<1> QED
  BY <1>1, Inductive, PTL
=============================================================================
