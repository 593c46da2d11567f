--------------------------- MODULE SealedManifest ---------------------------
(***************************************************************************)
(* labos.benchmarks.sealed_manifest: the artifacts of a blind benchmark    *)
(* are hashed one by one into a manifest, which is written once; later the *)
(* manifest is loaded and the folder verified against it.  Neither command *)
(* looks at a file twice.  A digest is the content it is taken of.         *)
(***************************************************************************)
EXTENDS FileTree

CONSTANTS SealedRoot, Artifacts,     \* the tuple of registered names, sorted
          OutputFile                 \* outside the sealed root

ASSUME SealAssumption ==
  /\ SealedRoot \in Path /\ OutputFile \in Path \ (Directories \cup Below(SealedRoot))
  /\ Artifacts \in Seq(Names(SealedRoot)) /\ Artifacts # <<>>

VARIABLE seal

SealInit ==
  seal = [ phase |-> "check", read |-> <<>>, listing |-> {}, found |-> FALSE,
           output |-> Missing, sealed |-> <<>>, manifest |-> <<>> ]

StopSealing == seal' = [seal EXCEPT !.phase = "error"]

NextArtifact == Artifacts[Len(seal.read) + 1]

(* build_sealed_manifest: _require_regular_artifact, then read_bytes.      *)
CheckArtifact ==
  /\ seal.phase = "check"
  /\ IF Regular(NextArtifact) THEN seal' = [seal EXCEPT !.phase = "read"] ELSE StopSealing
  /\ UNCHANGED tree

ReadArtifact ==
  /\ seal.phase = "read"
  /\ IF ReadableAt(NextArtifact)
     THEN seal' = [seal EXCEPT
            !.read = Append(@, Contents(NextArtifact)),
            !.phase = IF Len(seal.read) + 1 = Len(Artifacts) THEN "existence" ELSE "check"]
     ELSE StopSealing
  /\ UNCHANGED tree

(* The manifest as bytes: digests one after the other; none is torn.       *)
Serialized(read) == [n \in 1..Len(read) |-> read[n][1]]
Torn == <<>>

(* write_new_sealed_manifest: nothing may have the name.                   *)
CheckOutput ==
  /\ seal.phase = "existence"
  /\ IF Resolve(OutputFile) = Missing /\ Stat(Parent[OutputFile]).kind \in {"dir", "link"}
     THEN seal' = [seal EXCEPT !.phase = "create"] ELSE StopSealing
  /\ UNCHANGED tree

(* open("xb"): the file appears, empty.  (A tool's change does not count.) *)
CreateOutput ==
  /\ seal.phase = "create"
  /\ IF Resolve(OutputFile) = Missing /\ Resolve(Parent[OutputFile]) # Missing
     THEN /\ object' = Rename([object EXCEPT ![<<OutputFile, clock>>] = File(Torn, clock)], OutputFile, clock)
          /\ seal' = [seal EXCEPT !.phase = "write", !.output = clock, !.sealed = Serialized(seal.read)]
          /\ late' = late \ {OutputFile} /\ UNCHANGED <<top, clock>>
     ELSE StopSealing /\ UNCHANGED tree

(* write, flush and fsync through the descriptor.                          *)
WriteOutput ==
  /\ seal.phase = "write"
  /\ object' = [object EXCEPT ![<<OutputFile, seal.output>>] = File(seal.sealed, clock)]
  /\ seal' = [seal EXCEPT !.phase = "sealed"]
  /\ UNCHANGED <<top, clock, late>>

(* A call fails: what has the name by now is unlinked.                     *)
FailOutput ==
  /\ seal.phase = "write"
  /\ IF Resolve(OutputFile) # Missing THEN object' = Rename(object, OutputFile, Missing) ELSE UNCHANGED object
  /\ StopSealing
  /\ UNCHANGED <<top, clock, late>>

(* The process is killed: the partial file stays.                          *)
KillSealing ==
  /\ seal.phase = "write"
  /\ seal' = [seal EXCEPT !.phase = "sealed"]
  /\ UNCHANGED tree

-----------------------------------------------------------------------------
(* load_sealed_manifest; what cannot be parsed raises.                     *)
LoadManifest ==
  /\ seal.phase = "sealed"
  /\ IF Regular(OutputFile) /\ Len(Contents(OutputFile)) = Len(Artifacts)
     THEN /\ seal' = [seal EXCEPT !.phase = "list", !.read = <<>>, !.manifest = Contents(OutputFile)]
          /\ Vouch(Below(SealedRoot))
     ELSE StopSealing /\ UNCHANGED tree

(* verify_sealed_manifest: iterdir.                                        *)
ListArtifacts ==
  /\ seal.phase = "list"
  /\ IF Resolve(SealedRoot) = Missing \/ Stat(SealedRoot).kind # "dir" THEN StopSealing
     ELSE seal' = [seal EXCEPT !.phase = "verify", !.listing = Listing(SealedRoot)]
  /\ UNCHANGED tree

(* is_symlink, is_file and read_bytes of one registered name.              *)
VerifyArtifact ==
  /\ seal.phase = "verify" /\ Len(seal.read) < Len(Artifacts)
  /\ LET p == NextArtifact
         bad == p \notin seal.listing \/ ~Regular(p)
         data == IF bad THEN <<>> ELSE Contents(p)
     IN seal' = [seal EXCEPT
          !.read = Append(@, data),
          !.found = @ \/ bad \/ data # <<seal.manifest[Len(seal.read) + 1]>>]
  /\ UNCHANGED tree

(* Faulty variant: unregistered names are not looked for.                  *)
Unexpected_Ignored == {}

Unexpected == {p \in seal.listing : \A n \in DOMAIN Artifacts : Artifacts[n] # p}

EndVerification ==
  /\ seal.phase = "verify" /\ Len(seal.read) = Len(Artifacts)
  /\ seal' = [seal EXCEPT !.phase = IF seal.found \/ Unexpected # {} THEN "mismatch" ELSE "clean"]
  /\ UNCHANGED tree

SealStep ==
  \/ CheckArtifact \/ ReadArtifact \/ CheckOutput \/ CreateOutput \/ WriteOutput \/ FailOutput \/ KillSealing
  \/ LoadManifest \/ ListArtifacts \/ VerifyArtifact \/ EndVerification

-----------------------------------------------------------------------------
(* The verdict of a verification during which nobody touches the sealed    *)
(* folder is right in both directions, whatever happened while it was      *)
(* sealed, to the manifest since, or to a sealing that was cut off: clean  *)
(* exactly if the folder holds the registered artifacts, as plain files    *)
(* with the registered bytes, and nothing else.  The bytes are those that  *)
(* were read for the seal, unless a person touched the manifest.           *)
VerdictIsRight ==
  seal.phase \in {"clean", "mismatch"} /\ Below(SealedRoot) \cap late = {} =>
    /\ OutputFile \notin late => seal.manifest = seal.sealed
    /\ ( seal.phase = "clean" <=>
        /\ Listing(SealedRoot) = {Artifacts[n] : n \in DOMAIN Artifacts}
        /\ \A n \in DOMAIN Artifacts : Regular(Artifacts[n]) /\ Contents(Artifacts[n]) = <<seal.manifest[n]>> )
=============================================================================
