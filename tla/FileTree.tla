------------------------------ MODULE FileTree ------------------------------
(***************************************************************************)
(* A file system that others change while a tool of Lab OS reads it.  An   *)
(* object (inode) is named by a path and the moment it was made for it; a  *)
(* directory maps its names to objects, and a link to a directory is       *)
(* entered like one.  Every change gets a stamp of its own (mtime, ctime): *)
(* the clock of the file system is assumed to tell two changes apart.      *)
(* External to Lab OS: what is modelled is what lstat, open and scandir    *)
(* can return to the tools.                                                *)
(***************************************************************************)
EXTENDS Integers, FiniteSets, Sequences

CONSTANTS Path,        \* numbers: a listing is sorted by them
          Top,         \* the topmost directory
          Parent,      \* the directory a path is in
          Data,        \* contents that people write, sequences of digits
          MaxChanges   \* bound on what people change

ASSUME TreeAssumption ==
  /\ Path \subseteq Nat /\ Top \in Path /\ MaxChanges \in Nat
  /\ Parent \in [Path \ {Top} -> Path]
  /\ \A p \in Path \ {Top} : Parent[p] = Top \/ Parent[Parent[p]] = Top
  /\ \A d \in Data : Len(d) = 1

VARIABLES object,    \* object numbers by path and moment
          top,       \* the object that Top names
          clock,     \* changes so far
          late       \* history: paths that lead to something else since the
                     \* tool last vouched for them, or since it began

files == <<object, top, clock>>
tree == <<files, late>>

Missing == -1
Moment == 0..MaxChanges
Names(p) == {q \in Path \ {Top} : Parent[q] = p}
Directories == {p \in Path : Names(p) # {}}
NoObject == [kind |-> "none", stamp |-> 0, data |-> <<>>, names |-> <<>>]
Nowhere == [kind |-> "none", id |-> Missing, stamp |-> 0]

File(d, t) == [kind |-> "file", stamp |-> t, data |-> d, names |-> <<>>]
Link(d, t) == [kind |-> "link", stamp |-> t, data |-> d, names |-> <<>>]   \* to a file with d
Folder(kind, t, names) == [kind |-> kind, stamp |-> t, data |-> <<>>, names |-> names]

Named(p, id, q) ==
  IF id # Missing /\ q \in DOMAIN object[<<p, id>>].names THEN object[<<p, id>>].names[q] ELSE Missing

(* The object a path leads to, by way of directories and links; the tree   *)
(* is at most two levels deep.                                             *)
Resolve(p) ==
  CASE p = Top -> top
    [] p \in Names(Top) -> Named(Top, top, p)
    [] OTHER -> Named(Parent[p], Named(Top, top, Parent[p]), p)

(* os.lstat                                                                *)
Stat(p) ==
  IF Resolve(p) = Missing THEN Nowhere
  ELSE [kind |-> object[<<p, Resolve(p)>>].kind, id |-> Resolve(p), stamp |-> object[<<p, Resolve(p)>>].stamp]

(* os.fstat                                                                *)
DescriptorStat(p, id) == [kind |-> object[<<p, id>>].kind, id |-> id, stamp |-> object[<<p, id>>].stamp]

Listing(p) == {q \in Names(p) : Resolve(q) # Missing}

Regular(p) == Stat(p).kind = "file"

(* A read by path, and is_file, follow a link to a file.                   *)
ReadableAt(p) == p \notin Directories /\ Stat(p).kind \in {"file", "link"}

Contents(p) == object[<<p, Resolve(p)>>].data

Below(p) == {q \in Path : q = p \/ q \in Names(p) \/ (q # Top /\ Parent[q] \in Names(p))}

(* The files that are there, with their contents; all directories are.     *)
TreeInit(present) ==
  /\ top = 0 /\ clock = 0
  /\ late = {}
  /\ object = [x \in Path \X Moment |->
                 CASE x[2] = 0 /\ x[1] \in Directories ->
                        Folder("dir", 0, [q \in Names(x[1]) \cap (Directories \cup DOMAIN present) |-> 0])
                   [] x[2] = 0 /\ x[1] \in DOMAIN present \ Directories -> File(present[x[1]], 0)
                   [] OTHER -> NoObject]

-----------------------------------------------------------------------------
(* People.                                                                 *)

(* The tool has made sure of some paths.                                   *)
Vouch(paths) == late' = late \ paths /\ UNCHANGED files

Tick(p) ==
  /\ clock' = clock + 1
  /\ late' = late \cup Below(p)

(* The name p comes to lead to object id (or to nothing): the directory    *)
(* and the object that leaves or arrives change their stamps.              *)
Rename(o, p, id) ==
  LET d == <<Parent[p], Resolve(Parent[p])>>
      names == [q \in (DOMAIN o[d].names \ {p}) \cup (IF id = Missing THEN {} ELSE {p}) |->
                  IF q = p THEN id ELSE o[d].names[q]]
  IN [x \in DOMAIN o |->
        IF x = d THEN [o[x] EXCEPT !.names = names, !.stamp = clock + 1]
        ELSE IF x \in {<<p, Resolve(p)>>, <<p, id>>} THEN [o[x] EXCEPT !.stamp = clock + 1]
        ELSE o[x]]

EditFile(p) ==
  /\ Regular(p)
  /\ \E d \in Data \ {Contents(p)} : object' = [object EXCEPT ![<<p, Resolve(p)>>] = File(d, clock + 1)]
  /\ Tick(p) /\ UNCHANGED top

(* A file or a link is created, or renamed over what was there.            *)
PutFile(p) ==
  /\ p \notin Directories /\ Resolve(Parent[p]) # Missing
  /\ \E d \in Data : \E new \in {File(d, clock + 1), Link(d, clock + 1)} :
       object' = Rename([object EXCEPT ![<<p, clock + 1>>] = new], p, clock + 1)
  /\ Tick(p) /\ UNCHANGED top

Remove(p) ==
  /\ p # Top /\ Resolve(p) # Missing
  /\ object' = Rename(object, p, Missing)
  /\ Tick(p) /\ UNCHANGED top

(* A directory prepared earlier, with all names in it, takes p's place.    *)
Prepared(p, kind, d) ==
  [x \in DOMAIN object |->
     IF x[2] # clock + 1 \/ x[1] \notin Below(p) THEN object[x]
     ELSE IF x[1] \in Directories
          THEN Folder(IF x[1] = p THEN kind ELSE "dir", IF x[1] = p THEN clock + 1 ELSE 0,
                      [q \in Names(x[1]) |-> clock + 1])
          ELSE File(d, 0)]

SwapDirectory(p) ==
  /\ p \in Directories /\ Resolve(p) # Missing
  /\ \E kind \in {"dir", "link"}, d \in Data :
       IF p = Top THEN object' = Prepared(p, kind, d) /\ top' = clock + 1
       ELSE object' = Rename(Prepared(p, kind, d), p, clock + 1) /\ UNCHANGED top
  /\ Tick(p)

(* What was moved away or removed returns.                                 *)
Return(p) ==
  /\ p # Top /\ Resolve(Parent[p]) # Missing
  /\ \E id \in Moment \ {Resolve(p)} :
       /\ object[<<p, id>>] # NoObject
       /\ object' = Rename(object, p, id)
  /\ Tick(p) /\ UNCHANGED top

People(paths) ==
  clock < MaxChanges /\ \E p \in paths :
    EditFile(p) \/ PutFile(p) \/ Remove(p) \/ SwapDirectory(p) \/ Return(p)
=============================================================================
