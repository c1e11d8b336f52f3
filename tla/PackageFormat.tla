--------------------------- MODULE PackageFormat ---------------------------
(***************************************************************************)
(* The .thx package: what the archive checks accept, what extraction puts  *)
(* on the disk and loads, what `inspect` says, and how the `tronhawk-pack` *)
(* engine builds and publishes an archive while the plugin's directory may *)
(* change under it (crates/package/src/lib.rs and bin/pack.rs).            *)
(*                                                                         *)
(* An archive is the sequence of the records of its central directory.     *)
(* The machine is Windows: the file system compares names without case,    *)
(* of whatever letter (Lower), where the archive checks only fold ASCII    *)
(* letters (AsciiLower).                                                   *)
(***************************************************************************)
EXTENDS PluginManifest

CONSTANTS Bodies,        \* what a file may contain
    Sources,       \* trees a plugin's directory may be
          Archives,      \* archives that come from elsewhere
          AsciiLower(_),         \* a segment with its ASCII letters in lower case
          Trimmed, Reserved,     \* segments that end in a dot or a space; devices
          MaxEntries, MaxSingle, MaxTotal, MaxRatio, MaxManifestSize,
          CoreHost,      \* HOST_PROTOCOL_VERSION
          CommandLines,
          MaxEdits, MaxPacks          \* bounds of the model

VARIABLES
    source,     \* the plugin's directory
    job,        \* the pack in progress
    temp,       \* the archive in the temporary file beside the output
    output,     \* the output file, and how it came there
    exit,       \* the exit code of the last command
    last,       \* history: the archive that was examined last, if nothing came after
    edits, packs

packageVars == <<source, job, temp, output, exit, last, edits, packs>>

ArchiveEntries == [name : [path : Seq(STRING), dir : BOOLEAN], size : Nat, compressed : Nat, body : Bodies]
SourceFiles == [body : Bodies, size : Nat, compressed : Nat]

(* A body is not the marker of what is missing; "." and ".." end in a dot. *)
ASSUME FormatAssumption ==
    /\ Missing \notin Bodies
    /\ {".", ".."} \subseteq Trimmed
    /\ CoreHost \in Hosts
    /\ Archives \subseteq Seq(ArchiveEntries)
    /\ \A s \in Sources : DOMAIN s \subseteq Seq(STRING) /\ \A p \in DOMAIN s : s[p] \in SourceFiles
    /\ MaxEdits \in Nat /\ MaxPacks \in Nat

NoJob == [step |-> "idle"]
NoArchive == <<>>

-----------------------------------------------------------------------------
(* The archive rules, shared by extract, inspect and pack.                 *)
TotalOf(a, field, n) ==
    LET total[i \in 0..n] == IF i = 0 THEN 0 ELSE total[i - 1] + a[i][field]
    IN total[n]

AtLeastOne(n) == IF n = 0 THEN 1 ELSE n

SizesOk(a) ==
    /\ Len(a) <= MaxEntries
    /\ \A i \in DOMAIN a : a[i].size <= MaxSingle /\ TotalOf(a, "size", i) <= MaxTotal

RatiosOk(a) ==
    \A i \in DOMAIN a :
        LET total == TotalOf(a, "compressed", i)
        IN /\ a[i].size <= MaxRatio * AtLeastOne(a[i].compressed)
           /\ total > 0 => TotalOf(a, "size", i) <= MaxRatio * total

(* Segments that Windows would read as something else.                     *)
NameOk(name) ==
    /\ name.path # <<>>
    /\ ToSet(name.path) \cap ({""} \cup Colon \cup Trimmed) = {}
    /\ {AsciiLower(s) : s \in ToSet(name.path)} \cap Reserved = {}

SafeJoin(name) == SafeRelative(name.path)

(* Faulty variant: only names that are the same byte for byte collide.     *)
CollidesExactly(a) == \E i, j \in DOMAIN a : i # j /\ a[i].name = a[j].name
(* Two entries with the same key.                                          *)
Key(path) == [i \in DOMAIN path |-> AsciiLower(path[i])]
Collides(a) == \E i, j \in DOMAIN a : i # j /\ Key(a[i].name.path) = Key(a[j].name.path)

DuplicateNames(a) == ~Distinct([i \in DOMAIN a |-> a[i].name])

ManifestAt(a) ==
    {i \in DOMAIN a : a[i].name.path = <<"manifest.json">> /\ ~a[i].name.dir}
ManifestEntry(a) == a[CHOOSE i \in ManifestAt(a) : \A j \in ManifestAt(a) : i <= j]

ManifestOk(a, host) ==
    /\ ManifestAt(a) # {}
    /\ ManifestEntry(a).size <= MaxManifestSize
    /\ IsManifest(ManifestEntry(a).body)
    /\ SchemaOk(ManifestEntry(a).body.json, host)

-----------------------------------------------------------------------------
(* extract_for_host: Phase 1 and 1b look at everything before Phase 2      *)
(* writes anything.                                                        *)
Acceptable(a, host) ==
    /\ ~DuplicateNames(a)
    /\ ManifestOk(a, host)
    /\ SizesOk(a) /\ RatiosOk(a)
    /\ \A i \in DOMAIN a : NameOk(a[i].name) /\ SafeJoin(a[i].name)
    /\ ~Collides(a)

Directory == [kind |-> "dir"]
Parents(path) == {SubSeq(path, 1, n) : n \in 1..(Len(path) - 1)}

(* Phase 2 for one entry: the directories above it, then the file.  It     *)
(* fails where a file is in the place of a directory or the reverse.       *)
Broken == Missing
Write(tree, entry) ==
    LET path == Folded(entry.name.path)
        above == Parents(path) \cup (IF entry.name.dir THEN {path} ELSE {})
        blocked == \/ \E p \in above : p \in DOMAIN tree /\ tree[p] # Directory
                   \/ ~entry.name.dir /\ path \in DOMAIN tree /\ tree[path] = Directory
    IN IF tree = Broken \/ blocked THEN Broken
       ELSE [p \in DOMAIN tree \cup above \cup {path} |->
                IF p \in above THEN Directory
                ELSE IF p = path THEN entry.body ELSE tree[p]]

Written(a) ==
    LET written[n \in 0..Len(a)] == IF n = 0 THEN <<>> ELSE Write(written[n - 1], a[n])
    IN written[Len(a)]

(* Phase 3 loads the plugin from what was written.                         *)
ExtractFor(a, host) ==
    IF ~Acceptable(a, host) THEN Rejected
    ELSE LET tree == Written(a)
         IN IF tree = Broken THEN Rejected ELSE Load(tree, host)

-----------------------------------------------------------------------------
(* inspect_archive_for_host.  A declared file must be there under the very *)
(* name the manifest gives.                                                *)

(* Faulty variant: nobody looks for the entry files.                       *)
PresenceUnchecked(a) == TRUE
EntriesPresent(a) ==
    \A p \in EntryPaths(ManifestEntry(a).body.json) :
        \E i \in DOMAIN a : a[i].name = [path |-> p, dir |-> FALSE]

InspectAccepts(a, host) == Acceptable(a, host) /\ EntriesPresent(a)

Forget == [archive |-> NoArchive, host |-> CoreHost, inspected |-> FALSE, plugin |-> Rejected]
Examine(a, host) ==
    last' = [archive |-> a, host |-> host,
             inspected |-> InspectAccepts(a, host), plugin |-> ExtractFor(a, host)]

(* `inspect` of an archive, and what an install of it would come to.       *)
Inspect(a, host) ==
    /\ Examine(a, host)
    /\ exit' = IF InspectAccepts(a, host) THEN 0 ELSE 1
    /\ UNCHANGED <<source, job, temp, output, edits, packs>>

(* `validate` of the plugin's directory.                                   *)
LoadSource(host) == Load([p \in DOMAIN source |-> source[p].body], host)
Validate(host) ==
    /\ exit' = IF LoadSource(host).ok THEN 0 ELSE 1
    /\ last' = Forget
    /\ UNCHANGED <<source, job, temp, output, edits, packs>>

-----------------------------------------------------------------------------
(* pack_for_host: check the directory, write the archive to a temporary    *)
(* file, extract it again, rename it to the output.                        *)

(* Faulty variant: a command that ends leaves its temporary file.          *)
GiveLeaving(code) ==
    /\ exit' = code
    /\ job' = NoJob
    /\ UNCHANGED temp
(* The temporary file and directory are removed by guards.                 *)
Give(code) ==
    /\ exit' = code
    /\ job' = NoJob
    /\ temp' = NoArchive

(* check_pack_entries: the archive rules, on the files of the directory.   *)
EntryOf(path) ==
    [name |-> [path |-> path, dir |-> FALSE], size |-> source[path].size,
     compressed |-> source[path].compressed, body |-> source[path].body]
InputsOk(paths) ==
    LET a == [i \in DOMAIN paths |-> EntryOf(paths[i])]
    IN /\ \A i \in DOMAIN a : a[i].body.kind # "link"
       /\ SizesOk(a)
       /\ ManifestAt(a) # {}
       /\ \A i \in DOMAIN a : NameOk(a[i].name) /\ SafeJoin(a[i].name)
       /\ ~Collides(a)

(* The directory is loaded, its files are listed and checked, and the      *)
(* temporary file is made; placed is whether the output's directory exists,*)
(* is not the source and can be written.                                   *)
StartPack(host) ==
    /\ packs < MaxPacks
    /\ packs' = packs + 1
    /\ \E placed \in BOOLEAN :
          LET plugin == LoadSource(host)
              paths == SetToSeq(DOMAIN source)
          IN IF plugin.ok /\ placed /\ InputsOk(paths)
             THEN job' = [step |-> "write", host |-> host, id |-> plugin.id, todo |-> paths]
                  /\ UNCHANGED <<temp, exit>>
             ELSE Give(1)
    /\ last' = Forget
    /\ UNCHANGED <<source, output, edits>>

(* A file is read when its turn comes; by then it may be another, or gone. *)
WriteEntry ==
    /\ job.step = "write" /\ job.todo # <<>>
    /\ LET path == Head(job.todo)
       IN \/ /\ path \in DOMAIN source
             /\ temp' = Append(temp, EntryOf(path))
             /\ job' = [job EXCEPT !.todo = Tail(@)]
             /\ UNCHANGED exit
          \/ Give(1)
    /\ UNCHANGED <<source, output, last, edits, packs>>

(* Faulty variant: what was checked before is taken to be what was written. *)
RoundTripSkipped ==
    /\ job.step = "write" /\ job.todo = <<>>
    /\ job' = [job EXCEPT !.step = "publish"]
    /\ UNCHANGED <<source, temp, output, exit, last, edits, packs>>

(* The archive must extract to the plugin that was loaded.                 *)
RoundTrip ==
    /\ job.step = "write" /\ job.todo = <<>>
    /\ LET plugin == ExtractFor(temp, job.host)
       IN IF plugin.ok /\ plugin.id = job.id
          THEN job' = [job EXCEPT !.step = "publish"] /\ UNCHANGED <<temp, exit>>
          ELSE Give(1)
    /\ UNCHANGED <<source, output, last, edits, packs>>

(* The rename; when it fails the output is what it was.                    *)
PublishPack ==
    /\ job.step = "publish"
    /\ \/ /\ output' = [archive |-> temp, host |-> job.host, id |-> job.id]
          /\ Give(0)
       \/ Give(1) /\ UNCHANGED output
    /\ UNCHANGED <<source, last, edits, packs>>

-----------------------------------------------------------------------------
(* The command line.  A line is the record of what it has: a word in the   *)
(* place of the command (not one of them: the old form of pack, of which   *)
(* it is the first operand), so many operands, a host version.             *)
Operands == [validate |-> 1, pack |-> 2, inspect |-> 1]

Parsed(line) ==
    LET legacy == line.word \notin DOMAIN Operands
        command == IF legacy THEN "pack" ELSE line.word
        given == line.operands + (IF legacy THEN 1 ELSE 0)
    IN IF ~line.understood THEN "usage"
       ELSE IF line.help THEN "help"
       ELSE IF given # Operands[command] \/ line.host \notin Hosts \cup {Missing} THEN "usage"
       ELSE command

Meaning(line) ==
    IF line.version /\ line.word # "help" THEN IF line.understood THEN "help" ELSE "usage"
    ELSE IF line.word = "" THEN "help"
    ELSE IF line.word = "help" THEN IF line.operands = 0 \/ line.help THEN "help" ELSE "usage"
    ELSE Parsed(line)

(* An archive from elsewhere is examined before the directory is worked    *)
(* on: the two have nothing in common (a bound of the model).              *)
Examined ==
    (IF edits = 0 /\ packs = 0 /\ last = Forget THEN Archives ELSE {})
        \cup (IF output = Missing THEN {} ELSE {output.archive})

Command(line) ==
    LET host == IF line.host = Missing THEN CoreHost ELSE line.host
        meaning == Meaning(line)
    IN /\ job = NoJob
       /\ \/ /\ meaning \in {"help", "usage"}
             /\ exit' = IF meaning = "help" THEN 0 ELSE 2
             /\ UNCHANGED <<source, job, temp, output, last, edits, packs>>
          \/ meaning = "validate" /\ Validate(host)
          \/ meaning = "pack" /\ StartPack(host)
          \/ meaning = "inspect" /\ \E a \in Examined : Inspect(a, host)

(* The process is killed: its guards do not run, and the temporary file    *)
(* stays, under a name no later pack uses.                                 *)
Killed ==
    /\ job # NoJob
    /\ job' = NoJob /\ exit' = -1 /\ temp' = NoArchive
    /\ UNCHANGED <<source, output, last, edits, packs>>

(* Somebody works on the plugin.                                           *)
Edit(s) ==
    /\ edits < MaxEdits /\ s # source
    /\ edits' = edits + 1
    /\ source' = s
    /\ last' = Forget
    /\ UNCHANGED <<job, temp, output, exit, packs>>

PackageInit ==
    /\ source \in Sources
    /\ job = NoJob /\ temp = NoArchive /\ output = Missing /\ exit = -1
    /\ last = Forget /\ edits = 0 /\ packs = 0

PackageNext ==
    \/ \E line \in CommandLines : Command(line)
    \/ WriteEntry \/ RoundTrip \/ PublishPack \/ Killed
    \/ \E s \in Sources : Edit(s)

PackageSpec == PackageInit /\ [][PackageNext]_packageVars
-----------------------------------------------------------------------------
(* Properties.                                                             *)

(* Types; an archive is half written only while a pack is in progress, so  *)
(* that a command that has ended has left nothing (bin/pack.rs exit codes).*)
PackageTypeOK ==
    /\ source \in Sources
    /\ temp \in Seq(ArchiveEntries)
    /\ job.step \in {"idle", "write", "publish"}
    /\ job = NoJob => temp = NoArchive
    /\ output # Missing => output.host \in Hosts
    /\ exit \in -1..2
    /\ last.inspected \in BOOLEAN /\ last.plugin.ok \in BOOLEAN
    /\ edits \in 0..MaxEdits /\ packs \in 0..MaxPacks

(* The entry is one file on the disk with one of another key: names that   *)
(* differ in the case of a letter beyond ASCII.                            *)
SharesFile(a, i) ==
    \E j \in DOMAIN a : /\ Folded(a[j].name.path) = Folded(a[i].name.path)
                        /\ Key(a[j].name.path) # Key(a[i].name.path)

(* Whatever archive it came from, an extracted plugin is the one that was  *)
(* checked before anything was written: the manifest that is loaded is the *)
(* manifest that was validated, no entry has overwritten another, and each *)
(* payload has the permission its kind requires.  Not so for the entries   *)
(* that share a file: their keys differ, and the last one is what stays.   *)
InstalledIsCoherent ==
    last.plugin.ok =>
        LET a == last.archive
            tree == Written(a)
            p == last.plugin
        IN /\ (\E i \in ManifestAt(a) : SharesFile(a, i)) \/ p.manifest = ManifestEntry(a).body.json
           /\ \A i \in DOMAIN a :
                  ~a[i].name.dir => SharesFile(a, i) \/ At(tree, a[i].name.path) = a[i].body
           /\ p.css # Missing => "renderer.css" \in ToSet(p.permissions)
           /\ p.renderer # Missing => "renderer.script" \in ToSet(p.permissions)
           /\ Distinct(p.domains)

(* The key mirrors how a name resolves on a Windows case-insensitive file  *)
(* system (validate_archive_entry_name, lib.rs 1532-1534): no two entries  *)
(* of an archive that installs are one file there.                         *)
KeyMirrorsWindows ==
    last.plugin.ok => \A i \in DOMAIN last.archive : ~SharesFile(last.archive, i)

(* The output file is what it was before, or an archive that extracts, for *)
(* the host version it was packed for, to the plugin pack had loaded: even *)
(* if the directory changes or the process is killed in the middle.        *)
PublishedInstalls ==
    output # Missing =>
        LET p == ExtractFor(output.archive, output.host)
        IN p.ok /\ p.id = output.id

(* What inspect cannot see: a file in the place of a directory, a payload  *)
(* that is declared as null, one that is not text, and an entry that takes *)
(* the manifest's file.                                                    *)
Unseen(a) ==
    LET m == ManifestEntry(a).body.json
        tree == Written(a)
    IN \/ tree = Broken
       \/ \E i \in ManifestAt(a) : SharesFile(a, i)
       \/ m.css = Null
       \/ Given(m.entry) /\ Null \in {m.entry.css, m.entry.renderer, m.entry.main}
       \/ \E p \in EntryPaths(m) :
              LET body == At(tree, Components(p)) IN body # Missing /\ ~IsText(body)

(* An archive that inspect accepts installs, except for what it cannot see. *)
InspectAgrees == last.inspected => last.plugin.ok \/ Unseen(last.archive)
=============================================================================
