----------------------------- MODULE AsarMerge -----------------------------
(***************************************************************************)
(* build_merged_asar (asar_merge.rs): the archive a target is started      *)
(* with is its own app.asar with the entry point replaced.  An archive is  *)
(* three functions on paths: what is packed, the symbolic links, and the   *)
(* entries whose header says "unpacked", whose data lie in a directory     *)
(* beside the archive.                                                     *)
(***************************************************************************)
EXTENDS Sequences, SequencesExt

CONSTANTS Entry,        \* ENTRY_TEMPLATE: loads the bootstrap, then the app
          Garbage       \* a package.json that does not parse, or none at all

IndexJs == <<"index.js">>
PackageJson == <<"package.json">>
Overridden == {IndexJs, PackageJson}

(* parse_asar, AsarReader: the header's sizes and its JSON are coherent.   *)
Readable(source) == source.wellFormed

(* collect_unpacked_entries: header nodes, kept as they are.               *)
Unpacked(source) == source.loose

(* patched_package_json: the app keeps its identity, but main is ours.     *)
PackageOf(source) ==
    CASE PackageJson \in DOMAIN source.loose -> source.loose[PackageJson]
      [] PackageJson \in DOMAIN source.packed -> source.packed[PackageJson]
      [] OTHER -> Garbage

Patched(source) ==
    [name |-> IF PackageOf(source) = Garbage THEN Garbage ELSE PackageOf(source).name,
     main |-> IndexJs]

Copied(source) == DOMAIN source.packed \ (Overridden \cup DOMAIN Unpacked(source))

Written(source) ==
    [p \in Copied(source) \cup Overridden |->
        CASE p = IndexJs -> Entry
          [] p = PackageJson -> Patched(source)
          [] OTHER -> source.packed[p]]

(* insert_into_files: an unpacked entry cannot go below a file.            *)
Insertable(source) ==
    \A p \in DOMAIN Unpacked(source) : \A q \in DOMAIN Written(source) : ~IsStrictPrefix(q, p)

Mergeable(source) == Readable(source) /\ Insertable(source)

(* Faulty variant: the unpacked entries are left out and not restored.     *)
MergeWithoutUnpacked(source) ==
    [wellFormed |-> TRUE, packed |-> Written(source), links |-> source.links, loose |-> <<>>]

Merge(source) ==
    [wellFormed |-> TRUE, packed |-> Written(source), links |-> source.links,
     loose |-> Unpacked(source)]

(* The minimal stub: nothing but the entry point.                          *)
Stub ==
    [wellFormed |-> TRUE,
     packed |-> [p \in Overridden |->
                    IF p = IndexJs THEN Entry ELSE [name |-> Garbage, main |-> IndexJs]],
     links |-> <<>>, loose |-> <<>>]

Paths(archive) ==
    DOMAIN archive.packed \cup DOMAIN archive.links \cup DOMAIN archive.loose

(* What a path of an archive yields.  A header has one node for a path, and *)
(* an unpacked one inserted last takes the place of a packed one.           *)
Serve(archive, p) ==
    CASE p \in DOMAIN archive.loose -> archive.loose[p]
      [] p \in DOMAIN archive.links -> archive.links[p]
      [] OTHER -> archive.packed[p]

(* The merged archive stands in for the source: the same paths, the same   *)
(* data but for the two overridden files, the app's own name, and our      *)
(* entry point, unless the source keeps an overridden file unpacked.       *)
StandsInFor(archive, source) ==
    /\ Paths(archive) = Paths(source) \cup Overridden
    /\ \A p \in Paths(source) \ Overridden : Serve(archive, p) = Serve(source, p)
    /\ IndexJs \notin DOMAIN source.loose => Serve(archive, IndexJs) = Entry
    /\ PackageJson \notin DOMAIN source.loose =>
          /\ Serve(archive, PackageJson).main = IndexJs
          /\ PackageOf(source) # Garbage =>
                Serve(archive, PackageJson).name = PackageOf(source).name

=============================================================================
