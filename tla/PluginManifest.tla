--------------------------- MODULE PluginManifest ---------------------------
(***************************************************************************)
(* The rules for a plugin's manifest.json (crates/package/src/lib.rs):     *)
(* which manifests the schema accepts, and what a plugin is loaded as from *)
(* a manifest and the files beside it.                                     *)
(*                                                                         *)
(* Text is abstract.  A path is a sequence of segments, `\` already read   *)
(* as `/`; a host name is a sequence of labels; what an identifier, a name *)
(* or a version may look like is whether it is well formed.  Two markers   *)
(* keep apart a key that is not there and one whose value is null: the     *)
(* schema reads both as None, the loader does not.                         *)
(***************************************************************************)
EXTENDS Integers, Sequences, SequencesExt, FiniteSets, Selection

CONSTANTS Missing, Null,      \* no such key; the value null
          Hosts,              \* protocol versions of hosts
          Lower(_),           \* a segment as the file system compares it
          Colon,              \* segments with a `:`
          NumericLabels, Octets, BadLabels,
          MaxConfigFields, MaxNetworkDomains, MaxLabel

KnownPermissions == {"renderer.css", "renderer.script", "renderer.dom", "renderer.storage",
    "electron.window", "electron.windowControls", "electron.webContents", "electron.session",
    "electron.ipc", "network.access", "network.proxy", "runtime.unsafe"}
ConfigTypes == {"string", "number", "boolean"}

Given(v) == v \notin {Missing, Null}
Distinct(s) == IsInjective(s)

-----------------------------------------------------------------------------
(* Entry paths.  Path::components drops interior "." and empty segments;   *)
(* a leading ".", "" or drive, and any "..", is not a Normal component.    *)
Components(path) == Kept(path, ToSet(path) \ {".", ""})
SafeRelative(path) ==
    /\ path # <<>>
    /\ Head(path) \notin {".", ""} \cup Colon
    /\ ".." \notin ToSet(path)

(* config: at most MaxConfigFields declarations of scalars.  A field is    *)
(* the record of what its declaration has.                                 *)
FieldOk(f) ==
    /\ f.key           \* 1-128 characters, no empty dot-segment
    /\ f.known         \* only type, default and label
    /\ f.label \in {Missing} \cup 1..MaxLabel
    /\ f.type \in ConfigTypes
    /\ f.default \in {Missing, Null, f.type}
ConfigOk(config) ==
    Given(config) =>
        /\ Len(config) <= MaxConfigFields
        /\ \A i \in DOMAIN config : FieldOk(config[i])

(* A host: labels, after "*." if wild.  Digits and dots only is an IPv4    *)
(* address or nothing.                                                     *)
Ipv4Candidate(h) == ~h.wild /\ Len(h.labels) > 1 /\ ToSet(h.labels) \subseteq NumericLabels
HostOk(h) ==
    /\ h.wild => Len(h.labels) > 1
    /\ IF Ipv4Candidate(h)
       THEN Len(h.labels) = 4 /\ ToSet(h.labels) \subseteq Octets
       ELSE h.labels # <<>> /\ ToSet(h.labels) \cap BadLabels = {}
(* An entry of network.domains: form is "host", or what makes it something *)
(* else (a scheme, a path, credentials, a literal).                        *)
DomainOk(d) ==
    /\ d.form = "host"
    /\ HostOk(d.host)
    /\ d.port \in {Missing} \cup 1..65535
(* The form duplicates are looked for in, and the one that is stored.      *)
Normalized(d) == [d EXCEPT !.padded = FALSE, !.upper = FALSE]
Stored(d) == [d EXCEPT !.upper = FALSE]
NetworkOk(network) ==
    Given(network) =>
        /\ network.known
        /\ Given(network.domains)
        /\ Len(network.domains) <= MaxNetworkDomains
        /\ \A i \in DOMAIN network.domains : DomainOk(network.domains[i])
        /\ Distinct([i \in DOMAIN network.domains |-> Normalized(network.domains[i])])

(* tronhawk: the host versions the range admits. *)
ProtocolOk(m, host) == host \in m.tronhawk

EntryPaths(m) ==
    IF Given(m.entry)
    THEN {p \in {m.entry.css, m.entry.renderer, m.entry.main} : Given(p)} ELSE {}

(* validate_manifest_schema_for_host. *)
SchemaOk(m, host) ==
    LET Entry(k) == IF Given(m.entry) THEN m.entry[k] ELSE Missing
        declared == ToSet(m.permissions)
    IN /\ m.known /\ m.identity          \* typed, known keys; id, name, author, version
       /\ ProtocolOk(m, host)
       /\ ConfigOk(m.config)
       /\ NetworkOk(m.network)
       /\ declared \subseteq KnownPermissions
       /\ Distinct(m.permissions)
       /\ ~(Given(m.css) /\ Given(Entry("css")))
       /\ Given(m.css) \/ Given(Entry("css")) => "renderer.css" \in declared
       /\ Given(Entry("renderer")) => "renderer.script" \in declared
       /\ \A p \in EntryPaths(m) : SafeRelative(p)

-----------------------------------------------------------------------------
(* A tree of files: a function from lower-case paths (Windows compares     *)
(* names without case) to what is there.                                   *)
Folded(path) == [i \in DOMAIN path |-> Lower(path[i])]
At(tree, path) == IF Folded(path) \in DOMAIN tree THEN tree[Folded(path)] ELSE Missing

(* What a body is: [kind, json, ...]; only text can be read as a payload.  *)
IsText(body) == body # Missing /\ body.kind \in {"text", "manifest"}
IsManifest(body) == body # Missing /\ body.kind = "manifest"

Rejected == [ok |-> FALSE]

(* The payload of a key: none, its text, or a failure.                     *)
Readable(tree, path) ==
    path = Missing \/ (path # Null /\ IsText(At(tree, Components(path))))
Payload(tree, path) == IF path = Missing THEN Missing ELSE At(tree, Components(path))

(* validate_manifest_for_host and load_plugin_dir_for_host.                *)
Load(tree, host) ==
    LET body == At(tree, <<"manifest.json">>)
        m == body.json
        Entry(k) == IF Given(m.entry) THEN m.entry[k] ELSE Missing
        css == IF m.css = Missing THEN Entry("css") ELSE Missing
    IN IF /\ IsManifest(body)
          /\ SchemaOk(m, host)
          /\ m.css # Null
          /\ \A p \in {css, Entry("renderer"), Entry("main")} : Readable(tree, p)
       THEN [ok |-> TRUE, manifest |-> m, id |-> m.id, permissions |-> m.permissions,
             css |-> IF Given(m.css) THEN m.css ELSE Payload(tree, css),
             renderer |-> Payload(tree, Entry("renderer")),
             main |-> Payload(tree, Entry("main")),
             config |-> IF Given(m.config) THEN m.config ELSE <<>>,
             domains |-> IF Given(m.network)
                         THEN [i \in DOMAIN m.network.domains |-> Stored(m.network.domains[i])]
                         ELSE <<>>]
       ELSE Rejected
=============================================================================
