-------------------------- MODULE MCPackageFormat --------------------------
(***************************************************************************)
(* Instance of PackageFormat for TLC: one good manifest and those that     *)
(* differ from it in one key, in archives of a few shapes.                 *)
(***************************************************************************)
EXTENDS PackageFormat

CONSTANTS Css, Js, Other, Bin, BadHost

MCAsciiLower(s) == IF s = "MANIFEST.JSON" THEN "manifest.json"
                   ELSE IF s = "Main.js" THEN "main.js"
                   ELSE IF s = "NUL" THEN "nul" ELSE s
(* One letter beyond ASCII, an E with an accent.                           *)
MCLower(s) == IF s = "EACUTE.js" THEN "eacute.js" ELSE MCAsciiLower(s)

Main == <<"main.js">>
Domain(wild, labels, port) ==
    [form |-> "host", padded |-> FALSE, upper |-> FALSE, port |-> port,
     host |-> [wild |-> wild, labels |-> labels]]
Example == Domain(FALSE, <<"example", "com">>, Missing)
Network(domains) == [known |-> TRUE, domains |-> domains]
Field(type, default, label) ==
    [key |-> TRUE, known |-> TRUE, type |-> type, default |-> default, label |-> label]

Good == [known |-> TRUE, identity |-> TRUE, id |-> "p", tronhawk |-> {"0.1.1"},
         permissions |-> <<"renderer.script">>, css |-> Missing,
         entry |-> [css |-> Missing, renderer |-> Main, main |-> Missing],
         config |-> Missing, network |-> Missing]

Accented == [Good EXCEPT !.entry.renderer = <<"eacute.js">>]

Permissions == {<<>>, <<"renderer.css">>, <<"renderer.script", "renderer.script">>, <<"other">>,
                <<"renderer.script", "renderer.css">>}
EntryForms == {Missing, Null} \cup
    {[Good.entry EXCEPT !.renderer = r] :
        r \in {Missing, Null, <<"..", "main.js">>, <<"Main.js">>, <<"lib", ".", "x.js">>, <<"lib">>}}
    \cup {[Good.entry EXCEPT !.css = Main], [Good.entry EXCEPT !.main = Main]}
Configs == {Null, <<Field("string", Missing, Missing)>>, <<Field("number", "string", 1)>>,
            <<Field("object", Missing, Missing)>>, <<Field("boolean", Null, 0)>>,
            <<Field("string", "string", 1), Field("string", "string", 1)>>}
Networks == {Null, Network(Missing), Network(<<Example>>),
             Network(<<Example, [Example EXCEPT !.upper = TRUE]>>),
             Network(<<Example, [Example EXCEPT !.padded = TRUE, !.port = 80]>>),
             Network(<<[Example EXCEPT !.form = "scheme"]>>),
             Network(<<Domain(TRUE, <<"com">>, Missing)>>),
             Network(<<Domain(TRUE, <<"example", "com">>, 443)>>),
             Network(<<Domain(FALSE, <<"10", "10", "10", "10">>, Missing)>>),
             Network(<<Domain(FALSE, <<"10", "300", "10", "10">>, 0)>>)}

Manifests ==
    {Good, [Good EXCEPT !.known = FALSE], [Good EXCEPT !.tronhawk = {"0.2.0"}],
     [Good EXCEPT !.tronhawk = Hosts], [Good EXCEPT !.id = "q"]}
    \cup {[Good EXCEPT !.permissions = p] : p \in Permissions}
    \cup {[Good EXCEPT !.css = c] : c \in {Null, Css}}
    \cup {[Good EXCEPT !.css = Css, !.permissions = <<"renderer.css">>,
                       !.entry = e] : e \in {Null, [Good.entry EXCEPT !.css = Main, !.renderer = Missing]}}
    \cup {[Good EXCEPT !.entry = e] : e \in EntryForms}
    \cup {[Good EXCEPT !.config = c] : c \in Configs}
    \cup {[Good EXCEPT !.network = n] : n \in Networks}

ManifestBody(m) == [kind |-> "manifest", json |-> m]
Script == [kind |-> "text", json |-> Js]
Second == [kind |-> "text", json |-> Other]
Blob == [kind |-> "binary", json |-> Bin]

Entry(path, body, size, compressed) ==
    [name |-> [path |-> path, dir |-> FALSE], size |-> size, compressed |-> compressed,
     body |-> body]
Folder(path) == [name |-> [path |-> path, dir |-> TRUE], size |-> 0, compressed |-> 0,
                 body |-> Blob]

(* A manifest, the script it usually names, and what else is in the way.   *)
Around(m) ==
    LET json == Entry(<<"manifest.json">>, ManifestBody(m), 1, 1)
    IN {<<json>>, <<json, Entry(Main, Script, 2, 1)>>,
        <<json, Folder(<<"lib">>), Entry(<<"lib", "x.js">>, Script, 1, 0)>>}
Odd ==
    LET json == Entry(<<"manifest.json">>, ManifestBody(Good), 1, 1)
        script == Entry(Main, Script, 1, 1)
    IN {<<script>>, <<json, script, Entry(<<"main.js", "x">>, Script, 1, 1)>>,
        <<json, script, script>>, <<json, script, Entry(<<"Main.js">>, Second, 1, 1)>>,
        <<json, script, Entry(<<"MANIFEST.JSON">>,
                              ManifestBody([Good EXCEPT !.permissions = @ \o <<"renderer.css">>]), 1, 1)>>,
        <<Entry(<<"manifest.json">>, ManifestBody(Accented), 1, 1),
          Entry(<<"eacute.js">>, Script, 1, 1), Entry(<<"EACUTE.js">>, Second, 1, 1)>>,
        <<json, script, Entry(<<"..", "x">>, Script, 1, 1)>>,
        <<json, script, Entry(<<"NUL">>, Script, 1, 1)>>,
        <<json, script, Entry(<<"c:", "x">>, Script, 1, 1)>>,
        <<json, Entry(Main, Blob, 1, 1)>>, <<json, Entry(Main, Script, 9, 9)>>,
        <<json, Entry(Main, Script, 5, 1)>>, <<json, script, Entry(<<"y">>, Script, 6, 3),
        Entry(<<"z">>, Script, 6, 3)>>,
        <<json, script, Folder(<<"a">>), Folder(<<"b">>), Folder(<<"c">>)>>,
        <<Entry(<<"manifest.json">>, Script, 1, 1), script>>,
        <<Entry(<<"manifest.json">>, ManifestBody(Good), 3, 3), script>>}
MCArchives == UNION {Around(m) : m \in Manifests} \cup Odd

(* The plugin's directory: some manifest, and a script that may compress   *)
(* too well, be a link, or be gone.                                        *)
File(body, size, compressed) == [body |-> body, size |-> size, compressed |-> compressed]
Tree(m, extra) == [p \in {<<"manifest.json">>} \cup DOMAIN extra |->
                      IF p = <<"manifest.json">> THEN File(ManifestBody(m), 1, 1) ELSE extra[p]]
One(path, file) == [p \in {path} |-> file]
MCSources ==
    {Tree(Good, One(Main, File(Script, 1, 1))),
     Tree([Good EXCEPT !.id = "q", !.tronhawk = Hosts], One(Main, File(Script, 1, 1))),
     Tree(Good, One(Main, File(Script, 5, 1))),
     Tree(Good, One(Main, File([kind |-> "link", json |-> Js], 1, 1))),
     Tree([Good EXCEPT !.entry = Missing, !.tronhawk = {"0.2.0"}], <<>>),
     Tree([Good EXCEPT !.entry.renderer = <<"lib", ".", "x.js">>],
          One(<<"lib", "x.js">>, File(Script, 1, 1)))}

MCBodies ==
    UNION {{a[i].body : i \in DOMAIN a} : a \in MCArchives}
        \cup UNION {{s[p].body : p \in DOMAIN s} : s \in MCSources}

(* Command lines: each command, and each way to get one wrong.             *)
Line(word, operands, host) ==
    [word |-> word, operands |-> operands, host |-> host,
     version |-> FALSE, help |-> FALSE, understood |-> TRUE]
MCCommandLines ==
    {Line("inspect", 1, h) : h \in Hosts} \cup {Line("pack", 2, h) : h \in Hosts \cup {BadHost}}
    \cup {Line("plugin-dir", 1, Missing), Line("validate", 1, Missing),
          Line("validate", 2, Missing), Line("help", 1, Missing),
          [Line("pack", 0, Missing) EXCEPT !.help = TRUE],
          [Line("", 0, Missing) EXCEPT !.version = TRUE],
          [Line("pack", 2, Missing) EXCEPT !.version = TRUE, !.understood = FALSE]}
=============================================================================
