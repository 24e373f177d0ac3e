---------------------------- MODULE ConfigSources ----------------------------
(***************************************************************************)
(* ConfigSources and AppProperties (simple_data.hpp): JSON and YAML files  *)
(* merged layer by layer, and .properties files merged in an order of      *)
(* their own.                                                              *)
(*                                                                         *)
(* A file system is a function from files to what they hold; a file has a  *)
(* directory, a base name, a layer ("", a profile or "override") and an    *)
(* extension.                                                              *)
(***************************************************************************)
EXTENDS ConfigOverrides, JsonUtil

Missing == [t |-> "missing"]
Broken == [t |-> "broken"]      \* does not parse
Holds(kv) == [t |-> "props", kv |-> kv]     \* a .properties file

-----------------------------------------------------------------------------
(* deep_merge_json: only objects are merged, everything else replaces.     *)

RECURSIVE DeepMerge(_, _)


DeepMerge(dst, src) ==
    IF ~IsObject(dst) \/ ~IsObject(src) THEN dst
    ELSE JObj([k \in DOMAIN dst.f \cup DOMAIN src.f |->
                 IF k \notin DOMAIN src.f THEN dst.f[k]
                 ELSE IF IsObject(src.f[k]) /\ HasField(dst, k) /\ IsObject(dst.f[k])
                 THEN DeepMerge(dst.f[k], src.f[k]) ELSE src.f[k]])

-----------------------------------------------------------------------------
(* yaml_to_json.  A node is a map (a sequence of entries), a seq, a scalar *)
(* with its text, a null or a reference to an anchor.                      *)

YMap(s) == [y |-> "map", e |-> s]
YSeq(s) == [y |-> "seq", e |-> s]
YVal(x, quoted) == [y |-> "val", s |-> x, quoted |-> quoted]
YRef(a) == [y |-> "ref", a |-> a]
YNull == [y |-> "null"]
Entry(k, v) == [k |-> k, v |-> v]

(* A reference without its anchor stays what it is, a text.                *)
ResolveRef(anchors, n) == IF n.y = "ref" /\ n.a \in DOMAIN anchors THEN anchors[n.a] ELSE n

(* The text of a number, an integer if it fits.                            *)
NumberOf == [x \in {<<"1">>, <<"2">>} |-> IF x = <<"1">> THEN 1 ELSE 2]

ScalarToJson(n) ==
    IF n.quoted THEN JStr(n.s)
    ELSE IF n.s \in {<<"true">>, <<"True">>} THEN JBool(TRUE)
    ELSE IF n.s \in {<<"false">>, <<"False">>} THEN JBool(FALSE)
    ELSE IF n.s \in DOMAIN NumberOf THEN JNum(NumberOf[n.s]) ELSE JStr(n.s)

(* What is not an object is not merged.                                    *)
MergeKey(obj, j) == IF j.t = "obj" THEN DeepMerge(obj, j) ELSE obj

(* A merge key << takes effect where it stands: it overrides the entries   *)
(* before it, and those after it override what it brought.                 *)
AddEntry(obj, key, j) ==
    IF key # "<<" THEN JObj([k \in DOMAIN obj.f \cup {key} |-> IF k = key THEN j ELSE obj.f[k]])
    ELSE IF j.t = "arr" THEN FoldLeft(MergeKey, obj, j.e) ELSE MergeKey(obj, j)

RECURSIVE YamlToJson(_, _)
YamlToJson(anchors, node) ==
    LET n == ResolveRef(anchors, node)
    IN IF n.y = "seq" THEN JArr([i \in DOMAIN n.e |-> YamlToJson(anchors, n.e[i])])
       ELSE IF n.y = "map"
       THEN FoldLeft(LAMBDA o, x : AddEntry(o, x.k, YamlToJson(anchors, x.v)),
                     JObj([k \in {} |-> 0]), n.e)
       ELSE IF n.y = "val" THEN ScalarToJson(n)
       ELSE IF n.y = "ref" THEN JStr(<<"*", n.a>>) ELSE JNull

-----------------------------------------------------------------------------
(* The layers of a directory and of all directories, and their content.    *)

File(d, b, l, x) == [dir |-> d, base |-> b, layer |-> l, ext |-> x]

AppendLayers(dir, base, profiles) ==
    FlattenSeq([i \in 1 .. Len(profiles) + 2 |->
        LET l == (<<"">> \o profiles \o <<"override">>)[i]
        IN [x \in 1 .. 3 |-> File(dir, base, l, <<"json", "yaml", "yml">>[x])]])
OrderedPaths(dirs, base, profiles) ==
    FlattenSeq([i \in DOMAIN dirs |-> AppendLayers(dirs[i], base, profiles)])

(* parse_file_to_json; a YAML file holds a document.                       *)
ParseFile(fs, p) ==
    LET c == IF p \in DOMAIN fs THEN fs[p] ELSE Missing
    IN IF p.ext = "json" \/ c \in {Missing, Broken} THEN c ELSE YamlToJson(c.anchors, c.root)
Content(fs, paths) ==
    SelectSeq([i \in DOMAIN paths |-> ParseFile(fs, paths[i])], LAMBDA c : c \notin {Missing, Broken})

(* The constructor: the first application file is taken as it is.          *)
ApplicationJson(fs, dirs, profiles) ==
    LET all == Content(fs, OrderedPaths(dirs, "application", profiles))
    IN IF all = <<>> THEN Missing ELSE FoldLeft(DeepMerge, Head(all), Tail(all))

(* json_content before the expansion: the section of the application's     *)
(* JSON, then the layers of the file; an error if nothing is there.        *)
Merged(fs, dirs, profiles, base) ==
    LET app == ApplicationJson(fs, dirs, profiles)
        section == IF HasField(app, base) /\ IsObject(app.f[base]) THEN app.f[base]
                   ELSE JObj([k \in {} |-> 0])
    IN FoldLeft(DeepMerge, section, Content(fs, OrderedPaths(dirs, base, profiles)))
JsonContent(fs, dirs, profiles, base) ==
    LET m == Merged(fs, dirs, profiles, base)
    IN IF DOMAIN m.f = {} THEN [ok |-> FALSE, code |-> 5019]
       ELSE [ok |-> TRUE, v |-> ExpandEnv(cli, env, over, m)]

-----------------------------------------------------------------------------
(* AppProperties.  A directory is listed in an order the file system       *)
(* chooses; a .properties file holds keys and values, or cannot be read.   *)

ModuleFile(f) == f.base # "application"

(* application.properties, its profiles in order, then the files without   *)
(* and with a profile in the order of the listing.                         *)
PropertyFiles(listing, profiles) ==
    LET app(l) == SelectSeq(listing, LAMBDA f : ~ModuleFile(f) /\ f.layer = l)
    IN app("") \o FlattenSeq([i \in DOMAIN profiles |-> app(profiles[i])])
       \o SelectSeq(listing, LAMBDA f : ModuleFile(f) /\ f.layer = "")
       \o SelectSeq(listing, LAMBDA f : ModuleFile(f) /\ \E i \in DOMAIN profiles : f.layer = profiles[i])

(* listings has one listing per directory.                                 *)
FileProperties(fs, listings, profiles) ==
    LET files == SelectSeq(FlattenSeq([d \in DOMAIN listings |-> PropertyFiles(listings[d], profiles)]),
                           LAMBDA f : fs[f] # Broken)
    IN FoldLeft(LAMBDA acc, f : Over(acc, fs[f].kv), [k \in {} |-> 0], files)

-----------------------------------------------------------------------------
(* AppProperties::AppProperties                                            *)
BuildAppProperties(fs, listings, profiles) ==
    KeepProperties(FileProperties(fs, listings, profiles))

-----------------------------------------------------------------------------
(* What the layers mean, path by path.  A path leads to a value that is    *)
(* not an object; a later layer hides it by having anything there, or      *)
(* something else than an object above.                                    *)

RECURSIVE Leaves(_)
Leaves(j) ==
    IF ~IsObject(j) THEN {[p |-> <<>>, v |-> j]}
    ELSE UNION {{[p |-> <<k>> \o x.p, v |-> x.v] : x \in Leaves(j.f[k])} : k \in DOMAIN j.f}
RECURSIVE Has(_, _)
Has(j, p) == p = <<>> \/ (HasField(j, p[1]) /\ Has(j.f[p[1]], Tail(p)))
Hides(j, p) == Has(j, p) \/ \E x \in Leaves(j) : x.p # p /\ IsPrefix(x.p, p)

LastLeaves(layers) ==
    UNION {{x \in Leaves(layers[i]) : \A j \in i + 1 .. Len(layers) : ~Hides(layers[j], x.p)} :
           i \in DOMAIN layers}

(* The files that count, in the order the documentation gives: directory   *)
(* by directory, first the plain file, then the profiles in their order,   *)
(* application.override and its like last.                                 *)
LayerRank(f, dirs, profiles) ==
    LET dir == CHOOSE i \in DOMAIN dirs : dirs[i] = f.dir
        layer == IF f.layer = "" THEN 0 ELSE IF f.layer = "override" THEN 9
                 ELSE CHOOSE i \in DOMAIN profiles : profiles[i] = f.layer
        ext == IF f.ext = "json" THEN 1 ELSE IF f.ext = "yaml" THEN 2 ELSE 3
    IN 100 * dir + 10 * layer + ext
Layers(fs, dirs, profiles, base) ==
    LET files == {f \in DOMAIN fs : f.base = base /\ f.layer \in {"", "override"} \cup Range(profiles)}
        order == SetToSortSeq(files, LAMBDA f, g : LayerRank(f, dirs, profiles) < LayerRank(g, dirs, profiles))
    IN SelectSeq([i \in DOMAIN order |-> ParseFile(fs, order[i])], LAMBDA c : c \notin {Missing, Broken})

(* What json_content merges is, at every path, what the last layer that    *)
(* says something about the path says: the section of the application's    *)
(* files, then the file's own.  A file that is no object, or does not      *)
(* parse, is passed over; only a first application file that is no object  *)
(* takes the others with it.  Nothing is an error but no key at all.       *)
LayersOK(fs, dirs, profiles, base) ==
    LET all == Layers(fs, dirs, profiles, "application")
        apps == IF all = <<>> \/ ~IsObject(all[1]) THEN <<>> ELSE SelectSeq(all, IsObject)
        own == SelectSeq(Layers(fs, dirs, profiles, base), IsObject)
        section == {[p |-> Tail(x.p), v |-> x.v] :
                      x \in {y \in LastLeaves(apps) : Len(y.p) > 1 /\ y.p[1] = base}}
        m == Merged(fs, dirs, profiles, base)
        ok == JsonContent(fs, dirs, profiles, base).ok
    IN /\ Leaves(m) = {x \in section : \A i \in DOMAIN own : ~Hides(own[i], x.p)} \cup LastLeaves(own)
       /\ Leaves(m) # {} => ok
       /\ ok => \/ \E i \in DOMAIN own : DOMAIN own[i].f # {}
                \/ \E i \in DOMAIN apps : ConsumeObjectAt(apps[i], base).ok

(* A property has the value of the one readable file that outranks all     *)
(* others with the key: by directory; then application, application with a *)
(* profile, module, module with a profile; then by the profile for the     *)
(* application, and by the place in the listing for modules, whatever      *)
(* their profiles.                                                         *)
Rank(f, listings, profiles) ==
    LET d == CHOOSE i \in DOMAIN listings : f \in Range(listings[i])
        place == CHOOSE j \in DOMAIN listings[d] : listings[d][j] = f
        prof == IF f.layer = "" THEN 0 ELSE CHOOSE i \in DOMAIN profiles : profiles[i] = f.layer
    IN 100 * d + (IF ~ModuleFile(f) THEN prof ELSE IF prof = 0 THEN 20 + place ELSE 40 + place)
PropertiesOK(fs, listings, profiles) ==
    LET known == {f \in DOMAIN fs : f.layer \in {""} \cup Range(profiles)}
        good == {f \in known : fs[f] # Broken}
        having(k) == {f \in good : k \in DOMAIN fs[f].kv}
        all == FileProperties(fs, listings, profiles)
    IN /\ DOMAIN all = UNION {DOMAIN fs[f].kv : f \in good}
       /\ \A k \in DOMAIN all : \E f \in having(k) :
             /\ all[k] = fs[f].kv[k]
             /\ \A g \in having(k) \ {f} : Rank(g, listings, profiles) < Rank(f, listings, profiles)

(* json_content reads the overrides, and substitue_envs, run on what it    *)
(* gives, the properties of the AppProperties built last; overrides merged *)
(* after that are known to the first only.  Of the text ${k} the first     *)
(* pass makes what the command line says, then the environment unless it   *)
(* is empty, then the overrides.  What no source has it leaves alone, and  *)
(* then so does the second; the second changes a text only where the value *)
(* the first brought in holds a reference, by the value of that one.       *)
PassesAgree(names) ==
    built => \A k \in names :
        LET ref == <<"$", "{", k, "}">>
            first == ExpandEnv(cli, env, over, JObj([x \in {"x"} |-> JArr(<<JStr(ref)>>)])).f["x"].e[1].s
            second == ReplaceEnvVar(cli, env, props, first)
            inner(s) == {n \in names : s = <<"$", "{", n, "}">>}
        IN /\ ResolveEnvVar(cli, env, props, <<k>>) # {} => ResolveEnvVar(cli, env, over, <<k>>) # {}
           /\ first = IF <<k>> \in DOMAIN cli THEN cli[<<k>>]
                      ELSE IF <<k>> \in DOMAIN env /\ env[<<k>>] # <<>> THEN env[<<k>>]
                      ELSE IF <<k>> \in DOMAIN over THEN over[<<k>>] ELSE ref
           /\ <<k>> \notin DOMAIN cli \cup DOMAIN env \cup DOMAIN over => second = ref
           /\ second # first => \E n \in inner(first) : second \in ResolveEnvVar(cli, env, props, <<n>>)

(* A JSON value written as YAML, strings in quotes, loads as it is; and    *)
(* with a merge key in front of the entries, the entries win.              *)
RECURSIVE AsYaml(_)
AsYaml(j) ==
    IF j.t = "obj" THEN YMap(SetToSeq({Entry(k, AsYaml(j.f[k])) : k \in DOMAIN j.f}))
    ELSE IF j.t = "arr" THEN YSeq([i \in DOMAIN j.e |-> AsYaml(j.e[i])])
    ELSE IF j.t = "str" THEN YVal(j.s, TRUE)
    ELSE IF j.t = "bool" THEN YVal(IF j.b THEN <<"true">> ELSE <<"False">>, FALSE)
    ELSE IF j.t = "num" THEN YVal(<<IF j.n = 1 THEN "1" ELSE "2">>, FALSE) ELSE YNull
YamlOK(j, base) ==
    /\ YamlToJson([a \in {} |-> 0], AsYaml(j)) = j
    /\ IsObject(j) /\ IsObject(base) =>
         YamlToJson([a \in {"a"} |-> AsYaml(base)], YMap(<<Entry("<<", YRef("a"))>> \o AsYaml(j).e))
            = JObj([k \in DOMAIN j.f \cup DOMAIN base.f |->
                      IF k \in DOMAIN j.f THEN j.f[k] ELSE base.f[k]])
=============================================================================
