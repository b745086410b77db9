---------------------------- MODULE PackageFile ----------------------------
(***************************************************************************)
(* What fatso makes of a package file (package.c, configuration.c,         *)
(* source.c, fatso_dependency_parse, yaml.c).  A node of the YAML document *)
(* has a type; a sequence has items, a mapping has pairs.  A key of a pair *)
(* stands for every field it is a prefix of: fatso_yaml_mapping_lookup     *)
(* compares as many characters as the key in the file has.                 *)
(*                                                                         *)
(* The verdict on a part of the file is "ok", "bad" (an error is returned) *)
(* or "abort" (an assertion about the type of a node fails).               *)
(***************************************************************************)
EXTENDS Integers, Sequences, FiniteSetsExt

Absent == [type |-> "none"]

Scalar(text_) == [type |-> "scalar", text |-> text_]
Sequence(items_) == [type |-> "sequence", items |-> items_]
Mapping(pairs_) == [type |-> "mapping", pairs |-> pairs_]
Pair(fields, key_, value_) == [stands |-> fields, key |-> key_, value |-> value_]

(* fatso_yaml_mapping_lookup: the first key that stands for the field.     *)
Lookup(node, field) ==
  LET at == {i \in DOMAIN node.pairs : field \in node.pairs[i].stands}
  IN  IF at = {} THEN Absent ELSE node.pairs[Min(at)].value

(* Steps taken one after the other until one of them goes wrong            *)
FirstOf(verdicts) ==
  LET wrong == {i \in DOMAIN verdicts : verdicts[i] # "ok"}
  IN  IF wrong = {} THEN "ok" ELSE verdicts[Min(wrong)]

(* fatso_yaml_scalar_strdup                                                *)
ScalarVerdict(node) == IF node.type \in {"none", "scalar"} THEN "ok" ELSE "abort"

(* fatso_source_parse                                                      *)
SourceVerdict(node) ==
  IF \/ node.type \in {"none", "scalar"}
     \/ node.type = "mapping" /\ Lookup(node, "git").type = "scalar"
    THEN "ok" ELSE "bad"

(* fatso_dependency_parse                                                  *)
DependencyVerdict(node) ==
  IF \/ node.type # "sequence"
     \/ node.items = <<>>
     \/ Len(node.items) > 1 /\ node.items[2].type # "scalar"
    THEN "bad" ELSE ScalarVerdict(node.items[1])

(* fatso_configuration_parse; dependencies that are not a sequence and     *)
(* defines that are not a mapping are passed over.                         *)
ConfigurationVerdict(node) ==
  IF node.type # "mapping" THEN "abort"
  ELSE
    LET dependencies == Lookup(node, "dependencies")
        defines == Lookup(node, "defines")
    IN  FirstOf(
          (IF dependencies.type # "sequence" THEN <<>>
           ELSE [i \in DOMAIN dependencies.items |->
                   DependencyVerdict(dependencies.items[i])])
          \o
          (IF defines.type # "mapping" THEN <<>>
           ELSE [i \in DOMAIN defines.pairs |->
                   FirstOf(<<ScalarVerdict(defines.pairs[i].key),
                             ScalarVerdict(defines.pairs[i].value)>>)]))

(* The configurations count if they are a sequence.                        *)
ConfigurationsOf(doc) ==
  LET node == Lookup(doc, "configurations")
  IN  IF node.type = "sequence" THEN node.items ELSE <<>>

(* fatso_package_parse_from_file: text that is not YAML and an empty file  *)
(* are errors, a document that is no mapping fails an assertion.           *)
FileVerdict(doc) ==
  CASE doc.type = "none" -> "bad"
    [] doc.type \in {"scalar", "sequence"} -> "abort"
    [] doc.type = "mapping" ->
         FirstOf(
           <<ScalarVerdict(Lookup(doc, "project")),
             ScalarVerdict(Lookup(doc, "version")),
             ScalarVerdict(Lookup(doc, "author")),
             ScalarVerdict(Lookup(doc, "toolchain")),
             SourceVerdict(Lookup(doc, "source")),
             ConfigurationVerdict(doc)>>
           \o [i \in DOMAIN ConfigurationsOf(doc) |->
                 ConfigurationVerdict(ConfigurationsOf(doc)[i])])
=============================================================================
