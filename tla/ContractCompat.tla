---------------------------- MODULE ContractCompat ----------------------------
(***************************************************************************)
(* The gates of a contract release (packages/contracts/scripts/compat.ts): *)
(* compareSchemas, which walks two JSON documents and asks for a version   *)
(* bump, and the three commands a check runs, baseline:verify,             *)
(* compat:check and release:verify, over the files of a repository.        *)
(***************************************************************************)
EXTENDS Naturals, FiniteSets

-----------------------------------------------------------------------------
(* JSON: [map] holds an object or an array (a function of keys or          *)
(* indices, which the code does not tell apart), the others a scalar.      *)

IsMap(v) == "map" \in DOMAIN v

\* What a scalar that changes is called, by its key.  Lists of enum and of
\* required are maps, and never come here as lists.
ChangeType(key, old, new) ==
  CASE key = "minimum" -> IF new.num > old.num THEN "minimum_increased" ELSE "minimum_decreased"
    [] key = "maximum" -> IF new.num > old.num THEN "maximum_increased" ELSE "maximum_decreased"
    [] key = "additionalProperties" -> "additional_properties_changed"
    [] key = "pattern" -> "pattern_changed"
    [] key = "default" -> "default_changed"
    [] OTHER -> "property_type_changed"

\* Mutant: a higher minimum is as good as a lower one.
MajorForgetful ==
  {"property_removed", "property_type_changed", "maximum_decreased",
   "additional_properties_changed", "pattern_changed"}

\* Those of the list that compareSchemas can come to.
Major ==
  {"property_removed", "property_type_changed", "minimum_increased", "maximum_decreased",
   "additional_properties_changed", "pattern_changed"}

RECURSIVE CompareSchemas(_, _)
\* The types of the changes between two maps, at any depth.  What is new is
\* an optional property, wherever it is.
CompareSchemas(old, new) ==
  LET before == DOMAIN old.map
      after  == DOMAIN new.map
      both   == before \cap after
  IN (IF before \subseteq after THEN {} ELSE {"property_removed"})
     \cup (IF after \subseteq before THEN {} ELSE {"optional_property_added"})
     \cup UNION {CompareSchemas(old.map[k], new.map[k]) : k \in {k \in both : IsMap(old.map[k]) /\ IsMap(new.map[k])}}
     \cup {ChangeType(k, old.map[k], new.map[k]) :
             k \in {k \in both : ~(IsMap(old.map[k]) /\ IsMap(new.map[k])) /\ old.map[k] # new.map[k]}}

RequiredBump(changes) ==
  IF changes \cap Major # {} THEN "major" ELSE IF changes # {} THEN "minor" ELSE "none"

-----------------------------------------------------------------------------
(* The files.  A file is its content, a number, 0 when it is missing.  The *)
(* schema is one of those the descriptor lists with their hashes; the      *)
(* OpenAPI document is in SHA256SUMS only.  Release 1 is the original.  A  *)
(* repository holds the files and the descriptor in use, and of each       *)
(* release their copies and SHA256SUMS, where 0 is a line that is missing. *)

Releases == {1, 2}
Listed   == {"schema"}
Files    == {"schema", "openapi"}

\* What a release was frozen with, before anything was edited.
FrozenFile(release) == release
FrozenDescriptor(release) == [release |-> release, lists |-> release]
Missing == [release |-> 0, lists |-> 0]

\* loadBaselineManifest: SHA256SUMS is a file of the tree like the others.
Sums(repo, release) == repo.sums[release]

\* The original release has what its own SHA256SUMS says, and no file more.
\* The frozen descriptor is one of its files.
BaselineVerify(repo) ==
  /\ \A f \in Files : repo.frozen[1][f] = Sums(repo, 1)[f]
  /\ repo.descriptors[1] = repo.sumOfDescriptor[1]

\* A file that has the hash of SHA256SUMS is not looked into; any other is
\* compared with the copy beside it, whatever hash that has.  A file without
\* a line is not looked at.  The descriptor is YAML: another hash is a change.
\* The release the descriptor in use declares is the one compared with.
CompatCheck(repo) ==
  LET release == repo.descriptor.release
  IN /\ repo.sumOfDescriptor[release] \in {Missing, repo.descriptor}
     /\ \A f \in Files : Sums(repo, release)[f] # 0 =>
          /\ repo.current[f] # 0
          /\ repo.current[f] # Sums(repo, release)[f] => repo.frozen[release][f] = repo.current[f]

\* The descriptor lists what is in use, and the frozen one declares the
\* same release.
ReleaseVerify(repo) ==
  /\ repo.descriptors[repo.descriptor.release].release = repo.descriptor.release
  /\ \A f \in Listed : repo.current[f] = repo.descriptor.lists

Checked(repo) == BaselineVerify(repo) /\ CompatCheck(repo) /\ ReleaseVerify(repo)

-----------------------------------------------------------------------------
(* The reference: what a schema accepts.                                   *)

Has(schema, key) == key \in DOMAIN schema.map
ValuesOf(list) == {list.map[i] : i \in DOMAIN list.map}

RECURSIVE Accepts(_, _)
Accepts(schema, d) ==
  /\ Has(schema, "type") => (schema.map["type"].str = "object") = IsMap(d)
  /\ "num" \in DOMAIN d =>
       /\ Has(schema, "minimum") => d.num >= schema.map["minimum"].num
       /\ Has(schema, "maximum") => d.num <= schema.map["maximum"].num
  /\ Has(schema, "enum") => d \in ValuesOf(schema.map["enum"])
  /\ Has(schema, "pattern") => ("str" \in DOMAIN d => d = schema.map["pattern"])
  /\ IsMap(d) =>
       LET known == IF Has(schema, "properties") THEN DOMAIN schema.map["properties"].map ELSE {}
       IN /\ Has(schema, "required") => \A n \in ValuesOf(schema.map["required"]) : n.str \in DOMAIN d.map
          /\ \A n \in known \cap DOMAIN d.map : Accepts(schema.map["properties"].map[n], d.map[n])
          /\ Has(schema, "additionalProperties") =>
               schema.map["additionalProperties"].bool \/ DOMAIN d.map \subseteq known

\* A bump less than major is asked for only if whatever the old schema
\* accepts the new one accepts, unless something was added: a constraint, a
\* required name or a property that is added counts as minor.
NotMajorIsCompatible(old, new, documents) ==
  LET changes == CompareSchemas(old, new)
  IN RequiredBump(changes) # "major" /\ "optional_property_added" \notin changes =>
       \A d \in documents : Accepts(old, d) => Accepts(new, d)

\* In a repository that passes the three commands, whatever was edited where,
\* SHA256SUMS too, no schema in use is another than its release was frozen
\* with, unless the descriptor and SHA256SUMS were edited with it; nor is any
\* file that is not listed, unless its line of SHA256SUMS or, in a later
\* release, its copy was.  In the original release the copy was in any case.
CheckedIsFrozen(repo) ==
  Checked(repo) =>
    LET release == repo.descriptor.release
        edited(f) == repo.current[f] # FrozenFile(release)
    IN /\ (\E f \in Listed : edited(f)) =>
            /\ repo.descriptor # FrozenDescriptor(release)
            /\ repo.sumOfDescriptor[release] # FrozenDescriptor(release)
       /\ \A f \in Files : edited(f) =>
            \/ Sums(repo, release)[f] # FrozenFile(release)
            \/ release # 1 /\ repo.frozen[release][f] = repo.current[f]
       /\ release = 1 => \A f \in Files : edited(f) => repo.frozen[1][f] # FrozenFile(1)

=============================================================================
