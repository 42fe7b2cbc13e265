---------------------------- MODULE Versions ----------------------------
(***************************************************************************)
(* Document versions as VersionInternal compares them.  A version is a     *)
(* triple <<major, minor, patch>>.  The comparison operators of the code   *)
(* are translated as they are written: > looks at the minor number even    *)
(* when the major number is smaller, so it is not an order, and 0.1.0 and  *)
(* 1.0.0 are each "greater" than the other.                                *)
(***************************************************************************)
EXTENDS Naturals

Version == Nat \X Nat \X Nat

\* S_DOCUMENT_VERSION and S_VALID_DOCUMENT_VERSIONS.
DocumentVersion == <<0, 1, 0>>

ValidVersions == {<<0, 0, 0>>, <<0, 1, 0>>}

\* The versions for which ExportToFile writes YAML, not CSV.
YamlVersions == {v \in ValidVersions : v[1] > 0 \/ v[2] > 0}

\* VersionInternal::operator>: three comparisons, each reached when the
\* ones before it are false.
Greater(v, w) ==
  \/ v[1] > w[1]
  \/ v[2] > w[2]
  \/ v[3] > w[3]

\* VersionInternal::operator<=.
LessOrEqual(v, w) == ~Greater(v, w)

\* One `if (a > b) a = b` of ExportYaml.
Clamp(v, ceiling) == IF Greater(v, ceiling) THEN ceiling ELSE v

\* A plausible slip: only the version of the document bounds the output.
ClampToDocumentOnly(requested, current) == Clamp(requested, current)

\* The version ExportYaml writes for a document of version `current` when
\* the caller asks for `requested`.
ExportedVersion(requested, current) ==
  Clamp(Clamp(requested, current), DocumentVersion)
=============================================================================
