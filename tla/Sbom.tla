-------------------------------- MODULE Sbom --------------------------------
(***************************************************************************)
(* internal/sbom: the components a manifest names, and the two documents   *)
(* made of them.  A line of a manifest is a dependency with a kind; the    *)
(* identifier of a component keeps less than its name: see sanitizeID.     *)
(***************************************************************************)
EXTENDS Naturals, Sequences, FiniteSets

CONSTANT MaxComponents
ASSUME ComponentsAssumption == MaxComponents \in Nat

Manifest == <<"go.mod", "package.json", "requirements.txt">>

ManifestLine ==
    [kind : {"direct", "indirect", "replaced", "unversioned", "reference", "malformed"},
     name : STRING, id : STRING]

Component(manifest, line) ==
    [purl |-> <<manifest, line.name>>, id |-> line.id,
     version |-> IF line.kind = "unversioned" THEN "unknown" ELSE "known"]

\* The lines of these kinds, in their order.
OfKind(lines, kinds) ==
    LET at == {i \in DOMAIN lines : lines[i].kind \in kinds}
    IN  [k \in 1..Cardinality(at) |-> lines[CHOOSE i \in at : Cardinality({j \in at : j <= i}) = k]]

\* parseGoMod: only what is required, and directly.
parseGoMod(lines) == OfKind(lines, {"direct"})

\* parsePackageJSON: a document that is none gives an error, which is no
\* component for scanComponents.
parsePackageJSON(lines) ==
    IF \E i \in DOMAIN lines : lines[i].kind = "malformed" THEN <<>> ELSE lines

\* parseRequirements: files that are referred to are passed over, a
\* requirement without a version is not.
parseRequirements(lines) == OfKind(lines, {"direct", "unversioned"})

Parsed(name, lines) ==
    LET kept == CASE name = "go.mod" -> parseGoMod(lines)
                  [] name = "package.json" -> parsePackageJSON(lines)
                  [] name = "requirements.txt" -> parseRequirements(lines)
    IN  [i \in DOMAIN kept |-> Component(name, kept[i])]

\* scanComponents, one manifest further; too many components are an error.
WithinLimit(components, more) == Len(components) + Len(more) <= MaxComponents

\* buildSPDX: the document describes the project and the project depends on
\* every package.
ToSPDX(components) ==
    [kind |-> "spdx", packages |-> components,
     relations |-> [i \in DOMAIN components |-> <<components[i].id, components[i].version>>]]

\* buildCycloneDX
ToCycloneDX(components) == [kind |-> "cyclonedx", components |-> components]

Marshal(format, components) ==
    IF format = "spdx" THEN ToSPDX(components) ELSE ToCycloneDX(components)
=============================================================================
