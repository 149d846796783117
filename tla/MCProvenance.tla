---------------------------- MODULE MCProvenance ----------------------------
(* Two users on one directory: what they type.                             *)
EXTENDS Provenance, TLC

CONSTANTS author, other

Line(kind, name) == [kind |-> kind, name |-> name, id |-> name]

MCProject ==
    "go.mod" :> <<Line("direct", "cobra"), Line("indirect", "pflag"), Line("replaced", "cobra")>>
    @@ "requirements.txt" :> <<Line("direct", "django"), Line("unversioned", "flask"), Line("reference", "more")>>
    @@ "package.json" :> <<Line("malformed", "left-pad")>>

GenKey == [name |-> "genkey"]
SignArtifact(name, key) == [name |-> "sign", file |-> name, key |-> key]
VerifyArtifact(name) == [name |-> "verify", file |-> name]
Attest(files, key) == [name |-> "attest", files |-> files, key |-> key]
VerifyAttest == [name |-> "attestation"]
Inspect == [name |-> "inspect"]
MakeSbom(format) == [name |-> "sbom", format |-> format]

ScriptsOfAuthor ==
    {<<GenKey, SignArtifact("artifact", TRUE), VerifyArtifact("artifact")>>,
     <<SignArtifact("artifact", FALSE), VerifyArtifact("artifact")>>,
     <<MakeSbom("spdx"), SignArtifact("sbom", TRUE), VerifyArtifact("sbom")>>,
     <<MakeSbom("cyclonedx"), Attest(<<"artifact", "sbom">>, TRUE), VerifyAttest>>,
     <<Attest(<<"artifact">>, TRUE), Inspect>>}

ScriptsOfOther ==
    {<<GenKey>>, <<SignArtifact("artifact", TRUE)>>, <<MakeSbom("cyclonedx")>>,
     <<Attest(<<"artifact">>, FALSE), VerifyAttest>>}

MCScripts ==
    {author :> a @@ other :> b : a \in ScriptsOfAuthor, b \in ScriptsOfOther}
=============================================================================
