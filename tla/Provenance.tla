------------------------------ MODULE Provenance ------------------------------
(***************************************************************************)
(* internal/cli: sign artifact, sign verify, sign genkey, attestation      *)
(* generate, verify and inspect, and sbom, run by several users on one     *)
(* directory.  Nothing locks the files: a command reads and writes them    *)
(* one at a time while others write them too.  It may be killed, or fail   *)
(* to read or write, before every step, and its time may be up at any      *)
(* moment; what that means depends on who looks at the context next.       *)
(***************************************************************************)
EXTENDS Signing, Sbom, FiniteSets

CONSTANTS
    User,           \* each runs one command at a time
    Scripts,        \* the commands of the users
    Project,        \* the lines of the manifests there are
    MaxEdits        \* bound: changes of files by their authors

ASSUME UserAssumption == IsFiniteSet(User)
ASSUME EditsAssumption == MaxEdits \in Nat
ASSUME ProjectAssumption ==
    /\ DOMAIN Project \subseteq {Manifest[i] : i \in DOMAIN Manifest}
    /\ \A name \in DOMAIN Project : Project[name] \in Seq(ManifestLine)

\* The files that are signed, and named in attestations.
Signed == {"artifact", "sbom"}

\* What a user types.
Command ==
    [name : {"genkey", "attestation", "inspect"}]
    \cup [name : {"sign"}, file : Signed, key : BOOLEAN]
    \cup [name : {"verify"}, file : Signed]
    \cup [name : {"attest"}, files : Seq(Signed) \ {<<>>}, key : BOOLEAN]
    \cup [name : {"sbom"}, format : {"spdx", "cyclonedx"}]

ASSUME ScriptsAssumption == Scripts \subseteq [User -> Seq(Command)]

VARIABLES
    file,           \* the directory: what is in a file
    edits,          \* changes by authors so far
    nextKey,        \* keys are generated in this order
    script,         \* script[u]: the commands left, the running one first
    pc,             \* pc[u]: where it is
    own,            \* own[u]: what it has in its variables
    outcome,        \* outcome[u]: how the last one has ended
    disturbed       \* has a command met, or left, two key files of different pairs?

vars == <<file, edits, nextKey, script, pc, own, outcome, disturbed>>

Missing == [kind |-> "missing"]
Data(version) == [kind |-> "data", version |-> version]
PrivateKey(key) == [kind |-> "private key", key |-> key]
PublicKey(key) == [kind |-> "public key", key |-> key]

\* The signature of a file lies beside it.
SignatureOf(name) == CASE name = "artifact" -> "artifact.sig" [] name = "sbom" -> "sbom.sig"

Fresh == [private |-> NoKey, public |-> NoKey, subjects |-> <<>>, signature |-> Missing,
          envelope |-> Missing, manifest |-> 1, components |-> <<>>, late |-> FALSE]
NoOutcome == [cmd |-> [name |-> "none"], code |-> "none", own |-> Fresh, content |-> Missing]

cmd(u) == Head(script[u])

FileName ==
    {"key", "key.pub", "attestation"} \cup Signed \cup {SignatureOf(name) : name \in Signed}
    \cup {Manifest[i] : i \in DOMAIN Manifest}

\* A key pair, of which the public half may be something else.
Init ==
    /\ \E public \in {PublicKey(1), Data(0)} :
         /\ file = [name \in FileName |->
                       CASE name = "artifact" -> Data(0)
                         [] name = "key" -> PrivateKey(1)
                         [] name = "key.pub" -> public
                         [] name \in DOMAIN Project -> [kind |-> "manifest", lines |-> Project[name]]
                         [] OTHER -> Missing]
         /\ disturbed = (public # PublicKey(1))
    /\ script \in Scripts
    /\ edits = 0 /\ nextKey = 2
    /\ pc = [u \in User |-> "idle"]
    /\ own = [u \in User |-> Fresh]
    /\ outcome = [u \in User |-> NoOutcome]

-----------------------------------------------------------------------------
Goto(u, to) == pc' = [pc EXCEPT ![u] = to]

\* The command ends, with what it has last looked at.
EndWith(u, code, content) ==
    /\ Goto(u, "idle")
    /\ script' = [script EXCEPT ![u] = Tail(@)]
    /\ outcome' = [outcome EXCEPT ![u] = [cmd |-> cmd(u), code |-> code, own |-> own[u], content |-> content]]

End(u, code) == EndWith(u, code, Missing)

Goes == UNCHANGED <<script, outcome>>

Write(name, content) == file' = [file EXCEPT ![name] = content]

\* Somebody else is between the two key files, and one of the two writes them.
Meets(u) ==
    \E v \in User \ {u} : /\ pc[v] \in {"save public", "load public"}
                          /\ "genkey" \in {cmd(u).name, cmd(v).name}

Start(u) ==
    /\ pc[u] = "idle" /\ script[u] # <<>>
    /\ own' = [own EXCEPT ![u] = Fresh]
    /\ Goto(u, CASE cmd(u).name = "genkey" -> "save private"
                 [] cmd(u).name = "sign" -> IF cmd(u).key THEN "load private" ELSE "generate"
                 [] cmd(u).name = "attest" -> "subjects"
                 [] cmd(u).name = "sbom" -> "manifests"
                 [] OTHER -> "read")
    /\ Goes
    /\ UNCHANGED <<file, edits, nextKey, disturbed>>

\* The context of the command ends; nobody is told.
TimeIsUp(u) ==
    /\ pc[u] # "idle" /\ ~own[u].late
    /\ own' = [own EXCEPT ![u].late = TRUE]
    /\ UNCHANGED <<file, edits, nextKey, script, pc, outcome, disturbed>>

\* What a function asks that looks at the context before it does anything.
InTime(u) == ~own[u].late

\* It is killed, a file cannot be read or written, or it has asked and stops.
Fails(u) ==
    /\ pc[u] # "idle"
    /\ End(u, "error")
    /\ disturbed' = (disturbed \/ pc[u] = "save public")
    /\ UNCHANGED <<file, edits, nextKey, own>>

-----------------------------------------------------------------------------
(* sign genkey                                                             *)

\* runGenKey, SaveKeyPair: first the private key ...
SavePrivate(u) ==
    /\ pc[u] = "save private" /\ InTime(u)
    /\ own' = [own EXCEPT ![u].private = GenerateKeyPair(nextKey).private,
                         ![u].public = GenerateKeyPair(nextKey).public]
    /\ nextKey' = nextKey + 1
    /\ Write("key", PrivateKey(nextKey))
    /\ Goto(u, "save public")
    /\ disturbed' = (disturbed \/ Meets(u))
    /\ Goes
    /\ UNCHANGED edits

\* ... then the public one.
SavePublic(u) ==
    /\ pc[u] = "save public"
    /\ Write("key.pub", PublicKey(own[u].public))
    /\ End(u, "ok")
    /\ disturbed' = (disturbed \/ Meets(u))
    /\ UNCHANGED <<edits, nextKey, own>>

-----------------------------------------------------------------------------
(* sign artifact                                                           *)

\* LoadKeyPair reads both files before it parses the private key, and never
\* parses the public one.
LoadPrivate(u) ==
    /\ pc[u] = "load private" /\ InTime(u)
    /\ file["key"] # Missing
    /\ own' = [own EXCEPT ![u].private = file["key"].key]
    /\ Goto(u, "load public")
    /\ disturbed' = (disturbed \/ Meets(u))
    /\ Goes
    /\ UNCHANGED <<file, edits, nextKey>>

\* What comes next does not depend on the key.
LoadPublic(u) ==
    /\ pc[u] = "load public"
    /\ file["key.pub"] # Missing
    /\ own' = [own EXCEPT ![u].public = IF file["key.pub"].kind = "public key"
                                        THEN file["key.pub"].key ELSE NoKey]
    /\ Goto(u, IF cmd(u).name = "sign" THEN "sign" ELSE "envelope")
    /\ disturbed' = (disturbed \/ Meets(u))
    /\ Goes
    /\ UNCHANGED <<file, edits, nextKey>>

\* NewSigner without a key pair makes one that nobody keeps.
NewSigner(u) ==
    /\ pc[u] = "generate"
    /\ own' = [own EXCEPT ![u].private = GenerateKeyPair(nextKey).private,
                         ![u].public = GenerateKeyPair(nextKey).public]
    /\ nextKey' = nextKey + 1
    /\ Goto(u, "sign")
    /\ Goes
    /\ UNCHANGED <<file, edits, disturbed>>

\* Faulty: the signer has a key pair of its own.
SignFileWithOther(u) ==
    /\ pc[u] = "sign" /\ InTime(u)
    /\ file[cmd(u).file] # Missing
    /\ own' = [own EXCEPT ![u].signature = Sign(KeyPair(nextKey, own[u].public), file[cmd(u).file])]
    /\ Goto(u, "write signature")
    /\ Goes
    /\ UNCHANGED <<file, edits, nextKey, disturbed>>

SignFile(u) ==
    /\ pc[u] = "sign" /\ InTime(u)
    /\ file[cmd(u).file] # Missing
    /\ own' = [own EXCEPT ![u].signature = Sign(KeyPair(own[u].private, own[u].public), file[cmd(u).file])]
    /\ Goto(u, "write signature")
    /\ Goes
    /\ UNCHANGED <<file, edits, nextKey, disturbed>>

WriteSignature(u) ==
    /\ pc[u] = "write signature" /\ InTime(u)
    /\ Write(SignatureOf(cmd(u).file), own[u].signature)
    /\ End(u, "ok")
    /\ UNCHANGED <<edits, nextKey, own, disturbed>>

-----------------------------------------------------------------------------
(* sign verify                                                             *)

ReadSignature(u) ==
    /\ pc[u] = "read" /\ cmd(u).name = "verify" /\ InTime(u)
    /\ file[SignatureOf(cmd(u).file)] # Missing
    /\ own' = [own EXCEPT ![u].signature = file[SignatureOf(cmd(u).file)]]
    /\ Goto(u, "verify")
    /\ Goes
    /\ UNCHANGED <<file, edits, nextKey, disturbed>>

\* runVerify trusts no key but the one that comes with the signature.  Verify
\* looks at the context, and its error is a refusal like any other.
VerifyFile(u) ==
    /\ pc[u] = "verify"
    /\ LET content == file[cmd(u).file]
           verified == InTime(u) /\ Verify(NoneTrusted, content, own[u].signature)
       IN  /\ content # Missing
           /\ EndWith(u, IF verified THEN "passed" ELSE "refused", content)
    /\ UNCHANGED <<file, edits, nextKey, own, disturbed>>

-----------------------------------------------------------------------------
(* attestation                                                             *)

\* runAttestGen: the files are read one after the other.
AddSubject(u) ==
    /\ pc[u] = "subjects" /\ InTime(u)
    /\ LET done == Len(own[u].subjects)
           name == cmd(u).files[done + 1]
       IN  /\ file[name] # Missing
           /\ own' = [own EXCEPT ![u].subjects = Append(@, CreateSubject(name, file[name]))]
           /\ Goto(u, IF done + 1 < Len(cmd(u).files) THEN "subjects"
                      ELSE IF cmd(u).key THEN "load private" ELSE "statement")
    /\ Goes
    /\ UNCHANGED <<file, edits, nextKey, disturbed>>

\* SignStatement, WriteAttestation
WriteAttestation(u) ==
    /\ pc[u] = "envelope" /\ InTime(u)
    /\ Write("attestation", Envelope(Statement(own[u].subjects), KeyPair(own[u].private, own[u].public)))
    /\ End(u, "ok")
    /\ UNCHANGED <<edits, nextKey, own, disturbed>>

\* Without a key the statement is written as it is.
WriteStatement(u) ==
    /\ pc[u] = "statement" /\ InTime(u)
    /\ Write("attestation", Statement(own[u].subjects))
    /\ End(u, "ok")
    /\ UNCHANGED <<edits, nextKey, own, disturbed>>

ReadAttestation(u) ==
    /\ pc[u] = "read" /\ cmd(u).name = "attestation" /\ InTime(u)
    /\ file["attestation"] # Missing
    /\ own' = [own EXCEPT ![u].envelope = file["attestation"]]
    /\ Goto(u, "verify envelope")
    /\ Goes
    /\ UNCHANGED <<file, edits, nextKey, disturbed>>

\* runAttestVerify: what is no envelope has no signature, and is refused, and
\* so is every envelope when the time is up.  The files that the statement
\* names are not read.
VerifyAttestation(u) ==
    /\ pc[u] = "verify envelope"
    /\ LET envelope == own[u].envelope
           verified == InTime(u) /\ envelope.kind = "envelope" /\ VerifyEnvelope(envelope)
       IN  EndWith(u, IF verified THEN "passed" ELSE "refused", envelope)
    /\ UNCHANGED <<file, edits, nextKey, own, disturbed>>

\* runAttestInspect reads any JSON object as an envelope; in a statement it
\* finds no payload, and fails without another look.
InspectAttestation(u) ==
    /\ pc[u] = "read" /\ cmd(u).name = "inspect" /\ InTime(u)
    /\ file["attestation"] # Missing
    /\ EndWith(u, IF file["attestation"].kind = "envelope" THEN "ok" ELSE "error", file["attestation"])
    /\ UNCHANGED <<file, edits, nextKey, own, disturbed>>

-----------------------------------------------------------------------------
(* sbom                                                                    *)

\* Faulty: what one manifest names replaces what the others have.
ScanManifestAlone(u) ==
    /\ pc[u] = "manifests" /\ own[u].manifest <= Len(Manifest)
    /\ LET name == Manifest[own[u].manifest]
           more == IF file[name] = Missing THEN <<>> ELSE Parsed(name, file[name].lines)
       IN  /\ WithinLimit(own[u].components, more)
           /\ own' = [own EXCEPT ![u].manifest = @ + 1,
                                 ![u].components = IF file[name] = Missing THEN @ ELSE more]
    /\ UNCHANGED pc /\ Goes
    /\ UNCHANGED <<file, edits, nextKey, disturbed>>

\* scanComponents: a manifest that is missing, or is not read because the time
\* is up, counts as one without dependencies.
ScanManifest(u) ==
    /\ pc[u] = "manifests" /\ own[u].manifest <= Len(Manifest)
    /\ LET name == Manifest[own[u].manifest]
           more == IF own[u].late \/ file[name] = Missing THEN <<>> ELSE Parsed(name, file[name].lines)
       IN  /\ WithinLimit(own[u].components, more)
           /\ own' = [own EXCEPT ![u].manifest = @ + 1, ![u].components = @ \o more]
    /\ UNCHANGED pc /\ Goes
    /\ UNCHANGED <<file, edits, nextKey, disturbed>>

\* Generate, WriteToFile; the time is not looked at again.
WriteSbom(u) ==
    /\ pc[u] = "manifests" /\ own[u].manifest > Len(Manifest)
    /\ LET document == Marshal(cmd(u).format, own[u].components)
       IN  Write("sbom", document) /\ EndWith(u, "ok", document)
    /\ UNCHANGED <<edits, nextKey, own, disturbed>>

-----------------------------------------------------------------------------
\* An author changes the artifact, or removes a manifest.
Edit ==
    /\ edits < MaxEdits
    /\ edits' = edits + 1
    /\ Write("artifact", Data(edits + 1)) \/ \E i \in DOMAIN Manifest : Write(Manifest[i], Missing)
    /\ UNCHANGED <<nextKey, script, pc, own, outcome, disturbed>>

Step(u) ==
    \/ Start(u) \/ TimeIsUp(u) \/ Fails(u)
    \/ SavePrivate(u) \/ SavePublic(u)
    \/ LoadPrivate(u) \/ LoadPublic(u) \/ NewSigner(u) \/ SignFile(u) \/ WriteSignature(u)
    \/ ReadSignature(u) \/ VerifyFile(u)
    \/ AddSubject(u) \/ WriteAttestation(u) \/ WriteStatement(u)
    \/ ReadAttestation(u) \/ VerifyAttestation(u) \/ InspectAttestation(u)
    \/ ScanManifest(u) \/ WriteSbom(u)

Next == (\E u \in User : Step(u)) \/ Edit

Spec == Init /\ [][Next]_vars

-----------------------------------------------------------------------------
(* Properties.                                                             *)

\* What is refused has changed since it was signed, or the time was up before
\* it was looked at: as long as no command has met two key files of different
\* pairs, sign verify refuses no unchanged file and attestation verify no
\* envelope in time, whoever else has generated keys, signed and verified
\* meanwhile (cli/sign.go, cli/attestation.go).
RefusalTellsChange ==
    \A u \in User :
        LET o == outcome[u] IN
        o.code = "refused" /\ ~disturbed /\ ~o.own.late =>
            IF o.cmd.name = "verify" THEN o.content # o.own.signature.content
            ELSE o.content.kind # "envelope"

\* Where a list has the components of a manifest; and that it has just these,
\* one after the other.
From(listed, name) == {i \in DOMAIN listed : listed[i].purl[1] = name}

Lists(listed, name, components) ==
    \E before \in 0..Len(listed) :
        /\ From(listed, name) = (before + 1)..(before + Len(components))
        /\ \A i \in DOMAIN components : listed[before + i] = components[i]

\* A bill of materials has, for every manifest, everything it declares in the
\* way that counts, or nothing; and nothing only if the manifest had been
\* removed or the time was up (sbom.go: scanComponents).
SbomListsManifests ==
    \A u \in User : (outcome[u].cmd.name = "sbom" /\ outcome[u].code = "ok") =>
        LET document == outcome[u].content
            listed == IF document.kind = "spdx" THEN document.packages ELSE document.components
        IN  \A name \in DOMAIN Project :
                \/ Lists(listed, name, Parsed(name, Project[name]))
                \/ From(listed, name) = {} /\ (outcome[u].own.late \/ edits > 0)
=============================================================================
