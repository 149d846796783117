-------------------------- MODULE ProvenanceProofs --------------------------
(***************************************************************************)
(* Theorems about Provenance, for every set of users, every set of         *)
(* commands they may type, and all manifests.                              *)
(***************************************************************************)
EXTENDS Provenance, SequenceTheorems, FiniteSetTheorems, TLAPS

-----------------------------------------------------------------------------
(* The inductive invariant.  A verdict speaks of the moment it is given;   *)
(* it rests on the two key files being one pair whenever nobody is between *)
(* them, and on what each command has read of them by then.  A bill of     *)
(* materials rests on the manifests that have been read so far.            *)

OwnField == {"private", "public", "subjects", "signature", "envelope", "manifest",
             "components", "late"}

Place == {"idle", "save private", "save public", "load private", "load public", "generate", "sign",
          "write signature", "read", "verify", "verify envelope", "subjects", "envelope", "statement", "manifests"}

TypeInv ==
    /\ DOMAIN file = FileName
    /\ edits \in Nat /\ nextKey \in Nat /\ nextKey > 1 /\ disturbed \in BOOLEAN
    /\ script \in [User -> Seq(Command)]
    /\ pc \in [User -> Place]
    /\ DOMAIN own = User /\ \A u \in User : DOMAIN own[u] = OwnField /\ own[u].late \in BOOLEAN
    /\ DOMAIN outcome = User

\* Which command is at a place.
PlaceInv(u) ==
    /\ pc[u] # "idle" => script[u] # <<>>
    /\ pc[u] \in {"save private", "save public"} => cmd(u).name = "genkey"
    /\ pc[u] \in {"load private", "load public"} => cmd(u).name \in {"sign", "attest"}
    /\ pc[u] \in {"generate", "sign", "write signature"} => cmd(u).name = "sign"
    /\ pc[u] = "verify" => cmd(u).name = "verify"
    /\ pc[u] = "verify envelope" => cmd(u).name = "attestation"
    /\ pc[u] \in {"subjects", "envelope", "statement"} => cmd(u).name = "attest"
    /\ pc[u] = "manifests" => cmd(u).name = "sbom"

Key == Nat \ {NoKey}

\* The two key files are one pair, unless one user is about to write the
\* second of them; and whoever has read the first will read its pair.
PairInv ==
    /\ file["key"].key \in Key
    /\ file["key.pub"].kind = "public key" /\ file["key.pub"].key \in Key
    /\ (\A u \in User : pc[u] # "save public") => file["key.pub"].key = file["key"].key
    /\ \A u \in User : pc[u] = "save public" =>
          /\ own[u].private = file["key"].key /\ own[u].public = file["key"].key
          /\ \A v \in User \ {u} : pc[v] \notin {"save public", "load public"}
    /\ \A u \in User : pc[u] = "load public" => own[u].private = file["key"].key

\* A signature that its own public key accepts.
Genuine(signature) == signature.key = signature.public /\ signature.public # NoKey

GenuineEnvelope(envelope) ==
    Genuine(envelope.signature) /\ envelope.signature.content = envelope.payload

\* What a user signs with, and has signed or read.
SignerInv(u) ==
    /\ pc[u] \in {"sign", "envelope"} => own[u].private = own[u].public /\ own[u].public # NoKey
    /\ pc[u] \in {"write signature", "verify"} => Genuine(own[u].signature)
    /\ pc[u] = "verify envelope" /\ own[u].envelope.kind = "envelope" => GenuineEnvelope(own[u].envelope)

SignedInv ==
    /\ \A name \in Signed : file[SignatureOf(name)] # Missing => Genuine(file[SignatureOf(name)])
    /\ file["attestation"].kind = "envelope" => GenuineEnvelope(file["attestation"])

KeysInv == ~disturbed => PairInv /\ SignedInv /\ \A u \in User : SignerInv(u)

\* The manifests, and what the documents made of them list so far.
ManifestInv ==
    \A i \in DOMAIN Manifest :
        \/ /\ Manifest[i] \in DOMAIN Project
           /\ file[Manifest[i]] = [kind |-> "manifest", lines |-> Project[Manifest[i]]]
        \/ file[Manifest[i]] = Missing /\ (Manifest[i] \in DOMAIN Project => edits > 0)

IsSequence(s) == s \in Seq({s[i] : i \in DOMAIN s})

Told(listed, name, late) ==
    \/ Lists(listed, name, Parsed(name, Project[name]))
    \/ From(listed, name) = {} /\ (late \/ edits > 0)

ListedInv(u) ==
    pc[u] = "manifests" =>
        /\ IsSequence(own[u].components)
        /\ own[u].manifest \in 1..(Len(Manifest) + 1)
        /\ \A i \in DOMAIN Manifest :
              IF i < own[u].manifest
              THEN Manifest[i] \in DOMAIN Project => Told(own[u].components, Manifest[i], own[u].late)
              ELSE From(own[u].components, Manifest[i]) = {}

IInv ==
    /\ TypeInv
    /\ \A u \in User : PlaceInv(u)
    /\ KeysInv
    /\ ManifestInv
    /\ \A u \in User : ListedInv(u)
    /\ RefusalTellsChange
    /\ SbomListsManifests

-----------------------------------------------------------------------------
(* What Verify and VerifyEnvelope accept, and what lists are made of.      *)

LEMMA ManifestFacts ==
    /\ DOMAIN Manifest = 1..3 /\ Len(Manifest) = 3
    /\ Manifest[1] = "go.mod" /\ Manifest[2] = "package.json" /\ Manifest[3] = "requirements.txt"
    /\ \A i, j \in DOMAIN Manifest : Manifest[i] = Manifest[j] => i = j
<1>1. DOMAIN Manifest = 1..3 /\ Len(Manifest) = 3
  BY DEF Manifest
<1>2. Manifest[1] = "go.mod" /\ Manifest[2] = "package.json" /\ Manifest[3] = "requirements.txt"
  BY DEF Manifest
<1>3. ASSUME NEW i \in 1..3, NEW j \in 1..3, Manifest[i] = Manifest[j] PROVE i = j
  <2>1. (i = 1 \/ i = 2 \/ i = 3) /\ (j = 1 \/ j = 2 \/ j = 3)
    OBVIOUS
  <2> QED
    BY <1>2, <1>3, <2>1
<1> QED
  BY <1>1, <1>2, <1>3

LEMMA SignatureNames ==
    /\ SignatureOf("artifact") = "artifact.sig" /\ SignatureOf("sbom") = "sbom.sig"
    /\ FileName = {"key", "key.pub", "attestation", "artifact", "sbom", "artifact.sig", "sbom.sig",
                   "go.mod", "package.json", "requirements.txt"}
    /\ {Manifest[i] : i \in DOMAIN Manifest} = {"go.mod", "package.json", "requirements.txt"}
<1>1. SignatureOf("artifact") = "artifact.sig" /\ SignatureOf("sbom") = "sbom.sig"
  BY DEF SignatureOf
<1>2. {SignatureOf(name) : name \in Signed} = {"artifact.sig", "sbom.sig"}
  BY <1>1 DEF Signed
<1>3. {Manifest[i] : i \in DOMAIN Manifest} = {"go.mod", "package.json", "requirements.txt"}
  <2>1. DOMAIN Manifest = {1, 2, 3}
    BY ManifestFacts
  <2> QED
    BY <2>1, ManifestFacts
<1> QED
  BY <1>1, <1>2, <1>3 DEF FileName, Signed

\* A genuine signature verifies the content it was made of.
LEMMA VerifyFacts ==
    ASSUME NEW content, NEW signature, Genuine(signature), content = signature.content
    PROVE  Verify(NoneTrusted, content, signature)
<1>1. resolvePublicKey(NoneTrusted, signature) = signature.public
  BY DEF resolvePublicKey, NoneTrusted
<1> QED
  BY <1>1 DEF Verify, Accepts, Genuine

LEMMA EnvelopeFacts ==
    ASSUME NEW envelope, GenuineEnvelope(envelope)
    PROVE  VerifyEnvelope(envelope)
<1> DEFINE s == envelope.signature
           trusted == Trusts(NoneTrusted, s.keyID, s.public)
<1>1. s.keyID \in DOMAIN trusted /\ trusted[s.keyID] = s.public
  BY DEF Trusts
<1>2. resolvePublicKey(trusted, s) = s.public
  BY <1>1 DEF resolvePublicKey
<1> QED
  BY <1>2 DEF VerifyEnvelope, Verify, Accepts, Genuine, GenuineEnvelope

LEMMA SequenceFacts ==
    ASSUME NEW s, NEW n \in Nat, DOMAIN s = 1..n, s = [i \in 1..n |-> s[i]]
    PROVE  IsSequence(s) /\ Len(s) = n
<1> DEFINE S == {s[i] : i \in DOMAIN s}
<1>1. s \in [1..n -> S]
  OBVIOUS
<1>2. s \in Seq(S)
  BY <1>1
<1> QED
  BY <1>2 DEF IsSequence

LEMMA LenFacts ==
    ASSUME NEW s, IsSequence(s)
    PROVE  Len(s) \in Nat /\ DOMAIN s = 1..Len(s)
BY DEF IsSequence

\* Two sequences, one after the other.
LEMMA JoinFacts ==
    ASSUME NEW s, NEW t, IsSequence(s), IsSequence(t)
    PROVE  /\ IsSequence(s \o t)
           /\ Len(s \o t) = Len(s) + Len(t)
           /\ \A i \in 1..Len(s) : (s \o t)[i] = s[i]
           /\ \A i \in 1..Len(t) : (s \o t)[Len(s) + i] = t[i]
<1> DEFINE S == {s[i] : i \in DOMAIN s} \cup {t[i] : i \in DOMAIN t}
<1>1. s \in Seq(S)
  <2>1. s \in [1..Len(s) -> S] /\ Len(s) \in Nat
    <3>1. s \in Seq({s[i] : i \in DOMAIN s})
      BY DEF IsSequence
    <3>2. s \in [1..Len(s) -> {s[i] : i \in DOMAIN s}] /\ Len(s) \in Nat
      BY <3>1, LenProperties
    <3> QED
      BY <3>2
  <2> QED
    BY <2>1
<1>2. t \in Seq(S)
  <2>1. t \in [1..Len(t) -> S] /\ Len(t) \in Nat
    <3>1. t \in Seq({t[i] : i \in DOMAIN t})
      BY DEF IsSequence
    <3>2. t \in [1..Len(t) -> {t[i] : i \in DOMAIN t}] /\ Len(t) \in Nat
      BY <3>1, LenProperties
    <3> QED
      BY <3>2
  <2> QED
    BY <2>1
<1> HIDE DEF S
<1>3. /\ s \o t \in Seq(S)
      /\ Len(s \o t) = Len(s) + Len(t)
      /\ \A i \in 1..(Len(s) + Len(t)) : (s \o t)[i] = IF i <= Len(s) THEN s[i] ELSE t[i - Len(s)]
  BY <1>1, <1>2, ConcatProperties
<1>4. Len(s) \in Nat /\ Len(t) \in Nat
  BY <1>1, <1>2
<1>5. IsSequence(s \o t)
  <2> DEFINE j == s \o t
  <2>1. Len(j) \in Nat /\ j \in [1..Len(j) -> S]
    BY <1>3, LenProperties
  <2> QED
    BY <2>1, SequenceFacts
<1>6. ASSUME NEW i \in 1..Len(t) PROVE (s \o t)[Len(s) + i] = t[i]
  <2>1. Len(s) + i \in 1..(Len(s) + Len(t)) /\ ~(Len(s) + i <= Len(s)) /\ (Len(s) + i) - Len(s) = i
    BY <1>4
  <2> QED
    BY <1>3, <2>1
<1>7. ASSUME NEW i \in 1..Len(s) PROVE (s \o t)[i] = s[i]
  BY <1>3, <1>4
<1> QED
  BY <1>3, <1>5, <1>6, <1>7

\* Where a list that is continued has the components of a manifest: where it
\* had them, and where the rest has them.
LEMMA FromJoin ==
    ASSUME NEW s, NEW t, IsSequence(s), IsSequence(t), NEW name
    PROVE  \A i \in 1..(Len(s) + Len(t)) :
              i \in From(s \o t, name) <=>
                  IF i <= Len(s) THEN i \in From(s, name) ELSE t[i - Len(s)].purl[1] = name
<1>1. /\ Len(s) \in Nat /\ DOMAIN s = 1..Len(s)
      /\ Len(t) \in Nat /\ DOMAIN t = 1..Len(t)
      /\ DOMAIN (s \o t) = 1..(Len(s) + Len(t))
  BY LenFacts, JoinFacts
<1> SUFFICES ASSUME NEW i \in 1..(Len(s) + Len(t))
             PROVE  i \in From(s \o t, name) <=>
                        IF i <= Len(s) THEN i \in From(s, name) ELSE t[i - Len(s)].purl[1] = name
  OBVIOUS
<1>2. i \in From(s \o t, name) <=> (s \o t)[i].purl[1] = name
  BY <1>1 DEF From
<1>3. CASE i <= Len(s)
  <2>1. i \in 1..Len(s)
    BY <1>1, <1>3
  <2>2. (s \o t)[i] = s[i]
    BY <2>1, JoinFacts
  <2>3. i \in From(s, name) <=> s[i].purl[1] = name
    BY <2>1, <1>1 DEF From
  <2> QED
    BY <1>2, <1>3, <2>2, <2>3
<1>4. CASE ~(i <= Len(s))
  <2>1. i - Len(s) \in 1..Len(t) /\ Len(s) + (i - Len(s)) = i
    BY <1>1, <1>4
  <2>2. (s \o t)[i] = t[i - Len(s)]
    BY <2>1, JoinFacts
  <2> QED
    BY <1>2, <1>4, <2>2
<1> QED
  BY <1>3, <1>4

LEMMA FromInDomain ==
    ASSUME NEW s, NEW t, IsSequence(s), IsSequence(t), NEW name
    PROVE  From(s, name) \subseteq 1..Len(s) /\ From(s \o t, name) \subseteq 1..(Len(s) + Len(t))
<1>1. DOMAIN s = 1..Len(s) /\ DOMAIN (s \o t) = 1..(Len(s) + Len(t))
  BY LenFacts, JoinFacts
<1> QED
  BY <1>1 DEF From

\* The components of other manifests change nothing.
LEMMA JoinOther ==
    ASSUME NEW s, NEW t, IsSequence(s), IsSequence(t), NEW name,
           \A i \in DOMAIN t : t[i].purl[1] # name
    PROVE  /\ From(s \o t, name) = From(s, name)
           /\ \A components : IsSequence(components) /\ Lists(s, name, components)
                                => Lists(s \o t, name, components)
<1>1. Len(s) \in Nat /\ DOMAIN s = 1..Len(s) /\ Len(t) \in Nat /\ DOMAIN t = 1..Len(t)
  BY LenFacts
<1>2. From(s \o t, name) = From(s, name)
  <2>1. ASSUME NEW i \in 1..(Len(s) + Len(t)) PROVE i \in From(s \o t, name) <=> i \in From(s, name)
    <3>1. CASE i <= Len(s)
      BY <3>1, FromJoin
    <3>2. CASE ~(i <= Len(s))
      <4>1. i - Len(s) \in DOMAIN t
        BY <1>1, <3>2
      <4>2. i \notin From(s \o t, name)
        BY <4>1, <3>2, FromJoin
      <4>3. From(s, name) \subseteq 1..Len(s)
        BY FromInDomain
      <4>4. i \notin 1..Len(s)
        BY <3>2, <1>1
      <4> QED
        BY <4>2, <4>3, <4>4
    <3> QED
      BY <3>1, <3>2
  <2>2. From(s, name) \subseteq 1..(Len(s) + Len(t))
    <3>1. 1..Len(s) \subseteq 1..(Len(s) + Len(t))
      BY <1>1
    <3> QED
      BY <3>1, FromInDomain
  <2>3. From(s \o t, name) \subseteq 1..(Len(s) + Len(t))
    BY FromInDomain
  <2> QED
    BY <2>1, <2>2, <2>3
<1>3. ASSUME NEW components, IsSequence(components), Lists(s, name, components)
      PROVE  Lists(s \o t, name, components)
  <2>1. PICK before \in 0..Len(s) :
           /\ From(s, name) = (before + 1)..(before + Len(components))
           /\ \A i \in DOMAIN components : s[before + i] = components[i]
    BY <1>3 DEF Lists
  <2>2. before \in 0..Len(s \o t)
    BY <1>1, JoinFacts
  <2>3. ASSUME NEW i \in DOMAIN components PROVE (s \o t)[before + i] = components[i]
    <3>1. i \in 1..Len(components) /\ Len(components) \in Nat
      BY <1>3, LenFacts
    <3>2. before + i \in From(s, name)
      BY <2>1, <3>1
    <3>3. before + i \in 1..Len(s)
      BY <3>2, FromInDomain
    <3>4. (s \o t)[before + i] = s[before + i]
      BY <3>3, JoinFacts
    <3> QED
      BY <3>4, <2>1
  <2> QED
    BY <1>2, <2>1, <2>2, <2>3 DEF Lists
<1> QED
  BY <1>2, <1>3

\* A list that had none of a manifest's components, with all of them.
LEMMA JoinOwn ==
    ASSUME NEW s, NEW t, IsSequence(s), IsSequence(t), NEW name,
           From(s, name) = {}, \A i \in DOMAIN t : t[i].purl[1] = name
    PROVE  Lists(s \o t, name, t)
<1>1. Len(s) \in Nat /\ DOMAIN s = 1..Len(s) /\ Len(t) \in Nat /\ DOMAIN t = 1..Len(t)
  BY LenFacts
<1>2. Len(s) \in 0..Len(s \o t)
  BY <1>1, JoinFacts
<1>3. From(s \o t, name) = (Len(s) + 1)..(Len(s) + Len(t))
  <2>1. ASSUME NEW i \in 1..(Len(s) + Len(t))
        PROVE  i \in From(s \o t, name) <=> i \in (Len(s) + 1)..(Len(s) + Len(t))
    <3>1. CASE i <= Len(s)
      <4>1. i \notin From(s \o t, name)
        BY <3>1, FromJoin
      <4>2. i \notin (Len(s) + 1)..(Len(s) + Len(t))
        BY <3>1, <1>1
      <4> QED
        BY <4>1, <4>2
    <3>2. CASE ~(i <= Len(s))
      <4>1. i - Len(s) \in DOMAIN t
        BY <1>1, <3>2
      <4>2. i \in From(s \o t, name)
        BY <4>1, <3>2, FromJoin
      <4>3. i \in (Len(s) + 1)..(Len(s) + Len(t))
        BY <1>1, <3>2
      <4> QED
        BY <4>2, <4>3
    <3> QED
      BY <3>1, <3>2
  <2>2. (Len(s) + 1)..(Len(s) + Len(t)) \subseteq 1..(Len(s) + Len(t))
    BY <1>1
  <2> QED
    BY <2>1, <2>2, FromInDomain
<1>4. \A i \in DOMAIN t : (s \o t)[Len(s) + i] = t[i]
  BY <1>1, JoinFacts
<1> QED
  BY <1>2, <1>3, <1>4 DEF Lists

\* parseGoMod and its like keep whole lines, and each component carries its manifest.
LEMMA ParsedFacts ==
    ASSUME NEW name \in DOMAIN Project
    PROVE  /\ IsSequence(Parsed(name, Project[name]))
           /\ \A i \in DOMAIN Parsed(name, Project[name]) :
                 Parsed(name, Project[name])[i].purl[1] = name
<1> DEFINE lines == Project[name]
           kept == CASE name = "go.mod" -> parseGoMod(lines)
                     [] name = "package.json" -> parsePackageJSON(lines)
                     [] name = "requirements.txt" -> parseRequirements(lines)
<1>1. name \in {"go.mod", "package.json", "requirements.txt"}
  BY ProjectAssumption, SignatureNames
<1>2. Len(lines) \in Nat /\ DOMAIN lines = 1..Len(lines)
  BY ProjectAssumption, LenProperties
<1>3. ASSUME NEW kinds PROVE \E n \in Nat : DOMAIN OfKind(lines, kinds) = 1..n
  <2> DEFINE at == {i \in DOMAIN lines : lines[i].kind \in kinds}
  <2>1. IsFiniteSet(at)
    <3>1. IsFiniteSet(1..Len(lines))
      BY <1>2, FS_Interval
    <3> QED
      BY <3>1, <1>2, FS_Subset
  <2>2. Cardinality(at) \in Nat
    BY <2>1, FS_CardinalityType
  <2>3. DOMAIN OfKind(lines, kinds) = 1..Cardinality(at)
    BY DEF OfKind
  <2> QED
    BY <2>2, <2>3
<1>4. \E n \in Nat : DOMAIN kept = 1..n
  <2>1. CASE name = "go.mod"
    <3>1. kept = OfKind(lines, {"direct"})
      BY <2>1 DEF parseGoMod
    <3> QED
      BY <3>1, <1>3
  <2>2. CASE name = "package.json"
    <3>1. kept = <<>> \/ kept = lines
      BY <2>2 DEF parsePackageJSON
    <3>2. DOMAIN <<>> = 1..0
      OBVIOUS
    <3> QED
      BY <3>1, <3>2, <1>2
  <2>3. CASE name = "requirements.txt"
    <3>1. kept = OfKind(lines, {"direct", "unversioned"})
      BY <2>3 DEF parseRequirements
    <3> QED
      BY <3>1, <1>3
  <2> QED
    BY <1>1, <2>1, <2>2, <2>3
<1>5. PICK n \in Nat : DOMAIN kept = 1..n
  BY <1>4
<1> HIDE DEF kept
<1> DEFINE p == [i \in DOMAIN kept |-> Component(name, kept[i])]
<1>6. Parsed(name, Project[name]) = p
  BY DEF Parsed, kept
<1>7. DOMAIN p = 1..n /\ p = [i \in 1..n |-> p[i]]
  BY <1>5
<1>8. ASSUME NEW i \in DOMAIN p PROVE p[i].purl[1] = name
  BY DEF Component
<1> HIDE DEF p
<1>9. IsSequence(p)
  BY <1>7, SequenceFacts
<1> QED
  BY <1>6, <1>8, <1>9

-----------------------------------------------------------------------------
(* What a step leaves alone: types, places, and the other users.           *)

OtherSame(u) ==
    \A v \in User \ {u} : /\ pc'[v] = pc[v] /\ script'[v] = script[v]
                          /\ own'[v] = own[v] /\ outcome'[v] = outcome[v]

\* One's own variables, updated.
OwnKept(u) ==
    /\ DOMAIN own' = User /\ DOMAIN own'[u] = OwnField /\ own'[u].late \in BOOLEAN
    /\ \A v \in User \ {u} : own'[v] = own[v]

WorldTyped ==
    /\ DOMAIN file' = FileName
    /\ edits' \in Nat /\ nextKey' \in Nat /\ nextKey' > 1 /\ disturbed' \in BOOLEAN

LEMMA TypeFacts ==
    ASSUME TypeInv
    PROVE  /\ DOMAIN file = FileName
           /\ edits \in Nat /\ nextKey \in Nat /\ nextKey > 1 /\ disturbed \in BOOLEAN
           /\ script \in [User -> Seq(Command)] /\ pc \in [User -> Place]
           /\ DOMAIN own = User /\ DOMAIN outcome = User
           /\ \A u \in User : DOMAIN own[u] = OwnField /\ own[u].late \in BOOLEAN
BY DEF TypeInv

LEMMA GoesFrame ==
    ASSUME TypeInv, NEW u \in User, NEW to \in Place, Goto(u, to), Goes, OwnKept(u), WorldTyped
    PROVE  /\ TypeInv' /\ OtherSame(u)
           /\ pc'[u] = to /\ script'[u] = script[u] /\ outcome' = outcome
<1>1. pc' \in [User -> Place] /\ pc'[u] = to /\ \A v \in User \ {u} : pc'[v] = pc[v]
  BY TypeFacts DEF Goto
<1>2. script' = script /\ outcome' = outcome
  BY DEF Goes
<1>3. script' \in [User -> Seq(Command)] /\ DOMAIN outcome' = User
  BY <1>2, TypeFacts
<1>4. \A v \in User : DOMAIN own'[v] = OwnField /\ own'[v].late \in BOOLEAN
  <2> SUFFICES ASSUME NEW v \in User PROVE DOMAIN own'[v] = OwnField /\ own'[v].late \in BOOLEAN
    OBVIOUS
  <2>1. CASE v = u
    BY <2>1 DEF OwnKept
  <2>2. CASE v # u
    BY <2>2, TypeFacts DEF OwnKept
  <2> QED
    BY <2>1, <2>2
<1>5. TypeInv'
  BY <1>1, <1>3, <1>4 DEF TypeInv, OwnKept, WorldTyped
<1> QED
  BY <1>1, <1>2, <1>5 DEF OtherSame, OwnKept

LEMMA EndFrame ==
    ASSUME TypeInv, NEW u \in User, PlaceInv(u), pc[u] # "idle",
           NEW code, NEW content, EndWith(u, code, content),
           own' = own, WorldTyped
    PROVE  /\ TypeInv' /\ OtherSame(u)
           /\ pc'[u] = "idle"
           /\ outcome'[u] = [cmd |-> cmd(u), code |-> code, own |-> own[u], content |-> content]
<1>1. pc' \in [User -> Place] /\ pc'[u] = "idle" /\ \A v \in User \ {u} : pc'[v] = pc[v]
  <2>1. pc' = [pc EXCEPT ![u] = "idle"]
    BY DEF EndWith, Goto
  <2>2. "idle" \in Place
    BY DEF Place
  <2> QED
    BY <2>1, <2>2, TypeFacts
<1>2. script[u] \in Seq(Command) /\ script[u] # <<>>
  BY TypeFacts DEF PlaceInv
<1>3. Tail(script[u]) \in Seq(Command)
  BY <1>2
<1>4. script' = [script EXCEPT ![u] = Tail(@)]
  BY DEF EndWith
<1>5. script' \in [User -> Seq(Command)] /\ \A v \in User \ {u} : script'[v] = script[v]
  BY <1>3, <1>4, TypeFacts
<1>6. /\ DOMAIN outcome' = User /\ \A v \in User \ {u} : outcome'[v] = outcome[v]
      /\ outcome'[u] = [cmd |-> cmd(u), code |-> code, own |-> own[u], content |-> content]
  BY TypeFacts DEF EndWith
<1>7. /\ DOMAIN own' = User /\ \A v \in User \ {u} : own'[v] = own[v]
      /\ \A v \in User : DOMAIN own'[v] = OwnField /\ own'[v].late \in BOOLEAN
  BY TypeFacts
<1>8. TypeInv'
  BY <1>1, <1>5, <1>6, <1>7 DEF TypeInv, WorldTyped
<1> QED
  BY <1>1, <1>5, <1>6, <1>7, <1>8 DEF OtherSame

LEMMA WorldFacts ==
    ASSUME TypeInv, edits' = edits
    PROVE  /\ file' = file /\ nextKey' = nextKey /\ disturbed' = disturbed => WorldTyped
           /\ \A b \in BOOLEAN : file' = file /\ nextKey' = nextKey /\ disturbed' = (disturbed \/ b)
                                   => WorldTyped
           /\ \A name, content : Write(name, content) /\ nextKey' = nextKey /\ disturbed' = disturbed
                                   => WorldTyped
<1>1. \A name, content : Write(name, content) => DOMAIN file' = FileName
  BY TypeFacts DEF Write
<1> QED
  BY <1>1, TypeFacts DEF WorldTyped

\* The user that takes a step is where its command leads.
StepFrame(u) == TypeInv' /\ OtherSame(u) /\ PlaceInv(u)'

LEMMA GoesOnPlace ==
    ASSUME NEW u \in User, script'[u] = script[u]
    PROVE  cmd(u)' = cmd(u)
BY DEF cmd

LEMMA StartFrame ==
    ASSUME TypeInv, NEW u \in User, Start(u)
    PROVE  /\ StepFrame(u) /\ own'[u] = Fresh /\ outcome' = outcome
           /\ pc'[u] \in {"save private", "load private", "generate", "subjects", "manifests", "read"}
<1> DEFINE to == CASE cmd(u).name = "genkey" -> "save private"
                   [] cmd(u).name = "sign" -> IF cmd(u).key THEN "load private" ELSE "generate"
                   [] cmd(u).name = "attest" -> "subjects"
                   [] cmd(u).name = "sbom" -> "manifests"
                   [] OTHER -> "read"
<1>1. /\ to \in {"save private", "load private", "generate", "subjects", "manifests", "read"}
      /\ to = "save private" => cmd(u).name = "genkey"
      /\ to \in {"load private", "generate"} => cmd(u).name = "sign"
      /\ to = "subjects" => cmd(u).name = "attest"
      /\ to = "manifests" => cmd(u).name = "sbom"
  OBVIOUS
<1> HIDE DEF to
<1>2. Goto(u, to) /\ Goes /\ script[u] # <<>>
  BY DEF Start, to
<1>3. OwnKept(u) /\ own'[u] = Fresh
  BY TypeFacts DEF Start, OwnKept, Fresh, OwnField
<1>4. WorldTyped
  BY WorldFacts DEF Start
<1>5. TypeInv' /\ OtherSame(u) /\ pc'[u] = to /\ script'[u] = script[u] /\ outcome' = outcome
  <2>1. to \in Place
    BY <1>1 DEF Place
  <2> QED
    BY <2>1, <1>2, <1>3, <1>4, GoesFrame
<1>6. PlaceInv(u)'
  BY <1>1, <1>2, <1>5, GoesOnPlace DEF PlaceInv
<1> QED
  BY <1>1, <1>3, <1>5, <1>6 DEF StepFrame

\* Every end of a command.
LEMMA EndStepFrame ==
    ASSUME TypeInv, NEW u \in User, PlaceInv(u), pc[u] # "idle",
           NEW code, NEW content, EndWith(u, code, content),
           own' = own, WorldTyped
    PROVE  /\ StepFrame(u) /\ pc'[u] = "idle"
           /\ outcome'[u] = [cmd |-> cmd(u), code |-> code, own |-> own[u], content |-> content]
<1>1. PlaceInv(u)'
  BY EndFrame DEF PlaceInv
<1> QED
  BY <1>1, EndFrame DEF StepFrame

\* Each action, in turn: what the user's place and variables become.
LEMMA MeetsFacts == ASSUME NEW u \in User PROVE Meets(u) \in BOOLEAN
BY DEF Meets

LEMMA SavePrivateFrame ==
    ASSUME TypeInv, NEW u \in User, PlaceInv(u), SavePrivate(u)
    PROVE  /\ StepFrame(u) /\ outcome' = outcome
           /\ pc[u] = "save private" /\ pc'[u] = "save public"
           /\ cmd(u)' = cmd(u)
<1>1. Goto(u, "save public") /\ Goes /\ pc[u] = "save private"
  BY DEF SavePrivate
<1>2. OwnKept(u)
  BY TypeFacts DEF SavePrivate, OwnKept, OwnField
<1>3. WorldTyped
  <2>1. DOMAIN file' = FileName
    BY TypeFacts DEF SavePrivate, Write
  <2>2. edits' = edits /\ nextKey' = nextKey + 1 /\ disturbed' = (disturbed \/ Meets(u))
    BY DEF SavePrivate
  <2> QED
    BY <2>1, <2>2, TypeFacts, MeetsFacts DEF WorldTyped
<1>4. TypeInv' /\ OtherSame(u) /\ pc'[u] = "save public" /\ script'[u] = script[u] /\ outcome' = outcome
  <2>1. "save public" \in Place
    BY DEF Place
  <2> QED
    BY <2>1, <1>1, <1>2, <1>3, GoesFrame
<1>5. cmd(u)' = cmd(u)
  BY <1>4, GoesOnPlace
<1>6. PlaceInv(u)'
  BY <1>1, <1>4, <1>5 DEF PlaceInv
<1> QED
  BY <1>1, <1>4, <1>5, <1>6 DEF StepFrame

LEMMA LoadPrivateFrame ==
    ASSUME TypeInv, NEW u \in User, PlaceInv(u), LoadPrivate(u)
    PROVE  /\ StepFrame(u) /\ outcome' = outcome
           /\ pc[u] = "load private" /\ pc'[u] = "load public"
           /\ cmd(u)' = cmd(u)
<1>1. Goto(u, "load public") /\ Goes /\ pc[u] = "load private"
  BY DEF LoadPrivate
<1>2. OwnKept(u)
  BY TypeFacts DEF LoadPrivate, OwnKept, OwnField
<1>3. WorldTyped
  BY WorldFacts, MeetsFacts DEF LoadPrivate
<1>4. TypeInv' /\ OtherSame(u) /\ pc'[u] = "load public" /\ script'[u] = script[u] /\ outcome' = outcome
  <2>1. "load public" \in Place
    BY DEF Place
  <2> QED
    BY <2>1, <1>1, <1>2, <1>3, GoesFrame
<1>5. cmd(u)' = cmd(u)
  BY <1>4, GoesOnPlace
<1>6. PlaceInv(u)'
  BY <1>1, <1>4, <1>5 DEF PlaceInv
<1> QED
  BY <1>1, <1>4, <1>5, <1>6 DEF StepFrame

LEMMA NewSignerFrame ==
    ASSUME TypeInv, NEW u \in User, PlaceInv(u), NewSigner(u)
    PROVE  /\ StepFrame(u) /\ outcome' = outcome
           /\ pc[u] = "generate" /\ pc'[u] = "sign"
           /\ cmd(u)' = cmd(u)
<1>1. Goto(u, "sign") /\ Goes /\ pc[u] = "generate"
  BY DEF NewSigner
<1>2. OwnKept(u)
  BY TypeFacts DEF NewSigner, OwnKept, OwnField
<1>3. WorldTyped
  BY TypeFacts DEF NewSigner, WorldTyped
<1>4. TypeInv' /\ OtherSame(u) /\ pc'[u] = "sign" /\ script'[u] = script[u] /\ outcome' = outcome
  <2>1. "sign" \in Place
    BY DEF Place
  <2> QED
    BY <2>1, <1>1, <1>2, <1>3, GoesFrame
<1>5. cmd(u)' = cmd(u)
  BY <1>4, GoesOnPlace
<1>6. PlaceInv(u)'
  BY <1>1, <1>4, <1>5 DEF PlaceInv
<1> QED
  BY <1>1, <1>4, <1>5, <1>6 DEF StepFrame

LEMMA SignFileFrame ==
    ASSUME TypeInv, NEW u \in User, PlaceInv(u), SignFile(u)
    PROVE  /\ StepFrame(u) /\ outcome' = outcome
           /\ pc[u] = "sign" /\ pc'[u] = "write signature"
           /\ cmd(u)' = cmd(u)
<1>1. Goto(u, "write signature") /\ Goes /\ pc[u] = "sign"
  BY DEF SignFile
<1>2. OwnKept(u)
  BY TypeFacts DEF SignFile, OwnKept, OwnField
<1>3. WorldTyped
  BY WorldFacts DEF SignFile
<1>4. TypeInv' /\ OtherSame(u) /\ pc'[u] = "write signature" /\ script'[u] = script[u] /\ outcome' = outcome
  <2>1. "write signature" \in Place
    BY DEF Place
  <2> QED
    BY <2>1, <1>1, <1>2, <1>3, GoesFrame
<1>5. cmd(u)' = cmd(u)
  BY <1>4, GoesOnPlace
<1>6. PlaceInv(u)'
  BY <1>1, <1>4, <1>5 DEF PlaceInv
<1> QED
  BY <1>1, <1>4, <1>5, <1>6 DEF StepFrame

LEMMA ReadSignatureFrame ==
    ASSUME TypeInv, NEW u \in User, PlaceInv(u), ReadSignature(u)
    PROVE  /\ StepFrame(u) /\ outcome' = outcome
           /\ pc[u] = "read" /\ pc'[u] = "verify"
           /\ cmd(u)' = cmd(u)
<1>1. Goto(u, "verify") /\ Goes /\ pc[u] = "read" /\ cmd(u).name = "verify"
  BY DEF ReadSignature
<1>2. OwnKept(u)
  BY TypeFacts DEF ReadSignature, OwnKept, OwnField
<1>3. WorldTyped
  BY WorldFacts DEF ReadSignature
<1>4. TypeInv' /\ OtherSame(u) /\ pc'[u] = "verify" /\ script'[u] = script[u] /\ outcome' = outcome
  <2>1. "verify" \in Place
    BY DEF Place
  <2> QED
    BY <2>1, <1>1, <1>2, <1>3, GoesFrame
<1>5. cmd(u)' = cmd(u)
  BY <1>4, GoesOnPlace
<1>6. PlaceInv(u)'
  BY <1>1, <1>4, <1>5 DEF PlaceInv
<1> QED
  BY <1>1, <1>4, <1>5, <1>6 DEF StepFrame

LEMMA ReadAttestationFrame ==
    ASSUME TypeInv, NEW u \in User, PlaceInv(u), ReadAttestation(u)
    PROVE  /\ StepFrame(u) /\ outcome' = outcome
           /\ pc[u] = "read" /\ pc'[u] = "verify envelope"
           /\ cmd(u)' = cmd(u)
<1>1. Goto(u, "verify envelope") /\ Goes /\ pc[u] = "read" /\ cmd(u).name = "attestation"
  BY DEF ReadAttestation
<1>2. OwnKept(u)
  BY TypeFacts DEF ReadAttestation, OwnKept, OwnField
<1>3. WorldTyped
  BY WorldFacts DEF ReadAttestation
<1>4. TypeInv' /\ OtherSame(u) /\ pc'[u] = "verify envelope" /\ script'[u] = script[u] /\ outcome' = outcome
  <2>1. "verify envelope" \in Place
    BY DEF Place
  <2> QED
    BY <2>1, <1>1, <1>2, <1>3, GoesFrame
<1>5. cmd(u)' = cmd(u)
  BY <1>4, GoesOnPlace
<1>6. PlaceInv(u)'
  BY <1>1, <1>4, <1>5 DEF PlaceInv
<1> QED
  BY <1>1, <1>4, <1>5, <1>6 DEF StepFrame

LEMMA TimeIsUpFrame ==
    ASSUME TypeInv, NEW u \in User, PlaceInv(u), TimeIsUp(u)
    PROVE  /\ StepFrame(u) /\ outcome' = outcome /\ pc' = pc /\ cmd(u)' = cmd(u)
           /\ file' = file /\ disturbed' = disturbed
           /\ \A v \in User : \A field \in OwnField \ {"late"} : own'[v][field] = own[v][field]
<1>1. /\ pc' = pc /\ Goes /\ outcome' = outcome /\ file' = file /\ disturbed' = disturbed
      /\ own' = [own EXCEPT ![u].late = TRUE]
  BY DEF TimeIsUp, Goes
<1>2. Goto(u, pc[u]) /\ pc[u] \in Place
  BY <1>1, TypeFacts DEF Goto
<1>3. OwnKept(u)
  BY <1>1, TypeFacts DEF OwnKept, OwnField
<1>4. WorldTyped
  BY WorldFacts DEF TimeIsUp
<1>5. TypeInv' /\ OtherSame(u) /\ pc'[u] = pc[u] /\ script'[u] = script[u]
  BY <1>1, <1>2, <1>3, <1>4, GoesFrame
<1>6. cmd(u)' = cmd(u)
  BY <1>5, GoesOnPlace
<1>7. PlaceInv(u)'
  BY <1>5, <1>6 DEF PlaceInv
<1>8. \A v \in User : \A field \in OwnField \ {"late"} : own'[v][field] = own[v][field]
  BY <1>1, TypeFacts DEF OwnField
<1> QED
  BY <1>1, <1>5, <1>6, <1>7, <1>8 DEF StepFrame

LEMMA FailsFrame ==
    ASSUME TypeInv, NEW u \in User, PlaceInv(u), Fails(u)
    PROVE  /\ StepFrame(u) /\ pc[u] # "idle" /\ pc'[u] = "idle" /\ own' = own
           /\ outcome'[u] = [cmd |-> cmd(u), code |-> "error", own |-> own[u], content |-> Missing]
<1>1. EndWith(u, "error", Missing) /\ pc[u] # "idle" /\ own' = own
  BY DEF Fails, End
<1>2. WorldTyped
  <2>1. file' = file /\ edits' = edits /\ nextKey' = nextKey /\ disturbed' = (disturbed \/ pc[u] = "save public")
    BY DEF Fails
  <2> QED
    BY <2>1, TypeFacts DEF WorldTyped
<1>3. pc[u] # "idle"
  BY <1>1
<1>4. /\ StepFrame(u) /\ pc'[u] = "idle"
      /\ outcome'[u] = [cmd |-> cmd(u), code |-> "error", own |-> own[u], content |-> Missing]
  BY <1>1, <1>2, <1>3, EndStepFrame, ZenonT(30)
<1> QED
  BY <1>1, <1>4

LEMMA SavePublicFrame ==
    ASSUME TypeInv, NEW u \in User, PlaceInv(u), SavePublic(u)
    PROVE  /\ StepFrame(u) /\ pc[u] = "save public" /\ pc'[u] = "idle" /\ own' = own
           /\ outcome'[u] = [cmd |-> cmd(u), code |-> "ok", own |-> own[u], content |-> Missing]
<1>1. EndWith(u, "ok", Missing) /\ pc[u] = "save public" /\ own' = own
  BY DEF SavePublic, End
<1>2. WorldTyped
  <2>1. DOMAIN file' = FileName
    BY TypeFacts DEF SavePublic, Write
  <2>2. edits' = edits /\ nextKey' = nextKey /\ disturbed' = (disturbed \/ Meets(u))
    BY DEF SavePublic
  <2> QED
    BY <2>1, <2>2, TypeFacts, MeetsFacts DEF WorldTyped
<1>3. pc[u] # "idle"
  BY <1>1
<1>4. /\ StepFrame(u) /\ pc'[u] = "idle"
      /\ outcome'[u] = [cmd |-> cmd(u), code |-> "ok", own |-> own[u], content |-> Missing]
  BY <1>1, <1>2, <1>3, EndStepFrame, ZenonT(30)
<1> QED
  BY <1>1, <1>4

LEMMA WriteSignatureFrame ==
    ASSUME TypeInv, NEW u \in User, PlaceInv(u), WriteSignature(u)
    PROVE  /\ StepFrame(u) /\ pc[u] = "write signature" /\ pc'[u] = "idle" /\ own' = own
           /\ outcome'[u] = [cmd |-> cmd(u), code |-> "ok", own |-> own[u], content |-> Missing]
<1>1. EndWith(u, "ok", Missing) /\ pc[u] = "write signature" /\ own' = own
  BY DEF WriteSignature, End
<1>2. WorldTyped
  BY WorldFacts DEF WriteSignature
<1>3. pc[u] # "idle"
  BY <1>1
<1>4. /\ StepFrame(u) /\ pc'[u] = "idle"
      /\ outcome'[u] = [cmd |-> cmd(u), code |-> "ok", own |-> own[u], content |-> Missing]
  BY <1>1, <1>2, <1>3, EndStepFrame, ZenonT(30)
<1> QED
  BY <1>1, <1>4

LEMMA WriteAttestationFrame ==
    ASSUME TypeInv, NEW u \in User, PlaceInv(u), WriteAttestation(u)
    PROVE  /\ StepFrame(u) /\ pc[u] = "envelope" /\ pc'[u] = "idle" /\ own' = own
           /\ outcome'[u] = [cmd |-> cmd(u), code |-> "ok", own |-> own[u], content |-> Missing]
<1>1. EndWith(u, "ok", Missing) /\ pc[u] = "envelope" /\ own' = own
  BY DEF WriteAttestation, End
<1>2. WorldTyped
  BY WorldFacts DEF WriteAttestation
<1>3. pc[u] # "idle"
  BY <1>1
<1>4. /\ StepFrame(u) /\ pc'[u] = "idle"
      /\ outcome'[u] = [cmd |-> cmd(u), code |-> "ok", own |-> own[u], content |-> Missing]
  BY <1>1, <1>2, <1>3, EndStepFrame, ZenonT(30)
<1> QED
  BY <1>1, <1>4

LEMMA WriteStatementFrame ==
    ASSUME TypeInv, NEW u \in User, PlaceInv(u), WriteStatement(u)
    PROVE  /\ StepFrame(u) /\ pc[u] = "statement" /\ pc'[u] = "idle" /\ own' = own
           /\ outcome'[u] = [cmd |-> cmd(u), code |-> "ok", own |-> own[u], content |-> Missing]
<1>1. EndWith(u, "ok", Missing) /\ pc[u] = "statement" /\ own' = own
  BY DEF WriteStatement, End
<1>2. WorldTyped
  BY WorldFacts DEF WriteStatement
<1>3. pc[u] # "idle"
  BY <1>1
<1>4. /\ StepFrame(u) /\ pc'[u] = "idle"
      /\ outcome'[u] = [cmd |-> cmd(u), code |-> "ok", own |-> own[u], content |-> Missing]
  BY <1>1, <1>2, <1>3, EndStepFrame, ZenonT(30)
<1> QED
  BY <1>1, <1>4

LEMMA LoadPublicFrame ==
    ASSUME TypeInv, NEW u \in User, PlaceInv(u), LoadPublic(u)
    PROVE  /\ StepFrame(u) /\ outcome' = outcome
           /\ pc[u] = "load public" /\ pc'[u] \in {"sign", "envelope"}
           /\ cmd(u)' = cmd(u)
<1> DEFINE to == IF cmd(u).name = "sign" THEN "sign" ELSE "envelope"
<1>1. Goto(u, to) /\ Goes /\ pc[u] = "load public"
  BY DEF LoadPublic
<1>2. OwnKept(u)
  BY TypeFacts DEF LoadPublic, OwnKept, OwnField
<1>3. WorldTyped
  BY WorldFacts, MeetsFacts DEF LoadPublic
<1>4. to \in {"sign", "envelope"} /\ to \in Place
  BY DEF Place
<1>5. (to = "sign" => cmd(u).name = "sign") /\ (to = "envelope" => cmd(u).name = "attest")
  BY <1>1 DEF PlaceInv
<1> HIDE DEF to
<1>6. TypeInv' /\ OtherSame(u) /\ pc'[u] = to /\ script'[u] = script[u] /\ outcome' = outcome
  BY <1>1, <1>2, <1>3, <1>4, GoesFrame
<1>7. cmd(u)' = cmd(u)
  BY <1>6, GoesOnPlace
<1>8. PlaceInv(u)'
  BY <1>1, <1>4, <1>5, <1>6, <1>7 DEF PlaceInv
<1> QED
  BY <1>1, <1>4, <1>6, <1>7, <1>8 DEF StepFrame

LEMMA AddSubjectFrame ==
    ASSUME TypeInv, NEW u \in User, PlaceInv(u), AddSubject(u)
    PROVE  /\ StepFrame(u) /\ outcome' = outcome
           /\ pc'[u] \in {"subjects", "load private", "statement"}
           /\ cmd(u)' = cmd(u)
<1> DEFINE to == IF Len(own[u].subjects) + 1 < Len(cmd(u).files) THEN "subjects"
                 ELSE IF cmd(u).key THEN "load private" ELSE "statement"
<1>1. Goto(u, to) /\ Goes /\ pc[u] = "subjects"
  BY DEF AddSubject
<1>2. OwnKept(u)
  BY TypeFacts DEF AddSubject, OwnKept, OwnField
<1>3. WorldTyped
  BY WorldFacts DEF AddSubject
<1>4. to \in {"subjects", "load private", "statement"}
  OBVIOUS
<1> HIDE DEF to
<1>5. to \in Place
  BY <1>4 DEF Place
<1>6. TypeInv' /\ OtherSame(u) /\ pc'[u] = to /\ script'[u] = script[u] /\ outcome' = outcome
  BY <1>1, <1>2, <1>3, <1>5, GoesFrame
<1>7. cmd(u)' = cmd(u)
  BY <1>6, GoesOnPlace
<1>8. PlaceInv(u)'
  BY <1>1, <1>4, <1>6, <1>7 DEF PlaceInv
<1> QED
  BY <1>4, <1>6, <1>7, <1>8 DEF StepFrame

LEMMA VerifyFileFrame ==
    ASSUME TypeInv, NEW u \in User, PlaceInv(u), VerifyFile(u)
    PROVE  /\ StepFrame(u) /\ pc[u] = "verify" /\ pc'[u] = "idle" /\ own' = own
           /\ outcome'[u] = [cmd |-> cmd(u),
                 code |-> IF InTime(u) /\ Verify(NoneTrusted, file[cmd(u).file], own[u].signature)
                          THEN "passed" ELSE "refused",
                 own |-> own[u], content |-> file[cmd(u).file]]
<1> DEFINE content == file[cmd(u).file]
           code == IF InTime(u) /\ Verify(NoneTrusted, file[cmd(u).file], own[u].signature)
                   THEN "passed" ELSE "refused"
<1>1. EndWith(u, code, content) /\ pc[u] = "verify" /\ own' = own
  BY DEF VerifyFile
<1>2. WorldTyped
  BY WorldFacts DEF VerifyFile
<1> HIDE DEF code, content
<1>3. /\ StepFrame(u) /\ pc'[u] = "idle"
      /\ outcome'[u] = [cmd |-> cmd(u), code |-> code, own |-> own[u], content |-> content]
  BY <1>1, <1>2, EndStepFrame
<1> QED
  BY <1>1, <1>3 DEF code, content

LEMMA VerifyAttestationFrame ==
    ASSUME TypeInv, NEW u \in User, PlaceInv(u), VerifyAttestation(u)
    PROVE  /\ StepFrame(u) /\ pc[u] = "verify envelope" /\ pc'[u] = "idle" /\ own' = own
           /\ outcome'[u] = [cmd |-> cmd(u),
                 code |-> IF InTime(u) /\ own[u].envelope.kind = "envelope" /\ VerifyEnvelope(own[u].envelope)
              THEN "passed" ELSE "refused",
                 own |-> own[u], content |-> own[u].envelope]
<1> DEFINE content == own[u].envelope
           code == IF InTime(u) /\ own[u].envelope.kind = "envelope" /\ VerifyEnvelope(own[u].envelope)
              THEN "passed" ELSE "refused"
<1>1. EndWith(u, code, content) /\ pc[u] = "verify envelope" /\ own' = own
  BY DEF VerifyAttestation
<1>2. WorldTyped
  BY WorldFacts DEF VerifyAttestation
<1> HIDE DEF code, content
<1>4. pc[u] # "idle"
  BY <1>1
<1>3. /\ StepFrame(u) /\ pc'[u] = "idle"
      /\ outcome'[u] = [cmd |-> cmd(u), code |-> code, own |-> own[u], content |-> content]
  BY <1>1, <1>2, <1>4, EndStepFrame, ZenonT(30)
<1> QED
  BY <1>1, <1>3 DEF code, content

LEMMA InspectAttestationFrame ==
    ASSUME TypeInv, NEW u \in User, PlaceInv(u), InspectAttestation(u)
    PROVE  /\ StepFrame(u) /\ pc[u] = "read" /\ cmd(u).name = "inspect" /\ pc'[u] = "idle" /\ own' = own
           /\ outcome'[u] = [cmd |-> cmd(u),
                 code |-> IF file["attestation"].kind = "envelope" THEN "ok" ELSE "error",
                 own |-> own[u], content |-> file["attestation"]]
<1> DEFINE content == file["attestation"]
           code == IF file["attestation"].kind = "envelope" THEN "ok" ELSE "error"
<1>1. EndWith(u, code, content) /\ pc[u] = "read" /\ cmd(u).name = "inspect" /\ own' = own
  BY DEF InspectAttestation
<1>2. WorldTyped
  BY WorldFacts DEF InspectAttestation
<1> HIDE DEF code, content
<1>3. /\ StepFrame(u) /\ pc'[u] = "idle"
      /\ outcome'[u] = [cmd |-> cmd(u), code |-> code, own |-> own[u], content |-> content]
  BY <1>1, <1>2, EndStepFrame
<1> QED
  BY <1>1, <1>3 DEF code, content

LEMMA WriteSbomFrame ==
    ASSUME TypeInv, NEW u \in User, PlaceInv(u), WriteSbom(u)
    PROVE  /\ StepFrame(u) /\ pc[u] = "manifests" /\ own[u].manifest > Len(Manifest) /\ pc'[u] = "idle" /\ own' = own
           /\ outcome'[u] = [cmd |-> cmd(u),
                 code |-> "ok",
                 own |-> own[u], content |-> Marshal(cmd(u).format, own[u].components)]
<1> DEFINE content == Marshal(cmd(u).format, own[u].components)
           code == "ok"
<1>1. EndWith(u, code, content) /\ pc[u] = "manifests" /\ own[u].manifest > Len(Manifest) /\ own' = own
  BY DEF WriteSbom
<1>2. WorldTyped
  BY WorldFacts DEF WriteSbom
<1> HIDE DEF code, content
<1>3. /\ StepFrame(u) /\ pc'[u] = "idle"
      /\ outcome'[u] = [cmd |-> cmd(u), code |-> code, own |-> own[u], content |-> content]
  BY <1>1, <1>2, EndStepFrame
<1> QED
  BY <1>1, <1>3 DEF code, content

LEMMA ScanManifestFrame ==
    ASSUME TypeInv, NEW u \in User, PlaceInv(u), ScanManifest(u)
    PROVE  /\ StepFrame(u) /\ outcome' = outcome
           /\ pc[u] = "manifests" /\ pc'[u] = "manifests"
           /\ cmd(u)' = cmd(u)
<1>1. pc' = pc /\ Goes /\ pc[u] = "manifests"
  BY DEF ScanManifest
<1>2. Goto(u, "manifests")
  BY <1>1, TypeFacts DEF Goto
<1>3. OwnKept(u)
  <2>1. PICK components : own' = [own EXCEPT ![u].manifest = @ + 1, ![u].components = components]
    BY DEF ScanManifest
  <2> QED
    BY <2>1, TypeFacts DEF OwnKept, OwnField
<1>4. WorldTyped
  BY WorldFacts DEF ScanManifest
<1>5. TypeInv' /\ OtherSame(u) /\ pc'[u] = "manifests" /\ script'[u] = script[u] /\ outcome' = outcome
  <2>1. "manifests" \in Place
    BY DEF Place
  <2> QED
    BY <2>1, <1>1, <1>2, <1>3, <1>4, GoesFrame
<1>6. cmd(u)' = cmd(u)
  BY <1>5, GoesOnPlace
<1>7. PlaceInv(u)'
  BY <1>1, <1>5, <1>6 DEF PlaceInv
<1> QED
  BY <1>1, <1>5, <1>6, <1>7 DEF StepFrame

\* What everybody else knows and does stays as it is.
LEMMA OtherFacts ==
    ASSUME NEW u \in User, OtherSame(u), NEW v \in User \ {u}
    PROVE  /\ pc'[v] = pc[v] /\ own'[v] = own[v] /\ cmd(v)' = cmd(v)
           /\ PlaceInv(v) => PlaceInv(v)'
           /\ SignerInv(v) => SignerInv(v)'
<1>1. pc'[v] = pc[v] /\ own'[v] = own[v] /\ script'[v] = script[v]
  BY DEF OtherSame
<1>2. cmd(v)' = cmd(v)
  BY <1>1 DEF cmd
<1>3. PlaceInv(v) => PlaceInv(v)'
  BY <1>1, <1>2 DEF PlaceInv
<1>4. SignerInv(v) => SignerInv(v)'
  BY <1>1 DEF SignerInv
<1> QED
  BY <1>1, <1>2, <1>3, <1>4

LEMMA StepKeepsPlaces ==
    ASSUME TypeInv, \A v \in User : PlaceInv(v), NEW u \in User, Step(u)
    PROVE  StepFrame(u) /\ \A v \in User : PlaceInv(v)'
<1>1. PlaceInv(u)
  OBVIOUS
<1>2. StepFrame(u)
  BY <1>1, StartFrame, TimeIsUpFrame, FailsFrame, SavePrivateFrame, SavePublicFrame, LoadPrivateFrame,
     LoadPublicFrame, NewSignerFrame, SignFileFrame, WriteSignatureFrame, ReadSignatureFrame,
     VerifyFileFrame, AddSubjectFrame, WriteAttestationFrame, WriteStatementFrame,
     ReadAttestationFrame, VerifyAttestationFrame, InspectAttestationFrame, ScanManifestFrame,
     WriteSbomFrame, ZenonT(60) DEF Step
<1>3. \A v \in User \ {u} : PlaceInv(v)'
  BY <1>2, OtherFacts DEF StepFrame
<1> QED
  BY <1>2, <1>3 DEF StepFrame

-----------------------------------------------------------------------------
(* As long as nobody has met two key files of different pairs.             *)

\* Steps that neither write a key file nor go where one is written or read.
LEMMA KeysAlone ==
    ASSUME TypeInv, NEW u \in User, OtherSame(u), PairInv,
           file'["key"] = file["key"], file'["key.pub"] = file["key.pub"],
           pc[u] # "save public", pc'[u] \notin {"save public", "load public"}
    PROVE  PairInv'
<1>1. \A v \in User : /\ pc'[v] = "save public" => pc[v] = "save public" /\ own'[v] = own[v] /\ v # u
                      /\ pc'[v] = "load public" => pc[v] = "load public" /\ own'[v] = own[v]
                      /\ pc[v] = "save public" => pc'[v] = "save public"
  BY DEF OtherSame
<1>2. /\ file'["key"].key \in Key
      /\ file'["key.pub"].kind = "public key" /\ file'["key.pub"].key \in Key
  BY DEF PairInv
<1>3. (\A v \in User : pc'[v] # "save public") => file'["key.pub"].key = file'["key"].key
  BY <1>1 DEF PairInv
<1>4. ASSUME NEW w \in User, pc'[w] = "save public"
      PROVE  /\ own'[w].private = file'["key"].key /\ own'[w].public = file'["key"].key
             /\ \A v \in User \ {w} : pc'[v] \notin {"save public", "load public"}
  <2>1. pc[w] = "save public" /\ own'[w] = own[w]
    BY <1>1, <1>4
  <2>2. /\ own[w].private = file["key"].key /\ own[w].public = file["key"].key
        /\ \A v \in User \ {w} : pc[v] \notin {"save public", "load public"}
    BY <2>1 DEF PairInv
  <2> QED
    BY <1>1, <2>1, <2>2
<1>5. ASSUME NEW w \in User, pc'[w] = "load public" PROVE own'[w].private = file'["key"].key
  BY <1>1, <1>5 DEF PairInv
<1> QED
  BY <1>2, <1>3, <1>4, <1>5 DEF PairInv

LEMMA WriteFacts ==
    ASSUME TypeInv, NEW name \in FileName, NEW content, Write(name, content)
    PROVE  file'[name] = content /\ \A n \in FileName : n # name => file'[n] = file[n]
BY TypeFacts DEF Write

LEMMA CommandFacts ==
    ASSUME TypeInv, NEW u \in User, script[u] # <<>>
    PROVE  /\ cmd(u).name \in {"sign", "verify"} => cmd(u).file \in Signed
           /\ cmd(u).name = "sbom" => cmd(u).format \in {"spdx", "cyclonedx"}
<1>1. script[u] \in Seq(Command)
  BY TypeFacts
<1>2. cmd(u) \in Command
  BY <1>1 DEF cmd
<1> QED
  BY <1>2 DEF Command

LEMMA SignatureFacts ==
    /\ \A name \in Signed : SignatureOf(name) \in FileName
          /\ SignatureOf(name) \notin {"key", "key.pub", "attestation", "sbom", "artifact"}
          /\ SignatureOf(name) \notin {Manifest[i] : i \in DOMAIN Manifest}
    /\ {"key", "key.pub", "attestation", "sbom", "artifact"} \subseteq FileName
    /\ {Manifest[i] : i \in DOMAIN Manifest} \subseteq FileName
    /\ {Manifest[i] : i \in DOMAIN Manifest} \cap {"key", "key.pub", "attestation", "sbom", "artifact"} = {}
BY SignatureNames DEF Signed

\* Which files a step writes.
LEMMA FilesWritten ==
    ASSUME TypeInv, \A v \in User : PlaceInv(v), NEW u \in User, Step(u)
    PROVE  /\ SavePrivate(u) \/ file'["key"] = file["key"]
           /\ SavePublic(u) \/ file'["key.pub"] = file["key.pub"]
           /\ WriteSignature(u) \/ \A name \in Signed : file'[SignatureOf(name)] = file[SignatureOf(name)]
           /\ WriteAttestation(u) \/ WriteStatement(u) \/ file'["attestation"] = file["attestation"]
           /\ \A i \in DOMAIN Manifest : file'[Manifest[i]] = file[Manifest[i]]
<1> DEFINE Same == \A n \in FileName : file'[n] = file[n]
           OnlyIn(name) == \A n \in FileName : n # name => file'[n] = file[n]
<1>1. CASE Same
  BY <1>1, SignatureFacts
<1>2. CASE SavePrivate(u)
  <2>1. OnlyIn("key")
    BY <1>2, WriteFacts, SignatureFacts DEF SavePrivate
  <2> QED
    BY <2>1, <1>2, SignatureFacts
<1>3. CASE SavePublic(u)
  <2>1. OnlyIn("key.pub")
    BY <1>3, WriteFacts, SignatureFacts DEF SavePublic
  <2> QED
    BY <2>1, <1>3, SignatureFacts
<1>4. CASE WriteSignature(u)
  <2>1. cmd(u).file \in Signed
    BY <1>4, CommandFacts DEF WriteSignature, PlaceInv
  <2>2. OnlyIn(SignatureOf(cmd(u).file))
    BY <2>1, <1>4, WriteFacts, SignatureFacts DEF WriteSignature
  <2> QED
    BY <2>1, <2>2, <1>4, SignatureFacts
<1>5. CASE WriteAttestation(u) \/ WriteStatement(u)
  <2>1. OnlyIn("attestation")
    BY <1>5, WriteFacts, SignatureFacts DEF WriteAttestation, WriteStatement
  <2> QED
    BY <2>1, <1>5, SignatureFacts
<1>6. CASE WriteSbom(u)
  <2>1. OnlyIn("sbom")
    BY <1>6, WriteFacts, SignatureFacts DEF WriteSbom
  <2> QED
    BY <2>1, SignatureFacts
<1>7. Same \/ SavePrivate(u) \/ SavePublic(u) \/ WriteSignature(u) \/ WriteAttestation(u)
        \/ WriteStatement(u) \/ WriteSbom(u)
  <2>1. CASE Start(u) \/ Fails(u) \/ LoadPrivate(u) \/ LoadPublic(u) \/ NewSigner(u) \/ SignFile(u)
               \/ ReadSignature(u) \/ VerifyFile(u) \/ AddSubject(u)
    <3>1. file' = file
      BY <2>1 DEF Start, Fails, LoadPrivate, LoadPublic, NewSigner, SignFile, ReadSignature, VerifyFile,
                  AddSubject
    <3> QED
      BY <3>1
  <2>2. CASE TimeIsUp(u) \/ ReadAttestation(u) \/ VerifyAttestation(u) \/ InspectAttestation(u)
               \/ ScanManifest(u)
    <3>1. file' = file
      BY <2>2 DEF TimeIsUp, ReadAttestation, VerifyAttestation, InspectAttestation, ScanManifest
    <3> QED
      BY <3>1
  <2> QED
    BY <2>1, <2>2 DEF Step
<1> QED
  BY <1>1, <1>2, <1>3, <1>4, <1>5, <1>6, <1>7

LEMMA StaysUndisturbed ==
    ASSUME TypeInv, NEW u \in User, Step(u), ~disturbed'
    PROVE  /\ ~disturbed
           /\ SavePrivate(u) \/ SavePublic(u) \/ LoadPrivate(u) \/ LoadPublic(u) => ~Meets(u)
           /\ Fails(u) => pc[u] # "save public"
<1>1. CASE SavePrivate(u) \/ SavePublic(u) \/ LoadPrivate(u) \/ LoadPublic(u)
  <2>1. disturbed' = (disturbed \/ Meets(u))
    BY <1>1 DEF SavePrivate, SavePublic, LoadPrivate, LoadPublic
  <2>2. pc[u] # "save public" \/ ~Fails(u)
    BY <1>1, <2>1 DEF Fails
  <2> QED
    BY <2>1, <2>2
<1>2. CASE Fails(u)
  <2>1. disturbed' = (disturbed \/ pc[u] = "save public")
    BY <1>2 DEF Fails
  <2>2. ~disturbed /\ pc[u] # "save public"
    BY <2>1
  <2>3. CASE SavePrivate(u) \/ SavePublic(u) \/ LoadPrivate(u) \/ LoadPublic(u)
    BY <1>1, <2>3
  <2> QED
    BY <2>2, <2>3
<1>3. CASE ~(SavePrivate(u) \/ SavePublic(u) \/ LoadPrivate(u) \/ LoadPublic(u)) /\ ~Fails(u)
  <2>1. CASE Start(u) \/ NewSigner(u) \/ SignFile(u) \/ WriteSignature(u) \/ ReadSignature(u)
               \/ VerifyFile(u) \/ AddSubject(u) \/ WriteAttestation(u) \/ WriteStatement(u)
    <3>1. disturbed' = disturbed
      BY <2>1 DEF Start, NewSigner, SignFile, WriteSignature, ReadSignature, VerifyFile, AddSubject,
                  WriteAttestation, WriteStatement
    <3> QED
      BY <3>1, <1>3
  <2>2. CASE TimeIsUp(u) \/ ReadAttestation(u) \/ VerifyAttestation(u) \/ InspectAttestation(u)
               \/ ScanManifest(u) \/ WriteSbom(u)
    <3>1. disturbed' = disturbed
      BY <2>2 DEF TimeIsUp, ReadAttestation, VerifyAttestation, InspectAttestation, ScanManifest, WriteSbom
    <3> QED
      BY <3>1, <1>3
  <2> QED
    BY <1>3, <2>1, <2>2 DEF Step
<1> QED
  BY <1>1, <1>2, <1>3

LEMMA SavePrivateKeepsPair ==
    ASSUME TypeInv, \A v \in User : PlaceInv(v), NEW u \in User, SavePrivate(u), ~Meets(u), PairInv
    PROVE  PairInv'
<1>1. /\ OtherSame(u) /\ pc[u] = "save private" /\ pc'[u] = "save public"
  BY SavePrivateFrame DEF StepFrame
<1>2. own'[u].private = nextKey /\ own'[u].public = nextKey
  <2>1. own' = [own EXCEPT ![u].private = nextKey, ![u].public = nextKey]
    BY DEF SavePrivate, GenerateKeyPair, KeyPair
  <2> QED
    BY <2>1, TypeFacts DEF OwnField
<1>3. file'["key"] = PrivateKey(nextKey) /\ file'["key.pub"] = file["key.pub"]
  BY WriteFacts, SignatureFacts DEF SavePrivate
<1>4. file'["key"].key = nextKey /\ nextKey \in Key
  <2>1. PrivateKey(nextKey).key = nextKey
    BY DEF PrivateKey
  <2>2. nextKey \in Key
    BY TypeFacts DEF Key, NoKey
  <2> QED
    BY <1>3, <2>1, <2>2
<1>5. \A v \in User \ {u} : pc'[v] \notin {"save public", "load public"}
  <2>1. cmd(u).name = "genkey"
    BY <1>1 DEF PlaceInv
  <2>2. \A v \in User \ {u} : pc[v] \notin {"save public", "load public"}
    BY <2>1 DEF Meets
  <2> QED
    BY <2>2, <1>1 DEF OtherSame
<1>6. file'["key.pub"].kind = "public key" /\ file'["key.pub"].key \in Key
  BY <1>3 DEF PairInv
<1>7. /\ (\A v \in User : pc'[v] # "save public") => file'["key.pub"].key = file'["key"].key
      /\ \A v \in User : pc'[v] = "load public" => own'[v].private = file'["key"].key
  BY <1>1, <1>5
<1>8. \A w \in User : pc'[w] = "save public" => w = u
  BY <1>5
<1> QED
  BY <1>2, <1>4, <1>5, <1>6, <1>7, <1>8 DEF PairInv

LEMMA SavePublicKeepsPair ==
    ASSUME TypeInv, \A v \in User : PlaceInv(v), NEW u \in User, SavePublic(u), PairInv
    PROVE  PairInv'
<1>1. OtherSame(u) /\ pc[u] = "save public" /\ pc'[u] = "idle"
  BY SavePublicFrame DEF StepFrame
<1>2. file'["key.pub"] = PublicKey(own[u].public) /\ file'["key"] = file["key"]
  BY WriteFacts, SignatureFacts DEF SavePublic
<1>3. /\ own[u].public = file["key"].key
      /\ \A v \in User \ {u} : pc[v] \notin {"save public", "load public"}
  BY <1>1 DEF PairInv
<1>4. file["key"].key \in Key
  BY DEF PairInv
<1>5. file'["key.pub"].kind = "public key" /\ file'["key.pub"].key = file'["key"].key
  <2>1. PublicKey(own[u].public).kind = "public key"
    BY DEF PublicKey
  <2>2. PublicKey(own[u].public).key = own[u].public
    BY DEF PublicKey
  <2> QED
    BY <2>1, <2>2, <1>2, <1>3
<1>6. \A v \in User : pc'[v] \notin {"save public", "load public"}
  BY <1>1, <1>3 DEF OtherSame
<1> QED
  BY <1>2, <1>4, <1>5, <1>6 DEF PairInv

LEMMA LoadPrivateKeepsPair ==
    ASSUME TypeInv, \A v \in User : PlaceInv(v), NEW u \in User, LoadPrivate(u), ~Meets(u), PairInv
    PROVE  PairInv'
<1>1. OtherSame(u) /\ pc[u] = "load private" /\ pc'[u] = "load public"
  BY LoadPrivateFrame DEF StepFrame
<1>2. own'[u].private = file["key"].key
  <2>1. own' = [own EXCEPT ![u].private = file["key"].key]
    BY DEF LoadPrivate
  <2> QED
    BY <2>1, TypeFacts DEF OwnField
<1>3. file' = file
  BY DEF LoadPrivate
<1>4. \A v \in User : pc[v] # "save public"
  BY <1>1 DEF Meets, PlaceInv
<1>5. \A v \in User : pc'[v] # "save public"
  BY <1>1, <1>4 DEF OtherSame
<1>6. \A v \in User : pc'[v] = "load public" => own'[v].private = file["key"].key
  <2> SUFFICES ASSUME NEW v \in User, pc'[v] = "load public" PROVE own'[v].private = file["key"].key
    OBVIOUS
  <2>1. CASE v = u
    BY <2>1, <1>2
  <2>2. CASE v # u
    BY <2>2, <1>1 DEF OtherSame, PairInv
  <2> QED
    BY <2>1, <2>2
<1> QED
  BY <1>3, <1>4, <1>5, <1>6 DEF PairInv

LEMMA TimeIsUpKeepsPair ==
    ASSUME TypeInv, NEW u \in User, PlaceInv(u), TimeIsUp(u), PairInv
    PROVE  PairInv'
<1>1. pc' = pc /\ file' = file
  BY TimeIsUpFrame
<1>2. \A v \in User : own'[v].private = own[v].private /\ own'[v].public = own[v].public
  BY TimeIsUpFrame DEF OwnField
<1> QED
  BY <1>1, <1>2 DEF PairInv

LEMMA StepKeepsPair ==
    ASSUME TypeInv, \A v \in User : PlaceInv(v), NEW u \in User, Step(u), ~disturbed', PairInv
    PROVE  PairInv'
<1>1. CASE SavePrivate(u)
  BY <1>1, StaysUndisturbed, SavePrivateKeepsPair
<1>2. CASE SavePublic(u)
  BY <1>2, SavePublicKeepsPair
<1>3. CASE LoadPrivate(u)
  BY <1>3, StaysUndisturbed, LoadPrivateKeepsPair
<1>5. CASE TimeIsUp(u)
  BY <1>5, TimeIsUpKeepsPair
<1>4. CASE ~SavePrivate(u) /\ ~SavePublic(u) /\ ~LoadPrivate(u) /\ ~TimeIsUp(u)
  <2>1. OtherSame(u)
    BY StepKeepsPlaces DEF StepFrame
  <2>2. file'["key"] = file["key"] /\ file'["key.pub"] = file["key.pub"]
    BY <1>4, FilesWritten
  <2>3. pc[u] # "save public" /\ pc'[u] \notin {"save public", "load public"}
    <3>0. PlaceInv(u)
      OBVIOUS
    <3>1. CASE Start(u)
      <4>1. pc[u] = "idle"
        BY <3>1 DEF Start
      <4> QED
        BY <3>1, <4>1, StartFrame
    <3>2. CASE Fails(u)
      BY <3>0, <3>2, FailsFrame, StaysUndisturbed
    <3>3. CASE LoadPublic(u) \/ NewSigner(u) \/ SignFile(u) \/ ReadSignature(u) \/ ReadAttestation(u)
                 \/ ScanManifest(u)
      BY <3>0, <3>3, LoadPublicFrame, NewSignerFrame, SignFileFrame, ReadSignatureFrame,
         ReadAttestationFrame, ScanManifestFrame, ZenonT(30) DEF ReadSignature, ReadAttestation
    <3>4. CASE AddSubject(u)
      <4>1. pc[u] = "subjects"
        BY <3>4 DEF AddSubject
      <4> QED
        BY <4>1, <3>0, <3>4, AddSubjectFrame
    <3>5. CASE WriteSignature(u) \/ WriteAttestation(u) \/ WriteStatement(u) \/ VerifyFile(u)
      BY <3>0, <3>5, WriteSignatureFrame, WriteAttestationFrame, WriteStatementFrame, VerifyFileFrame
    <3>6. CASE VerifyAttestation(u) \/ InspectAttestation(u) \/ WriteSbom(u)
      BY <3>0, <3>6, VerifyAttestationFrame, InspectAttestationFrame, WriteSbomFrame
    <3> QED
      BY <1>4, <3>1, <3>2, <3>3, <3>4, <3>5, <3>6 DEF Step
  <2> QED
    BY <2>1, <2>2, <2>3, KeysAlone
<1> QED
  BY <1>1, <1>2, <1>3, <1>4, <1>5

LEMMA StepKeepsSigner ==
    ASSUME TypeInv, \A v \in User : PlaceInv(v), NEW u \in User, Step(u),
           PairInv, SignedInv, \A v \in User : SignerInv(v)
    PROVE  \A v \in User : SignerInv(v)'
<1>0. PlaceInv(u)
  OBVIOUS
<1>1. OtherSame(u)
  BY StepKeepsPlaces DEF StepFrame
<1>2. \A v \in User \ {u} : SignerInv(v)'
  BY <1>1, OtherFacts
<1>3. ASSUME LoadPublic(u) PROVE SignerInv(u)'
  <2>1. pc[u] = "load public" /\ pc'[u] \in {"sign", "envelope"}
    BY <1>0, <1>3, LoadPublicFrame
  <2>2. /\ file["key.pub"].kind = "public key" /\ file["key.pub"].key \in Key
        /\ own[u].private = file["key"].key
    BY <2>1 DEF PairInv
  <2>3. \A v \in User : pc[v] # "save public"
    BY <2>1 DEF PairInv
  <2>4. file["key.pub"].key = file["key"].key
    BY <2>3 DEF PairInv
  <2>5. own' = [own EXCEPT ![u].public = file["key.pub"].key]
    BY <1>3, <2>2 DEF LoadPublic
  <2>6. own'[u].public = file["key.pub"].key /\ own'[u].private = own[u].private
    BY <2>5, TypeFacts DEF OwnField
  <2> QED
    BY <2>1, <2>2, <2>4, <2>6 DEF SignerInv, Genuine, Key
<1>4. ASSUME NewSigner(u) PROVE SignerInv(u)'
  <2>1. pc'[u] = "sign"
    BY <1>0, <1>4, NewSignerFrame
  <2>2. own' = [own EXCEPT ![u].private = nextKey, ![u].public = nextKey]
    BY <1>4 DEF NewSigner, GenerateKeyPair, KeyPair
  <2>3. own'[u].public = nextKey /\ own'[u].private = nextKey
    BY <2>2, TypeFacts DEF OwnField
  <2> QED
    <3>1. nextKey # NoKey
      BY TypeFacts DEF NoKey
    <3> QED
      BY <2>1, <2>3, <3>1 DEF SignerInv
<1>5. ASSUME SignFile(u) PROVE SignerInv(u)'
  <2>1. pc[u] = "sign" /\ pc'[u] = "write signature"
    BY <1>0, <1>5, SignFileFrame
  <2>2. own[u].private = own[u].public /\ own[u].public # NoKey
    BY <2>1 DEF SignerInv, Genuine
  <2> DEFINE signature == Sign(KeyPair(own[u].private, own[u].public), file[cmd(u).file])
  <2>3. Genuine(signature)
    BY <2>2 DEF Sign, KeyPair, Genuine
  <2>4. own' = [own EXCEPT ![u].signature = signature]
    BY <1>5 DEF SignFile
  <2> HIDE DEF signature
  <2>5. own'[u].signature = signature
    BY <2>4, TypeFacts DEF OwnField
  <2> QED
    BY <2>1, <2>3, <2>5 DEF SignerInv, Genuine
<1>6. ASSUME ReadSignature(u) PROVE SignerInv(u)'
  <2>1. pc[u] = "read" /\ pc'[u] = "verify" /\ cmd(u).name = "verify"
    BY <1>0, <1>6, ReadSignatureFrame DEF ReadSignature
  <2>2. cmd(u).file \in Signed
    BY <2>1, CommandFacts DEF PlaceInv
  <2> DEFINE signature == file[SignatureOf(cmd(u).file)]
  <2>3. signature # Missing /\ own' = [own EXCEPT ![u].signature = signature]
    BY <1>6 DEF ReadSignature
  <2>4. Genuine(signature)
    BY <2>2, <2>3 DEF SignedInv
  <2> HIDE DEF signature
  <2>5. own'[u].signature = signature
    BY <2>3, TypeFacts DEF OwnField
  <2> QED
    BY <2>1, <2>4, <2>5 DEF SignerInv, Genuine
<1>10. ASSUME ReadAttestation(u) PROVE SignerInv(u)'
  <2>1. pc'[u] = "verify envelope"
    BY <1>0, <1>10, ReadAttestationFrame
  <2>2. own' = [own EXCEPT ![u].envelope = file["attestation"]]
    BY <1>10 DEF ReadAttestation
  <2>3. own'[u].envelope = file["attestation"]
    BY <2>2, TypeFacts DEF OwnField
  <2>4. own'[u].envelope.kind = "envelope" => GenuineEnvelope(own'[u].envelope)
    BY <2>3 DEF SignedInv
  <2> QED
    BY <2>1, <2>4 DEF SignerInv, GenuineEnvelope, Genuine
<1>11. ASSUME TimeIsUp(u) PROVE SignerInv(u)'
  <2>1. pc' = pc
    BY <1>0, <1>11, TimeIsUpFrame
  <2>2. /\ own'[u].private = own[u].private /\ own'[u].public = own[u].public
        /\ own'[u].signature = own[u].signature /\ own'[u].envelope = own[u].envelope
    BY <1>0, <1>11, TimeIsUpFrame DEF OwnField
  <2>3. SignerInv(u)
    OBVIOUS
  <2> QED
    BY <2>1, <2>2, <2>3 DEF SignerInv, GenuineEnvelope, Genuine
<1>7. ASSUME pc'[u] \notin {"sign", "envelope", "write signature", "verify", "verify envelope"}
      PROVE  SignerInv(u)'
  BY <1>7 DEF SignerInv, Genuine
<1>8. LoadPublic(u) \/ NewSigner(u) \/ SignFile(u) \/ ReadSignature(u) \/ ReadAttestation(u) \/ TimeIsUp(u)
        \/ pc'[u] \notin {"sign", "envelope", "write signature", "verify", "verify envelope"}
  <2>1. CASE Start(u)
    BY <2>1, StartFrame
  <2>2. CASE Fails(u) \/ SavePrivate(u) \/ SavePublic(u) \/ LoadPrivate(u) \/ AddSubject(u)
    BY <1>0, <2>2, FailsFrame, SavePrivateFrame, SavePublicFrame, LoadPrivateFrame, AddSubjectFrame
  <2>3. CASE WriteSignature(u) \/ WriteAttestation(u) \/ WriteStatement(u) \/ VerifyFile(u)
    BY <1>0, <2>3, WriteSignatureFrame, WriteAttestationFrame, WriteStatementFrame, VerifyFileFrame
  <2>4. CASE VerifyAttestation(u) \/ InspectAttestation(u) \/ WriteSbom(u) \/ ScanManifest(u)
    BY <1>0, <2>4, VerifyAttestationFrame, InspectAttestationFrame, WriteSbomFrame, ScanManifestFrame
  <2> QED
    BY <2>1, <2>2, <2>3, <2>4 DEF Step
<1>9. SignerInv(u)'
  BY <1>3, <1>4, <1>5, <1>6, <1>7, <1>8, <1>10, <1>11
<1> QED
  BY <1>2, <1>9

LEMMA StepKeepsSigned ==
    ASSUME TypeInv, \A v \in User : PlaceInv(v), NEW u \in User, Step(u), SignedInv, SignerInv(u)
    PROVE  SignedInv'
<1>0. PlaceInv(u)
  OBVIOUS
<1>1. \A name \in Signed : file'[SignatureOf(name)] # Missing => Genuine(file'[SignatureOf(name)])
  <2>1. CASE WriteSignature(u)
    <3>1. pc[u] = "write signature"
      BY <2>1 DEF WriteSignature
    <3>2. cmd(u).file \in Signed
      BY <3>1, CommandFacts DEF PlaceInv
    <3>3. /\ file'[SignatureOf(cmd(u).file)] = own[u].signature
          /\ \A n \in FileName : n # SignatureOf(cmd(u).file) => file'[n] = file[n]
      BY <2>1, <3>2, WriteFacts, SignatureFacts DEF WriteSignature
    <3>4. Genuine(own[u].signature)
      BY <3>1 DEF SignerInv
    <3> SUFFICES ASSUME NEW name \in Signed, file'[SignatureOf(name)] # Missing
                 PROVE  Genuine(file'[SignatureOf(name)])
      OBVIOUS
    <3>5. CASE SignatureOf(name) = SignatureOf(cmd(u).file)
      BY <3>3, <3>4, <3>5
    <3>6. CASE SignatureOf(name) # SignatureOf(cmd(u).file)
      <4>1. file'[SignatureOf(name)] = file[SignatureOf(name)]
        BY <3>3, <3>6, SignatureFacts
      <4> QED
        BY <4>1 DEF SignedInv
    <3> QED
      BY <3>5, <3>6
  <2>2. CASE ~WriteSignature(u)
    <3>1. \A name \in Signed : file'[SignatureOf(name)] = file[SignatureOf(name)]
      BY <2>2, FilesWritten
    <3> QED
      BY <3>1 DEF SignedInv
  <2> QED
    BY <2>1, <2>2
<1>2. file'["attestation"].kind = "envelope" => GenuineEnvelope(file'["attestation"])
  <2>1. CASE WriteAttestation(u)
    <3> DEFINE statement == Statement(own[u].subjects)
               envelope == Envelope(statement, KeyPair(own[u].private, own[u].public))
    <3>1. pc[u] = "envelope"
      BY <2>1 DEF WriteAttestation
    <3>2. own[u].private = own[u].public /\ own[u].public # NoKey
      BY <3>1 DEF SignerInv
    <3>3. GenuineEnvelope(envelope)
      <4> HIDE DEF statement
      <4>1. /\ envelope.signature = Sign(KeyPair(own[u].private, own[u].public), statement)
            /\ envelope.payload = statement
        BY DEF Envelope
      <4> HIDE DEF envelope
      <4>2. /\ envelope.signature.content = statement
            /\ envelope.signature.key = own[u].private /\ envelope.signature.public = own[u].public
        BY <4>1 DEF Sign, KeyPair
      <4> QED
        BY <3>2, <4>1, <4>2 DEF GenuineEnvelope, Genuine
    <3>4. file'["attestation"] = envelope
      BY <2>1, WriteFacts, SignatureFacts DEF WriteAttestation
    <3> QED
      BY <3>3, <3>4
  <2>2. CASE WriteStatement(u)
    <3>1. file'["attestation"] = Statement(own[u].subjects)
      BY <2>2, WriteFacts, SignatureFacts DEF WriteStatement
    <3>2. Statement(own[u].subjects).kind = "statement"
      BY DEF Statement
    <3> QED
      BY <3>1, <3>2
  <2>3. CASE ~WriteAttestation(u) /\ ~WriteStatement(u)
    BY <2>3, FilesWritten DEF SignedInv
  <2> QED
    BY <2>1, <2>2, <2>3
<1> QED
  BY <1>1, <1>2 DEF SignedInv

LEMMA StepKeepsKeys ==
    ASSUME TypeInv, \A v \in User : PlaceInv(v), NEW u \in User, Step(u), KeysInv
    PROVE  KeysInv'
<1> SUFFICES ASSUME ~disturbed' PROVE PairInv' /\ SignedInv' /\ \A v \in User : SignerInv(v)'
  BY DEF KeysInv
<1>1. PairInv /\ SignedInv /\ \A v \in User : SignerInv(v)
  BY StaysUndisturbed DEF KeysInv
<1>2. PairInv'
  BY <1>1, StepKeepsPair
<1>3. SignedInv'
  <2>1. SignerInv(u)
    BY <1>1
  <2> QED
    BY <1>1, <2>1, StepKeepsSigned
<1>4. \A v \in User : SignerInv(v)'
  BY <1>1, StepKeepsSigner
<1> QED
  BY <1>2, <1>3, <1>4

-----------------------------------------------------------------------------
(* Verdicts.                                                               *)

Verdict(o, undisturbed) ==
    (o.code = "refused" /\ undisturbed /\ ~o.own.late) =>
        IF o.cmd.name = "verify" THEN o.content # o.own.signature.content
        ELSE o.content.kind # "envelope"

LEMMA VerdictsAre == RefusalTellsChange <=> \A u \in User : Verdict(outcome[u], ~disturbed)
BY DEF RefusalTellsChange, Verdict

LEMMA StepKeepsVerdict ==
    ASSUME TypeInv, \A v \in User : PlaceInv(v), NEW u \in User, Step(u), KeysInv, RefusalTellsChange
    PROVE  RefusalTellsChange'
<1>0. PlaceInv(u) /\ TypeInv' /\ OtherSame(u)
  BY StepKeepsPlaces DEF StepFrame
<1>1. \A v \in User : Verdict(outcome[v], ~disturbed)
  BY VerdictsAre
<1>2. \A o : Verdict(o, ~disturbed) => Verdict(o, ~disturbed')
  BY StaysUndisturbed DEF Verdict
<1>3. \A v \in User \ {u} : Verdict(outcome'[v], ~disturbed')
  BY <1>0, <1>1, <1>2 DEF OtherSame
<1>4. Verdict(outcome'[u], ~disturbed')
  <2>1. CASE outcome' = outcome
    BY <2>1, <1>1, <1>2
  <2>2. CASE outcome'[u].code \in {"ok", "error"}
    BY <2>2 DEF Verdict
  <2>3. CASE VerifyFile(u)
    <3> DEFINE content == file[cmd(u).file]
               signature == own[u].signature
               passed == InTime(u) /\ Verify(NoneTrusted, content, signature)
    <3>1. /\ outcome'[u] = [cmd |-> cmd(u), code |-> IF passed THEN "passed" ELSE "refused",
                            own |-> own[u], content |-> content]
          /\ pc[u] = "verify"
      BY <1>0, <2>3, VerifyFileFrame
    <3>2. cmd(u).name = "verify"
      BY <1>0, <3>1 DEF PlaceInv
    <3>4. ~passed /\ ~disturbed' /\ ~own[u].late => content # signature.content
      <4> SUFFICES ASSUME ~passed, ~disturbed', ~own[u].late PROVE content # signature.content
        OBVIOUS
      <4>1. ~disturbed
        BY StaysUndisturbed
      <4>2. Genuine(signature)
        BY <4>1, <3>1 DEF KeysInv, SignerInv
      <4> QED
        BY <4>2, VerifyFacts DEF InTime
    <3> HIDE DEF content, passed
    <3>5. /\ outcome'[u].cmd.name = "verify" /\ outcome'[u].content = content
          /\ outcome'[u].own.signature = signature /\ outcome'[u].own.late = own[u].late
          /\ outcome'[u].code = IF passed THEN "passed" ELSE "refused"
      BY <3>1, <3>2
    <3> HIDE DEF signature
    <3> QED
      BY <3>4, <3>5 DEF Verdict
  <2>4. CASE VerifyAttestation(u)
    <3> DEFINE content == own[u].envelope
               passed == InTime(u) /\ content.kind = "envelope" /\ VerifyEnvelope(content)
    <3>1. /\ outcome'[u] = [cmd |-> cmd(u), code |-> IF passed THEN "passed" ELSE "refused",
                            own |-> own[u], content |-> content]
          /\ pc[u] = "verify envelope"
      BY <1>0, <2>4, VerifyAttestationFrame
    <3>4. cmd(u).name = "attestation"
      BY <1>0, <3>1 DEF PlaceInv
    <3>2. ~passed /\ ~disturbed' /\ ~own[u].late => content.kind # "envelope"
      <4> SUFFICES ASSUME ~disturbed', ~own[u].late, content.kind = "envelope" PROVE passed
        OBVIOUS
      <4>1. ~disturbed
        BY StaysUndisturbed
      <4>2. GenuineEnvelope(content)
        BY <4>1, <3>1 DEF KeysInv, SignerInv
      <4> QED
        BY <4>2, EnvelopeFacts DEF InTime
    <3> DEFINE code == IF passed THEN "passed" ELSE "refused"
    <3>6. outcome'[u] = [cmd |-> cmd(u), code |-> code, own |-> own[u], content |-> content]
      BY <3>1
    <3> HIDE DEF content, passed, code
    <3>7. /\ outcome'[u].cmd = cmd(u) /\ outcome'[u].content = content
          /\ outcome'[u].own = own[u] /\ outcome'[u].code = code
      BY <3>6
    <3>5. /\ outcome'[u].cmd = cmd(u) /\ outcome'[u].content = content /\ outcome'[u].own = own[u]
          /\ outcome'[u].code = IF passed THEN "passed" ELSE "refused"
      BY <3>7 DEF code
    <3>3. /\ outcome'[u].cmd.name = "attestation" /\ outcome'[u].content = content
          /\ outcome'[u].own.late = own[u].late
          /\ outcome'[u].code = IF passed THEN "passed" ELSE "refused"
      BY <3>4, <3>5
    <3> QED
      BY <3>2, <3>3 DEF Verdict
  <2>5. CASE Start(u) \/ TimeIsUp(u) \/ SavePrivate(u) \/ LoadPrivate(u) \/ LoadPublic(u) \/ NewSigner(u)
               \/ SignFile(u) \/ ReadSignature(u) \/ ReadAttestation(u) \/ AddSubject(u) \/ ScanManifest(u)
    <3>1. outcome' = outcome
      BY <2>5, <1>0, StartFrame, TimeIsUpFrame, SavePrivateFrame, LoadPrivateFrame, LoadPublicFrame,
         NewSignerFrame, SignFileFrame, ReadSignatureFrame, ReadAttestationFrame, AddSubjectFrame,
         ScanManifestFrame
    <3> QED
      BY <3>1, <2>1
  <2>6. ASSUME NEW code \in {"ok", "error"}, NEW content,
               outcome'[u] = [cmd |-> cmd(u), code |-> code, own |-> own[u], content |-> content]
        PROVE  Verdict(outcome'[u], ~disturbed')
    <3>1. outcome'[u].code = code
      BY <2>6
    <3> QED
      BY <3>1, <2>2
  <2>7. CASE Fails(u)
    BY <1>0, <2>6, <2>7, FailsFrame
  <2>8. CASE SavePublic(u)
    BY <1>0, <2>6, <2>8, SavePublicFrame
  <2>9. CASE WriteSignature(u)
    BY <1>0, <2>6, <2>9, WriteSignatureFrame
  <2>10. CASE WriteAttestation(u)
    BY <1>0, <2>6, <2>10, WriteAttestationFrame
  <2>11. CASE WriteStatement(u)
    BY <1>0, <2>6, <2>11, WriteStatementFrame
  <2>12. CASE InspectAttestation(u)
    <3> DEFINE code == IF file["attestation"].kind = "envelope" THEN "ok" ELSE "error"
    <3>1. code \in {"ok", "error"}
      OBVIOUS
    <3>2. outcome'[u] = [cmd |-> cmd(u), code |-> code, own |-> own[u], content |-> file["attestation"]]
      BY <1>0, <2>12, InspectAttestationFrame
    <3> HIDE DEF code
    <3> QED
      BY <2>6, <3>1, <3>2
  <2>13. CASE WriteSbom(u)
    BY <1>0, <2>6, <2>13, WriteSbomFrame
  <2> QED
    BY <2>3, <2>4, <2>5, <2>7, <2>8, <2>9, <2>10, <2>11, <2>12, <2>13 DEF Step
<1>5. \A v \in User : Verdict(outcome'[v], ~disturbed')
  BY <1>3, <1>4
<1> QED
  BY <1>5 DEF RefusalTellsChange, Verdict

-----------------------------------------------------------------------------
(* Bills of materials.                                                     *)

LEMMA EditsStay ==
    ASSUME NEW u \in User, Step(u)
    PROVE  edits' = edits
<1>1. CASE Start(u) \/ Fails(u) \/ SavePrivate(u) \/ SavePublic(u) \/ LoadPrivate(u) \/ LoadPublic(u)
             \/ NewSigner(u) \/ SignFile(u) \/ WriteSignature(u)
  BY <1>1 DEF Start, Fails, SavePrivate, SavePublic, LoadPrivate, LoadPublic, NewSigner, SignFile,
              WriteSignature
<1>2. CASE ReadSignature(u) \/ VerifyFile(u) \/ AddSubject(u) \/ WriteAttestation(u)
             \/ WriteStatement(u) \/ VerifyAttestation(u) \/ InspectAttestation(u)
  BY <1>2 DEF ReadSignature, VerifyFile, AddSubject, WriteAttestation, WriteStatement,
              VerifyAttestation, InspectAttestation
<1>3. CASE TimeIsUp(u) \/ ReadAttestation(u) \/ ScanManifest(u) \/ WriteSbom(u)
  BY <1>3 DEF TimeIsUp, ReadAttestation, ScanManifest, WriteSbom
<1> QED
  BY <1>1, <1>2, <1>3 DEF Step

LEMMA StepKeepsManifests ==
    ASSUME TypeInv, \A v \in User : PlaceInv(v), NEW u \in User, Step(u), ManifestInv
    PROVE  ManifestInv'
<1>1. edits' = edits
  BY EditsStay
<1>2. \A i \in DOMAIN Manifest : file'[Manifest[i]] = file[Manifest[i]]
  BY FilesWritten
<1> QED
  BY <1>1, <1>2 DEF ManifestInv, Missing

LEMMA EmptyFacts == IsSequence(<<>>) /\ \A name : From(<<>>, name) = {}
<1>1. DOMAIN <<>> = {}
  OBVIOUS
<1>2. <<>> \in Seq({<<>>[i] : i \in DOMAIN <<>>})
  OBVIOUS
<1> QED
  BY <1>1, <1>2 DEF IsSequence, From

LEMMA StartKeepsListed ==
    ASSUME TypeInv, NEW u \in User, Start(u)
    PROVE  ListedInv(u)'
<1>1. own'[u] = Fresh
  BY StartFrame
<1>2. own'[u].components = <<>> /\ own'[u].manifest = 1
  BY <1>1 DEF Fresh
<1>3. 1 \in 1..(Len(Manifest) + 1) /\ \A i \in DOMAIN Manifest : ~(i < 1)
  BY ManifestFacts
<1> QED
  BY <1>2, <1>3, EmptyFacts DEF ListedInv

\* What one manifest adds.
LEMMA MoreFacts ==
    ASSUME ManifestInv, NEW i \in DOMAIN Manifest, NEW late \in BOOLEAN, NEW more,
           more = IF late \/ file[Manifest[i]] = Missing THEN <<>>
                  ELSE Parsed(Manifest[i], file[Manifest[i]].lines)
    PROVE  /\ IsSequence(more) /\ \A k \in DOMAIN more : more[k].purl[1] = Manifest[i]
           /\ Manifest[i] \in DOMAIN Project =>
                 more = Parsed(Manifest[i], Project[Manifest[i]])
                 \/ (more = <<>> /\ (late \/ edits > 0))
<1> DEFINE name == Manifest[i]
<1>1. CASE late \/ file[name] = Missing
  <2>1. more = <<>>
    BY <1>1
  <2>2. DOMAIN <<>> = {}
    OBVIOUS
  <2>3. name \in DOMAIN Project => late \/ edits > 0
    <3>1. CASE late
      BY <3>1
    <3>2. CASE file[name] = Missing
      <4>1. [kind |-> "manifest", lines |-> Project[name]].kind = "manifest" /\ Missing.kind = "missing"
        BY DEF Missing
      <4>2. [kind |-> "manifest", lines |-> Project[name]] # Missing
        BY <4>1
      <4> QED
        BY <3>2, <4>2 DEF ManifestInv
    <3> QED
      BY <1>1, <3>1, <3>2
  <2> QED
    BY <2>1, <2>2, <2>3, EmptyFacts
<1>2. CASE ~late /\ file[name] # Missing
  <2>1. name \in DOMAIN Project /\ file[name] = [kind |-> "manifest", lines |-> Project[name]]
    BY <1>2 DEF ManifestInv
  <2>2. file[name].lines = Project[name]
    BY <2>1
  <2>3. more = Parsed(name, Project[name])
    BY <1>2, <2>2
  <2>4. /\ IsSequence(Parsed(name, Project[name]))
        /\ \A k \in DOMAIN Parsed(name, Project[name]) : Parsed(name, Project[name])[k].purl[1] = name
    BY <2>1, ParsedFacts
  <2> QED
    BY <2>3, <2>4
<1> QED
  BY <1>1, <1>2

LEMMA ScanKeepsListed ==
    ASSUME TypeInv, NEW u \in User, PlaceInv(u), ScanManifest(u), ManifestInv, ListedInv(u)
    PROVE  ListedInv(u)'
<1> DEFINE s == own[u].components
           m == own[u].manifest
           late == own[u].late
<1>1. PICK more :
         /\ more = IF late \/ file[Manifest[m]] = Missing THEN <<>>
                   ELSE Parsed(Manifest[m], file[Manifest[m]].lines)
         /\ own' = [own EXCEPT ![u].manifest = @ + 1, ![u].components = @ \o more]
  BY DEF ScanManifest
<1>2. late \in BOOLEAN
  BY TypeFacts
<1>3. own'[u].components = s \o more /\ own'[u].manifest = m + 1 /\ own'[u].late = late
  BY <1>1, TypeFacts DEF OwnField
<1>4. /\ IsSequence(s)
      /\ m \in 1..(Len(Manifest) + 1)
      /\ \A i \in DOMAIN Manifest :
            IF i < m THEN Manifest[i] \in DOMAIN Project => Told(s, Manifest[i], late)
            ELSE From(s, Manifest[i]) = {}
  BY ScanManifestFrame DEF ListedInv
<1>5. m <= Len(Manifest)
  BY DEF ScanManifest
<1>6. m \in DOMAIN Manifest /\ m + 1 \in 1..(Len(Manifest) + 1)
  BY <1>4, <1>5, ManifestFacts
<1> HIDE DEF s, m, late
<1>8. /\ IsSequence(more) /\ \A k \in DOMAIN more : more[k].purl[1] = Manifest[m]
      /\ Manifest[m] \in DOMAIN Project =>
            more = Parsed(Manifest[m], Project[Manifest[m]])
            \/ (more = <<>> /\ (late \/ edits > 0))
  <2>1. more = IF late \/ file[Manifest[m]] = Missing THEN <<>>
               ELSE Parsed(Manifest[m], file[Manifest[m]].lines)
    BY <1>1
  <2> QED
    BY <2>1, <1>2, <1>6, MoreFacts, SMTT(60)
<1>9. IsSequence(s \o more)
  BY <1>4, <1>8, JoinFacts
<1>10. ASSUME NEW i \in DOMAIN Manifest, i # m
       PROVE  /\ From(s \o more, Manifest[i]) = From(s, Manifest[i])
              /\ Manifest[i] \in DOMAIN Project /\ Told(s, Manifest[i], late)
                    => Told(s \o more, Manifest[i], late)
  <2>1. Manifest[i] # Manifest[m]
    BY <1>6, <1>10, ManifestFacts
  <2>2. \A k \in DOMAIN more : more[k].purl[1] # Manifest[i]
    BY <1>8, <2>1
  <2>3. /\ From(s \o more, Manifest[i]) = From(s, Manifest[i])
        /\ \A components : IsSequence(components) /\ Lists(s, Manifest[i], components)
                             => Lists(s \o more, Manifest[i], components)
    BY <1>4, <1>8, <2>2, JoinOther
  <2>4. Manifest[i] \in DOMAIN Project => IsSequence(Parsed(Manifest[i], Project[Manifest[i]]))
    BY ParsedFacts
  <2> QED
    BY <2>3, <2>4 DEF Told
<1>11. Manifest[m] \in DOMAIN Project => Told(s \o more, Manifest[m], late)
  <2> SUFFICES ASSUME Manifest[m] \in DOMAIN Project PROVE Told(s \o more, Manifest[m], late)
    OBVIOUS
  <2>1. From(s, Manifest[m]) = {}
    <3>1. ~(m < m)
      BY <1>6, ManifestFacts
    <3> QED
      BY <1>4, <1>6, <3>1
  <2>2. CASE more = Parsed(Manifest[m], Project[Manifest[m]])
    BY <2>1, <2>2, <1>4, <1>8, JoinOwn DEF Told
  <2>3. CASE more = <<>> /\ (late \/ edits > 0)
    <3>1. DOMAIN more = {}
      BY <2>3
    <3>2. From(s \o more, Manifest[m]) = {}
      BY <3>1, <2>1, <1>4, <1>8, JoinOther
    <3> QED
      BY <3>2, <2>3 DEF Told
  <2> QED
    BY <1>8, <2>2, <2>3
<1>12. ASSUME NEW i \in DOMAIN Manifest
       PROVE  IF i < m + 1 THEN Manifest[i] \in DOMAIN Project => Told(s \o more, Manifest[i], late)
              ELSE From(s \o more, Manifest[i]) = {}
  <2>1. i < m + 1 <=> i < m \/ i = m
    BY <1>6, ManifestFacts
  <2>2. CASE i = m
    BY <2>1, <2>2, <1>11
  <2>3. CASE i # m
    BY <2>1, <2>3, <1>4, <1>10
  <2> QED
    BY <2>2, <2>3
<1>13. edits' = edits
  BY DEF ScanManifest
<1> QED
  BY <1>3, <1>6, <1>9, <1>12, <1>13 DEF ListedInv, Told

\* What is told of a command in time may be told of one whose time is up.
LEMMA TimeIsUpKeepsListed ==
    ASSUME TypeInv, NEW u \in User, PlaceInv(u), TimeIsUp(u), ListedInv(u)
    PROVE  ListedInv(u)'
<1>1. pc' = pc
  BY TimeIsUpFrame
<1>2. own'[u].components = own[u].components /\ own'[u].manifest = own[u].manifest
  BY TimeIsUpFrame DEF OwnField
<1>3. own'[u].late = TRUE /\ edits' = edits
  BY TypeFacts DEF TimeIsUp, OwnField
<1> QED
  BY <1>1, <1>2, <1>3 DEF ListedInv, Told

LEMMA StepKeepsListed ==
    ASSUME TypeInv, \A v \in User : PlaceInv(v), NEW u \in User, Step(u),
           ManifestInv, \A v \in User : ListedInv(v)
    PROVE  \A v \in User : ListedInv(v)'
<1>0. PlaceInv(u) /\ OtherSame(u) /\ edits' = edits
  BY StepKeepsPlaces, EditsStay DEF StepFrame
<1>1. \A v \in User \ {u} : ListedInv(v)'
  <2> SUFFICES ASSUME NEW v \in User \ {u} PROVE ListedInv(v)'
    OBVIOUS
  <2>1. pc'[v] = pc[v] /\ own'[v] = own[v]
    BY <1>0 DEF OtherSame
  <2> QED
    BY <1>0, <2>1 DEF ListedInv, Told
<1>2. ASSUME pc'[u] # "manifests" PROVE ListedInv(u)'
  BY <1>2 DEF ListedInv
<1>3. Start(u) => ListedInv(u)'
  BY StartKeepsListed
<1>4. ScanManifest(u) => ListedInv(u)'
  BY <1>0, ScanKeepsListed
<1>6. TimeIsUp(u) => ListedInv(u)'
  BY <1>0, TimeIsUpKeepsListed
<1>5. Start(u) \/ TimeIsUp(u) \/ ScanManifest(u) \/ pc'[u] # "manifests"
  <2>1. CASE Fails(u) \/ SavePrivate(u) \/ SavePublic(u) \/ LoadPrivate(u) \/ LoadPublic(u) \/ AddSubject(u)
    BY <1>0, <2>1, FailsFrame, SavePrivateFrame, SavePublicFrame, LoadPrivateFrame, LoadPublicFrame,
       AddSubjectFrame
  <2>2. CASE NewSigner(u) \/ SignFile(u) \/ ReadSignature(u) \/ ReadAttestation(u) \/ WriteSignature(u)
    BY <1>0, <2>2, NewSignerFrame, SignFileFrame, ReadSignatureFrame, ReadAttestationFrame,
       WriteSignatureFrame
  <2>3. CASE WriteAttestation(u) \/ WriteStatement(u) \/ VerifyFile(u)
    BY <1>0, <2>3, WriteAttestationFrame, WriteStatementFrame, VerifyFileFrame
  <2>4. CASE VerifyAttestation(u) \/ InspectAttestation(u) \/ WriteSbom(u)
    BY <1>0, <2>4, VerifyAttestationFrame, InspectAttestationFrame, WriteSbomFrame
  <2> QED
    BY <2>1, <2>2, <2>3, <2>4 DEF Step
<1> QED
  BY <1>1, <1>2, <1>3, <1>4, <1>5, <1>6

ListedIn(document) == IF document.kind = "spdx" THEN document.packages ELSE document.components

\* What a finished sbom command has told of every manifest.
TellsManifests(o) ==
    (o.cmd.name = "sbom" /\ o.code = "ok") =>
        \A name \in DOMAIN Project : Told(ListedIn(o.content), name, o.own.late)

LEMMA SbomsTell == SbomListsManifests <=> \A u \in User : TellsManifests(outcome[u])
BY DEF SbomListsManifests, TellsManifests, Told, ListedIn

LEMMA DocumentFacts ==
    ASSUME NEW format \in {"spdx", "cyclonedx"}, NEW components
    PROVE  ListedIn(Marshal(format, components)) = components
<1>1. CASE format = "spdx"
  <2>1. Marshal(format, components) = ToSPDX(components)
    BY <1>1 DEF Marshal
  <2>2. ToSPDX(components).kind = "spdx" /\ ToSPDX(components).packages = components
    BY DEF ToSPDX
  <2> QED
    BY <2>1, <2>2 DEF ListedIn
<1>2. CASE format = "cyclonedx"
  <2>1. Marshal(format, components) = ToCycloneDX(components)
    BY <1>2 DEF Marshal
  <2>2. ToCycloneDX(components).kind = "cyclonedx" /\ ToCycloneDX(components).components = components
    BY DEF ToCycloneDX
  <2> QED
    BY <2>1, <2>2 DEF ListedIn
<1> QED
  BY <1>1, <1>2

LEMMA WriteSbomTells ==
    ASSUME TypeInv, NEW u \in User, PlaceInv(u), WriteSbom(u), ListedInv(u)
    PROVE  TellsManifests(outcome'[u])
<1> DEFINE document == Marshal(cmd(u).format, own[u].components)
<1>1. /\ pc[u] = "manifests" /\ own[u].manifest > Len(Manifest)
      /\ outcome'[u] = [cmd |-> cmd(u), code |-> "ok", own |-> own[u], content |-> document]
  BY WriteSbomFrame
<1>2. cmd(u).format \in {"spdx", "cyclonedx"}
  BY <1>1, CommandFacts DEF PlaceInv
<1>3. ListedIn(document) = own[u].components
  BY <1>2, DocumentFacts
<1> HIDE DEF document
<1>4. ASSUME NEW name \in DOMAIN Project PROVE Told(own[u].components, name, own[u].late)
  <2>1. PICK i \in DOMAIN Manifest : name = Manifest[i]
    BY ProjectAssumption
  <2>2. own[u].manifest \in 1..(Len(Manifest) + 1)
    BY <1>1 DEF ListedInv
  <2>3. i < own[u].manifest
    BY <1>1, <2>2, ManifestFacts
  <2> QED
    BY <1>1, <2>1, <2>3 DEF ListedInv
<1>5. outcome'[u].content = document /\ outcome'[u].own.late = own[u].late
  BY <1>1
<1> QED
  BY <1>3, <1>4, <1>5 DEF TellsManifests

LEMMA StepKeepsSboms ==
    ASSUME TypeInv, \A v \in User : PlaceInv(v), NEW u \in User, Step(u),
           \A v \in User : ListedInv(v), SbomListsManifests
    PROVE  SbomListsManifests'
<1>0. PlaceInv(u) /\ OtherSame(u) /\ edits' = edits
  BY StepKeepsPlaces, EditsStay DEF StepFrame
<1>1. \A v \in User : TellsManifests(outcome[v])
  BY SbomsTell
<1>2. \A v \in User \ {u} : TellsManifests(outcome'[v])
  BY <1>0, <1>1 DEF OtherSame
<1>3. TellsManifests(outcome'[u])
  <2>1. CASE outcome' = outcome
    BY <2>1, <1>1
  <2>2. ASSUME NEW code, NEW content, cmd(u).name # "sbom" \/ code # "ok",
               outcome'[u] = [cmd |-> cmd(u), code |-> code, own |-> own[u], content |-> content]
        PROVE  TellsManifests(outcome'[u])
    <3>1. outcome'[u].cmd = cmd(u) /\ outcome'[u].code = code
      BY <2>2
    <3> QED
      BY <2>2, <3>1 DEF TellsManifests
  <2>3. CASE Start(u) \/ TimeIsUp(u) \/ SavePrivate(u) \/ LoadPrivate(u) \/ LoadPublic(u) \/ NewSigner(u)
               \/ SignFile(u) \/ ReadSignature(u) \/ ReadAttestation(u) \/ AddSubject(u) \/ ScanManifest(u)
    <3>1. outcome' = outcome
      BY <2>3, <1>0, StartFrame, TimeIsUpFrame, SavePrivateFrame, LoadPrivateFrame, LoadPublicFrame,
         NewSignerFrame, SignFileFrame, ReadSignatureFrame, ReadAttestationFrame, AddSubjectFrame,
         ScanManifestFrame
    <3> QED
      BY <3>1, <2>1
  <2>4. CASE Fails(u)
    <3>1. outcome'[u] = [cmd |-> cmd(u), code |-> "error", own |-> own[u], content |-> Missing]
      BY <1>0, <2>4, FailsFrame
    <3>2. "error" # "ok"
      OBVIOUS
    <3> QED
      BY <2>2, <3>1, <3>2
  <2>5. CASE SavePublic(u)
    <3>1. cmd(u).name = "genkey"
      BY <1>0, <2>5, SavePublicFrame DEF PlaceInv
    <3> QED
      BY <1>0, <2>2, <2>5, <3>1, SavePublicFrame
  <2>6. CASE WriteSignature(u)
    <3>1. cmd(u).name = "sign"
      BY <1>0, <2>6, WriteSignatureFrame DEF PlaceInv
    <3> QED
      BY <1>0, <2>2, <2>6, <3>1, WriteSignatureFrame
  <2>7. CASE WriteAttestation(u)
    <3>1. cmd(u).name = "attest"
      BY <1>0, <2>7, WriteAttestationFrame DEF PlaceInv
    <3> QED
      BY <1>0, <2>2, <2>7, <3>1, WriteAttestationFrame
  <2>8. CASE WriteStatement(u)
    <3>1. cmd(u).name = "attest"
      BY <1>0, <2>8, WriteStatementFrame DEF PlaceInv
    <3> QED
      BY <1>0, <2>2, <2>8, <3>1, WriteStatementFrame
  <2>9. CASE VerifyFile(u)
    <3>1. cmd(u).name = "verify"
      BY <1>0, <2>9, VerifyFileFrame DEF PlaceInv
    <3> QED
      BY <1>0, <2>2, <2>9, <3>1, VerifyFileFrame
  <2>10. CASE VerifyAttestation(u)
    <3>1. cmd(u).name = "attestation"
      BY <1>0, <2>10, VerifyAttestationFrame DEF PlaceInv
    <3> QED
      BY <1>0, <2>2, <2>10, <3>1, VerifyAttestationFrame
  <2>11. CASE InspectAttestation(u)
    <3>1. cmd(u).name # "sbom"
      BY <1>0, <2>11, InspectAttestationFrame
    <3> QED
      BY <1>0, <2>2, <2>11, <3>1, InspectAttestationFrame
  <2>12. CASE WriteSbom(u)
    BY <1>0, <2>12, WriteSbomTells
  <2> QED
    BY <2>3, <2>4, <2>5, <2>6, <2>7, <2>8, <2>9, <2>10, <2>11, <2>12 DEF Step
<1>4. \A v \in User : TellsManifests(outcome'[v])
  BY <1>2, <1>3
<1> QED
  BY <1>0, <1>4 DEF SbomListsManifests, TellsManifests, Told, ListedIn

-----------------------------------------------------------------------------
(* Authors, the initial states, and the invariant.                         *)

LEMMA EditKeepsInv ==
    ASSUME IInv, Edit
    PROVE  IInv'
<1>1. /\ nextKey' = nextKey /\ script' = script /\ pc' = pc /\ own' = own
      /\ outcome' = outcome /\ disturbed' = disturbed /\ edits' = edits + 1
  BY DEF Edit
<1>2. TypeInv
  BY DEF IInv
<1>3. edits' \in Nat /\ edits' > 0
  BY <1>1, <1>2, TypeFacts
<1>4. /\ DOMAIN file' = FileName
      /\ \A i \in DOMAIN Manifest : file'[Manifest[i]] \in {file[Manifest[i]], Missing}
      /\ \A n \in {"key", "key.pub", "attestation"} \cup {SignatureOf(name) : name \in Signed} :
            file'[n] = file[n]
  <2>1. CASE Write("artifact", Data(edits + 1))
    <3>1. \A n \in FileName : n # "artifact" => file'[n] = file[n]
      BY <1>2, <2>1, WriteFacts, SignatureFacts
    <3>2. DOMAIN file' = FileName
      BY <1>2, <2>1, TypeFacts DEF Write
    <3> QED
      BY <3>1, <3>2, SignatureFacts
  <2>2. CASE \E i \in DOMAIN Manifest : Write(Manifest[i], Missing)
    <3>1. PICK i \in DOMAIN Manifest : Write(Manifest[i], Missing)
      BY <2>2
    <3>2. Manifest[i] \in FileName
      BY SignatureFacts
    <3>3. file'[Manifest[i]] = Missing /\ \A n \in FileName : n # Manifest[i] => file'[n] = file[n]
      BY <1>2, <3>1, <3>2, WriteFacts
    <3>4. DOMAIN file' = FileName
      BY <1>2, <3>1, TypeFacts DEF Write
    <3>5. \A j \in DOMAIN Manifest : file'[Manifest[j]] \in {file[Manifest[j]], Missing}
      BY <3>3, SignatureFacts
    <3>6. \A n \in {"key", "key.pub", "attestation"} \cup {SignatureOf(name) : name \in Signed} :
             n \in FileName /\ n # Manifest[i]
      BY SignatureFacts
    <3> QED
      BY <3>3, <3>4, <3>5, <3>6
  <2> QED
    BY <2>1, <2>2 DEF Edit
<1>5. TypeInv'
  BY <1>1, <1>2, <1>3, <1>4 DEF TypeInv
<1>6. \A u \in User : PlaceInv(u)'
  BY <1>1 DEF IInv, PlaceInv, cmd
<1>7. KeysInv'
  <2>1. ~disturbed => PairInv /\ SignedInv /\ \A u \in User : SignerInv(u)
    BY DEF IInv, KeysInv
  <2>2. PairInv => PairInv'
    BY <1>1, <1>4 DEF PairInv
  <2>3. SignedInv => SignedInv'
    <3>1. \A name \in Signed : file'[SignatureOf(name)] = file[SignatureOf(name)]
      BY <1>4
    <3>2. file'["attestation"] = file["attestation"]
      BY <1>4
    <3> QED
      BY <3>1, <3>2 DEF SignedInv, Missing
  <2>4. \A u \in User : SignerInv(u) => SignerInv(u)'
    BY <1>1 DEF SignerInv
  <2> QED
    BY <1>1, <2>1, <2>2, <2>3, <2>4 DEF KeysInv
<1>8. ManifestInv'
  <2>1. ManifestInv
    BY DEF IInv
  <2> SUFFICES ASSUME NEW i \in DOMAIN Manifest
               PROVE  \/ /\ Manifest[i] \in DOMAIN Project
                         /\ file'[Manifest[i]] = [kind |-> "manifest", lines |-> Project[Manifest[i]]]
                      \/ file'[Manifest[i]] = Missing /\ (Manifest[i] \in DOMAIN Project => edits' > 0)
    BY DEF ManifestInv, Missing
  <2>2. CASE file'[Manifest[i]] = Missing
    BY <2>2, <1>3
  <2>3. CASE file'[Manifest[i]] = file[Manifest[i]]
    BY <2>1, <2>3, <1>3 DEF ManifestInv
  <2> QED
    BY <2>2, <2>3, <1>4
<1>9. \A listed, name, late : Told(listed, name, late) => Lists(listed, name, Parsed(name, Project[name]))
                                                          \/ (From(listed, name) = {} /\ (late \/ edits' > 0))
  BY <1>3 DEF Told
<1>10. \A u \in User : ListedInv(u)'
  <2> SUFFICES ASSUME NEW u \in User PROVE ListedInv(u)'
    OBVIOUS
  <2>1. ListedInv(u)
    BY DEF IInv
  <2> QED
    BY <1>1, <1>9, <2>1 DEF ListedInv, Told
<1>11. RefusalTellsChange'
  BY <1>1 DEF IInv, RefusalTellsChange
<1>12. SbomListsManifests'
  <2>1. \A u \in User : TellsManifests(outcome[u])
    BY SbomsTell DEF IInv
  <2>2. \A u \in User : TellsManifests(outcome[u])'
    BY <1>1, <1>9, <2>1 DEF TellsManifests, Told
  <2> QED
    BY <2>2 DEF SbomListsManifests, TellsManifests, Told, ListedIn
<1> QED
  BY <1>5, <1>6, <1>7, <1>8, <1>10, <1>11, <1>12 DEF IInv

LEMMA StutterKeepsInv ==
    ASSUME IInv, UNCHANGED vars
    PROVE  IInv'
<1>1. /\ file' = file /\ edits' = edits /\ nextKey' = nextKey /\ script' = script /\ pc' = pc
      /\ own' = own /\ outcome' = outcome /\ disturbed' = disturbed
  BY DEF vars
<1>2. TypeInv' /\ \A u \in User : PlaceInv(u)'
  BY <1>1 DEF IInv, TypeInv, PlaceInv, cmd
<1>3. KeysInv'
  BY <1>1 DEF IInv, KeysInv, PairInv, SignedInv, SignerInv, Missing, Genuine, GenuineEnvelope
<1>4. ManifestInv' /\ \A u \in User : ListedInv(u)'
  BY <1>1 DEF IInv, ManifestInv, ListedInv, Told, Missing
<1>5. RefusalTellsChange' /\ SbomListsManifests'
  BY <1>1 DEF IInv, RefusalTellsChange, SbomListsManifests
<1> QED
  BY <1>2, <1>3, <1>4, <1>5 DEF IInv

LEMMA StepKeepsInv ==
    ASSUME IInv, NEW u \in User, Step(u)
    PROVE  IInv'
<1>1. /\ TypeInv /\ KeysInv /\ ManifestInv /\ RefusalTellsChange /\ SbomListsManifests
      /\ \A v \in User : PlaceInv(v)
      /\ \A v \in User : ListedInv(v)
  BY DEF IInv
<1>2. TypeInv' /\ \A v \in User : PlaceInv(v)'
  BY <1>1, StepKeepsPlaces DEF StepFrame
<1>3. KeysInv' /\ ManifestInv'
  BY <1>1, StepKeepsKeys, StepKeepsManifests
<1>4. \A v \in User : ListedInv(v)'
  BY <1>1, StepKeepsListed
<1>5. RefusalTellsChange' /\ SbomListsManifests'
  BY <1>1, StepKeepsVerdict, StepKeepsSboms
<1> QED
  BY <1>2, <1>3, <1>4, <1>5 DEF IInv

LEMMA InitInv == Init => IInv
<1> SUFFICES ASSUME Init PROVE IInv
  OBVIOUS
<1>1. PICK public \in {PublicKey(1), Data(0)} :
         /\ file = [name \in FileName |->
                       CASE name = "artifact" -> Data(0)
                         [] name = "key" -> PrivateKey(1)
                         [] name = "key.pub" -> public
                         [] name \in DOMAIN Project -> [kind |-> "manifest", lines |-> Project[name]]
                         [] OTHER -> Missing]
         /\ disturbed = (public # PublicKey(1))
  BY DEF Init
<1>2. /\ script \in Scripts /\ edits = 0 /\ nextKey = 2
      /\ pc = [u \in User |-> "idle"] /\ own = [u \in User |-> Fresh]
      /\ outcome = [u \in User |-> NoOutcome]
  BY DEF Init
<1>3. TypeInv
  <2>1. DOMAIN file = FileName /\ disturbed \in BOOLEAN
    BY <1>1
  <2>2. script \in [User -> Seq(Command)]
    BY <1>2, ScriptsAssumption
  <2>3. pc \in [User -> Place]
    BY <1>2 DEF Place
  <2>4. DOMAIN Fresh = OwnField /\ Fresh.late = FALSE
    BY DEF Fresh, OwnField
  <2>5. DOMAIN own = User /\ \A u \in User : DOMAIN own[u] = OwnField /\ own[u].late \in BOOLEAN
    BY <1>2, <2>4
  <2> QED
    BY <1>2, <2>1, <2>2, <2>3, <2>5 DEF TypeInv
<1>4. \A u \in User : PlaceInv(u) /\ SignerInv(u) /\ ListedInv(u)
  BY <1>2 DEF PlaceInv, SignerInv, ListedInv
<1>5. DOMAIN Project \subseteq {"go.mod", "package.json", "requirements.txt"}
  BY ProjectAssumption, SignatureNames
<1>6. /\ file["key"] = PrivateKey(1) /\ file["key.pub"] = public
      /\ file["attestation"] = Missing
      /\ \A name \in Signed : file[SignatureOf(name)] = Missing
  <2>1. {"key", "key.pub", "attestation", "artifact.sig", "sbom.sig"} \subseteq FileName
    BY SignatureNames
  <2>2. file["key"] = PrivateKey(1)
    BY <1>1, <1>5, <2>1
  <2>3. file["key.pub"] = public
    BY <1>1, <1>5, <2>1
  <2>4. file["attestation"] = Missing
    BY <1>1, <1>5, <2>1
  <2>5. file["artifact.sig"] = Missing
    BY <1>1, <1>5, <2>1
  <2>6. file["sbom.sig"] = Missing
    BY <1>1, <1>5, <2>1
  <2> QED
    BY <2>2, <2>3, <2>4, <2>5, <2>6, SignatureNames DEF Signed
<1>7. KeysInv
  <2> SUFFICES ASSUME ~disturbed PROVE PairInv /\ SignedInv
    BY <1>4 DEF KeysInv
  <2>1. public = PublicKey(1)
    BY <1>1
  <2>2. PublicKey(1).kind = "public key" /\ PublicKey(1).key = 1 /\ PrivateKey(1).key = 1 /\ 1 \in Key
    <3>1. PublicKey(1).kind = "public key"
      BY DEF PublicKey
    <3>2. PublicKey(1).key = 1
      BY DEF PublicKey
    <3>3. PrivateKey(1).key = 1
      BY DEF PrivateKey
    <3>4. 1 \in Key
      BY DEF Key, NoKey
    <3> QED
      BY <3>1, <3>2, <3>3, <3>4
  <2>3. PairInv
    BY <1>2, <1>6, <2>1, <2>2 DEF PairInv
  <2>4. Missing.kind = "missing"
    BY DEF Missing
  <2>5. SignedInv
    BY <1>6, <2>4 DEF SignedInv
  <2> QED
    BY <2>3, <2>5
<1>8. ManifestInv
  <2> SUFFICES ASSUME NEW i \in DOMAIN Manifest
               PROVE  \/ /\ Manifest[i] \in DOMAIN Project
                         /\ file[Manifest[i]] = [kind |-> "manifest", lines |-> Project[Manifest[i]]]
                      \/ file[Manifest[i]] = Missing /\ (Manifest[i] \in DOMAIN Project => edits > 0)
    BY DEF ManifestInv
  <2>1. Manifest[i] \in {"go.mod", "package.json", "requirements.txt"} /\ Manifest[i] \in FileName
    BY SignatureNames
  <2>2. CASE Manifest[i] \in DOMAIN Project
    BY <1>1, <2>1, <2>2
  <2>3. CASE Manifest[i] \notin DOMAIN Project
    <3>1. file[Manifest[i]] = Missing
      BY <1>1, <2>1, <2>3
    <3> QED
      BY <2>3, <3>1
  <2> QED
    BY <2>2, <2>3
<1>9. \A u \in User : outcome[u].code = "none"
  BY <1>2 DEF NoOutcome
<1>10. RefusalTellsChange /\ SbomListsManifests
  BY <1>9 DEF RefusalTellsChange, SbomListsManifests
<1> QED
  BY <1>3, <1>4, <1>7, <1>8, <1>10 DEF IInv

\* Everything the commands rest on, in every state (cli/sign.go,
\* cli/attestation.go, cli/sbom.go).
THEOREM Invariant == Spec => []IInv
<1>1. IInv /\ [Next]_vars => IInv'
  BY StepKeepsInv, EditKeepsInv, StutterKeepsInv DEF Next
<1> QED
  BY InitInv, <1>1, PTL DEF Spec

\* However many users generate keys, sign and verify in one directory: as long
\* as no command has met key files of two pairs, sign verify refuses only a file
\* that has changed since it was signed, and attestation verify only what is no
\* envelope, or the time was up (cli/sign.go, cli/attestation.go).
THEOREM RefusalsTellChange == Spec => []RefusalTellsChange
<1>1. IInv => RefusalTellsChange
  BY DEF IInv
<1> QED
  BY Invariant, <1>1, PTL

\* A bill of materials has all that a manifest declares, or nothing, and
\* nothing only if the manifest was removed or the time was up (sbom.go).
THEOREM SbomsListManifests == Spec => []SbomListsManifests
<1>1. IInv => SbomListsManifests
  BY DEF IInv
<1> QED
  BY Invariant, <1>1, PTL
=============================================================================
