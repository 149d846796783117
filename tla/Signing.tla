------------------------------- MODULE Signing -------------------------------
(***************************************************************************)
(* internal/signing and internal/attestation: what signatures, statements  *)
(* and envelopes are made of, and when they verify.  A key is a number and *)
(* a digest is the content itself; ECDSA and SHA-256 are external: only    *)
(* the private key makes a value that its public key accepts, for that one *)
(* content.                                                                *)
(***************************************************************************)
EXTENDS Naturals

NoKey == 0      \* what is no key in PEM

\* LoadKeyPair takes the public key as it finds it in the second file.
KeyPair(private, public) == [private |-> private, public |-> public]

GenerateKeyPair(key) == KeyPair(key, key)

\* Sign: the value, the key id (of the private key) and the public key.
Sign(pair, content) ==
    [kind |-> "signature", key |-> pair.private, content |-> content,
     keyID |-> pair.private, public |-> pair.public]

\* AddTrustedKey
Trusts(trusted, keyID, public) ==
    [id \in DOMAIN trusted \cup {keyID} |-> IF id = keyID THEN public ELSE trusted[id]]

\* resolvePublicKey: a trusted key of that id, or the one that comes with the
\* signature.
resolvePublicKey(trusted, signature) ==
    IF signature.keyID \in DOMAIN trusted THEN trusted[signature.keyID] ELSE signature.public

\* ecdsa.VerifyASN1
Accepts(public, content, signature) == signature.key = public /\ signature.content = content

Verify(trusted, content, signature) ==
    LET public == resolvePublicKey(trusted, signature)
    IN  public # NoKey /\ Accepts(public, content, signature)

NoneTrusted == [id \in {} |-> NoKey]

-----------------------------------------------------------------------------
(* Attestations.                                                           *)

CreateSubject(name, content) == [name |-> name, digest |-> content]

\* GenerateProvenance
Statement(subject) == [kind |-> "statement", subject |-> subject]

\* SignStatement
Envelope(statement, pair) ==
    [kind |-> "envelope", payload |-> statement, signature |-> Sign(pair, statement)]

\* VerifyEnvelope trusts the key that comes in the envelope.
VerifyEnvelope(envelope) ==
    /\ envelope.signature.public # NoKey
    /\ Verify(Trusts(NoneTrusted, envelope.signature.keyID, envelope.signature.public),
              envelope.payload, envelope.signature)
=============================================================================
