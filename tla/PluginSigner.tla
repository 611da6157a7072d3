---------------------------- MODULE PluginSigner ----------------------------
(***************************************************************************)
(* jws.PluginSigner.Sign (src/registry/repository.go): the exchange with   *)
(* a signing plugin.  get-plugin-metadata selects the capability;          *)
(* describe-key gives the key spec; the signer builds the JWS signing      *)
(* string with the algorithm of that key spec; generate-signature returns  *)
(* a signature and a certificate chain, which the signer checks before it  *)
(* assembles the envelope.                                                 *)
(*                                                                         *)
(* The plugin is another process and may answer anything: each Run fails,  *)
(* returns a response of the wrong type, or returns any response of the    *)
(* right type.  Cryptography is abstracted: a signature records the        *)
(* algorithm, the key and the signing input it was made with, and          *)
(* verifying it (verifyJWT) compares them.  A certificate is its public    *)
(* key, whether it has the code-signing EKU, and whether it parses.        *)
(***************************************************************************)
EXTENDS Integers, Sequences, SequencesExt, TLC

CONSTANTS
  KeyID,              \* s.KeyID, the key the signer is configured with
  PluginKeyIDs,       \* key IDs a plugin may answer with
  KeySpecs,           \* key specs a plugin may describe
  SignatureAlgorithm, \* KeySpec.SignatureAlgorithm().JWS(), "" if unsupported
  ResponseAlgorithms, \* signing algorithms a plugin may answer with
  JWS,                \* SignatureAlgorithm.JWS(), "" if unsupported
  Keys,               \* public keys of certificates
  BaseConfig,         \* s.PluginConfig
  Requests,           \* the calls: descriptor, opts.PluginConfig, payload validity
  MaxChain            \* longest certificate chain a plugin returns

VARIABLES
  req,      \* the call being served
  pc,       \* "metadata", "describeKey", "generate", "done"
  config,   \* the merged plugin config sent with both requests
  sent,     \* plugin configs the signer sent, in order
  keySpec,  \* key spec of the describe-key response
  signing,  \* the JWS signing string sent to be signed
  result    \* [err |-> e] or [err |-> "none", envelope |-> ...]

vars == <<req, pc, config, sent, keySpec, signing, result>>

Cert == [key : Keys, codeSigning : BOOLEAN, parses : BOOLEAN]

\* A signature made by a plugin: with which algorithm, key and input.
Signature(inputs) == [alg : {JWS[a] : a \in ResponseAlgorithms}, key : Keys,
                      input : inputs]

NoMap == [x \in {} |-> "none"]

Return(err) == [err |-> err]

(***************************************************************************)
(* mergeConfig (lines 275-286): a fresh map, the signer's config copied in *)
(* and the per-request config copied over it, each loop in map order.     *)
(***************************************************************************)
RECURSIVE CopyInto(_, _, _)
CopyInto(c, m, keys) ==
  IF keys = {} THEN c
  ELSE LET k == CHOOSE k \in keys : TRUE
       IN  CopyInto((k :> m[k]) @@ c, m, keys \ {k})

\* Mutant: the per-request config is copied first and the signer's over it.
MergeConfigBaseWins(cfg) ==
  CopyInto(CopyInto(NoMap, cfg, DOMAIN cfg), BaseConfig, DOMAIN BaseConfig)

MergeConfig(cfg) ==
  CopyInto(CopyInto(NoMap, BaseConfig, DOMAIN BaseConfig), cfg, DOMAIN cfg)

\* jwtToken(alg.JWS(), payload).SigningString() (lines 213-214): the JWS
\* header carries the algorithm of the key spec; the payload the descriptor.
SigningString(alg, desc) == [alg |-> alg, desc |-> desc]

\* verifyJWT (lines 304-308): the signature verifies under the algorithm
\* and the certificate's public key over the signing string.
VerifyJWT(alg, input, sig, cert) ==
  /\ sig.alg = alg
  /\ sig.key = cert.key
  /\ sig.input = input

\* No signing string has been built yet.
NoSigning == SigningString("", "none")

Init ==
  /\ req \in Requests
  /\ pc = "metadata"
  /\ config = NoMap
  /\ sent = <<>>
  /\ keySpec = "none"
  /\ signing = NoSigning
  /\ result = Return("pending")

\* PluginSigner.Sign, lines 150-168: get-plugin-metadata and the choice of
\* capability.  metadata.Validate is the plugin package's check of the
\* response and either passes or fails.
GetMetadata ==
  /\ pc = "metadata"
  /\ \/ result' = Return("MetadataCommand")
     \/ result' = Return("ResponseType")
     \/ result' = Return("InvalidMetadata")
     \/ \E caps \in SUBSET {"signatureGenerator", "envelopeGenerator"} :
          result' = Return(CASE "signatureGenerator" \in caps -> "pending"
                             [] "envelopeGenerator" \in caps -> "NotImplemented"
                             [] OTHER -> "NoSigningCapability")
  /\ pc' = IF result'.err = "pending" THEN "describeKey" ELSE "done"
  /\ UNCHANGED <<req, config, sent, keySpec, signing>>

\* Line 202: the key spec maps to a signature algorithm.
\* Mutant: an unsupported key spec is not refused.
SupportedUnchecked(ks) == TRUE

Supported(ks) == SignatureAlgorithm[ks] # ""

\* generateSignature up to the generate-signature request, lines 187-217,
\* with describeKey, lines 170-185.
DescribeKey ==
  /\ pc = "describeKey"
  /\ config' = MergeConfig(req.pluginConfig)
  /\ sent' = Append(sent, config')
  /\ \/ /\ result' \in {Return("DescribeKeyCommand"), Return("ResponseType")}
        /\ UNCHANGED <<keySpec, signing>>
     \/ \E kid \in PluginKeyIDs, ks \in KeySpecs :
          /\ keySpec' = ks
          /\ result' = Return(CASE kid # KeyID -> "KeyIDMismatch"
                                [] ~Supported(ks) -> "KeySpecUnsupported"
                                [] ~req.payloadValid -> "Payload"
                                [] OTHER -> "pending")
          /\ signing' = IF result'.err = "pending"
                        THEN SigningString(SignatureAlgorithm[ks], req.desc)
                        ELSE signing
  /\ pc' = IF result'.err = "pending" THEN "generate" ELSE "done"
  /\ UNCHANGED req

\* Line 267: the EKU check on the signing certificate.
\* Mutant: the last certificate of the chain is checked.
SigningCertLast(chain) == chain[Len(chain)]

SigningCert(chain) == chain[1]

\* Lines 219-272: generate-signature and the checks of its response, in
\* the code's order; on success jwtEnvelope assembles the signing string,
\* the signature and the chain the plugin returned.
GenerateSignature ==
  /\ pc = "generate"
  /\ sent' = Append(sent, config)
  /\ \/ result' \in {Return("GenerateSignatureCommand"), Return("ResponseType")}
     \/ \E kid \in PluginKeyIDs, alg \in ResponseAlgorithms,
           chain \in BoundedSeq(Cert, MaxChain),
           sig \in Signature({signing, [signing EXCEPT !.desc = "stale"]}) :
          LET jwsAlg == JWS[alg] IN
          result' =
            CASE kid # KeyID -> Return("KeyIDMismatch")
              [] jwsAlg = "" -> Return("AlgorithmUnsupported")
              [] chain = <<>> -> Return("EmptyChain")
              [] \E i \in DOMAIN chain : ~chain[i].parses -> Return("ParseCert")
              [] ~VerifyJWT(jwsAlg, signing, sig, chain[1]) -> Return("Verification")
              [] ~SigningCert(chain).codeSigning -> Return("CertRequirements")
              [] OTHER -> [err |-> "none",
                           envelope |-> [signing |-> signing, sig |-> sig,
                                         chain |-> chain]]
  /\ pc' = "done"
  /\ UNCHANGED <<req, config, keySpec, signing>>

Done ==
  /\ pc = "done"
  /\ UNCHANGED vars

Next == GetMetadata \/ DescribeKey \/ GenerateSignature \/ Done

Spec == Init /\ [][Next]_vars

-----------------------------------------------------------------------------
(***************************************************************************)
(* Properties                                                              *)
(***************************************************************************)

TypeOK ==
  /\ pc \in {"metadata", "describeKey", "generate", "done"}
  /\ Len(sent) <= 2
  /\ keySpec \in KeySpecs \cup {"none"}
  /\ signing = NoSigning \/ signing.alg \in {SignatureAlgorithm[k] : k \in KeySpecs} \ {""}
  /\ result.err = "none" => result.envelope.chain \in Seq(Cert)

\* Spec 4.3, last paragraph: the per-request plugin config overlays the
\* signer's base config, key by key.  The reference definition.
Overlay(base, cfg) ==
  [k \in DOMAIN base \cup DOMAIN cfg |-> IF k \in DOMAIN cfg THEN cfg[k]
                                                          ELSE base[k]]

\* Both plugin requests (describe-key and generate-signature) carry the
\* config mergeConfig built, and it is the overlay of opts.PluginConfig on
\* s.PluginConfig, whatever order the two map loops take.
ConfigIsOverlay ==
  \A i \in DOMAIN sent : sent[i] = Overlay(BaseConfig, req.pluginConfig)

\* Spec 4.3 (e, f): an envelope the signer returns carries a signature made
\* by the key of the first certificate of its chain over the signing
\* string of the caller's descriptor, and that certificate has the
\* code-signing EKU, whatever the plugin answered to the three commands.
EnvelopeAuthentic ==
  result.err = "none" =>
    LET e == result.envelope IN
    /\ e.chain # <<>>
    /\ e.sig.key = e.chain[1].key
    /\ e.sig.input = e.signing
    /\ e.signing.desc = req.desc
    /\ e.chain[1].codeSigning

\* Spec 4.3 (e): the algorithm of the returned signature matches the one
\* of the key spec, which the JWS header of the envelope declares; an
\* envelope whose header names another algorithm than its signature's does
\* not verify.
EnvelopeAlgorithmConsistent ==
  result.err = "none" =>
    result.envelope.sig.alg = result.envelope.signing.alg

=============================================================================
