------------------------------ MODULE SignFlow ------------------------------
(***************************************************************************)
(* notation.Sign and notation.SignLocalContent (src/unnamed/part_001) with *)
(* addUserMetadataToDescriptor and generateAnnotations, and the            *)
(* repository's PushSignature (src/registry/repository.go), which uploads   *)
(* the envelope blob and then the signature manifest in two calls.         *)
(*                                                                         *)
(* Annotation maps are functions over small key sets.  Go maps are         *)
(* references: the descriptor is passed by value, but when the caller's    *)
(* Annotations map is not nil, addUserMetadataToDescriptor writes into the *)
(* caller's map.  Go ranges over a map in no fixed order, so the metadata  *)
(* loop visits the keys in any order.  The signer is a black box that      *)
(* signs the descriptor it is given or fails; any network call may fail    *)
(* (or be cancelled, which is the same to the flow).                       *)
(***************************************************************************)
EXTENDS Integers, Sequences, FiniteSetsExt, TLC

CONSTANTS
  Requests,      \* the calls a caller may make
  ReservedKeys,  \* the annotation keys with the prefix io.cncf.notary
  Chains,        \* certificate chains a signer may return, leaf first
  Second         \* time.Second in the unit of ExpiryDuration

VARIABLES
  req,          \* the call: mode ("remote" = Sign, "local" = SignLocalContent) and options
  pc,           \* "start", "metadata", "sign", "pushBlob", "pushManifest", "done"
  remaining,    \* user-metadata keys the range loop has not visited yet
  targetAnn,    \* targetDesc.Annotations
  callerAnn,    \* the annotations of the descriptor the caller holds
  envelope,     \* the signature the signer produced, or NoEnvelope
  annotations,  \* the signature manifest annotations, once generated
  blobs,        \* registry: envelope blobs pushed
  manifests,    \* registry: signature manifests pushed
  result        \* what the call returned

vars == <<req, pc, remaining, targetAnn, callerAnn, envelope, annotations,
          blobs, manifests, result>>

\* annotationX509ChainThumbprint
ThumbprintKey == "io.cncf.notary.x509chain.thumbprint#S256"

\* sha256.Sum256 over a certificate's DER, as a collision-free tag.
Thumbprint(cert) == <<"sha256", cert>>

\* json.Marshal of the thumbprint slice; a nil slice marshals to null.
ThumbprintsJSON(chain) ==
  IF chain = <<>> THEN "null"
  ELSE [i \in DOMAIN chain |-> Thumbprint(chain[i])]

\* f overlaid with key k set to v (a Go map assignment).
Put(f, k, v) == (k :> v) @@ f

NoMap == [x \in {} |-> "none"]

Return(err) == [err |-> err]

NoEnvelope == [subject |-> NoMap, chain |-> <<>>]

\* The annotation map the flow starts with: the caller's descriptor in
\* SignLocalContent, the descriptor repo.Resolve returns in Sign.
OriginalAnn == req.callerAnn

\* The caller sees the flow's writes when its map is the flow's map.
Shared == req.mode = "local" /\ ~req.callerNil

Init ==
  /\ req \in Requests
  /\ pc = "start"
  /\ remaining = DOMAIN req.userMetadata
  /\ targetAnn = req.callerAnn
  /\ callerAnn = req.callerAnn
  /\ envelope = NoEnvelope
  /\ annotations = NoMap
  /\ blobs = {}
  /\ manifests = {}
  /\ result = Return("pending")

\* Lines 270-301 (Sign) and 358-366 (SignLocalContent): the input checks
\* and repo.Resolve; the first that fails decides the result.
Start ==
  LET checks ==
        << [fires |-> req.expiry < 0, err |-> "ExpiryNegative"],
           [fires |-> req.expiry % Second # 0, err |-> "ExpiryGranularity"] >>
        \o (IF req.mode = "remote"
            THEN << [fires |-> req.reference \in {"unparsable", "noReference"},
                     err |-> "Reference"],
                    [fires |-> req.repoNil, err |-> "RepoNil"],
                    [fires |-> ~req.resolves, err |-> "Resolve"] >>
            ELSE <<>>)
      failing == {i \in 1 .. Len(checks) : checks[i].fires}
  IN
  /\ pc = "start"
  /\ \/ /\ failing # {}
        /\ result' = Return(checks[Min(failing)].err)
        /\ pc' = "done"
     \/ /\ failing = {}
        /\ pc' = "metadata"
        /\ UNCHANGED result
  /\ UNCHANGED <<req, remaining, targetAnn, callerAnn, envelope, annotations,
                 blobs, manifests>>

(***************************************************************************)
(* addUserMetadataToDescriptor (lines 399-423): one iteration of the range *)
(* loop over the user metadata, for a key the loop has not visited.  A nil *)
(* Annotations map is replaced by a fresh one first (line 402), so only a  *)
(* non-nil caller map is written through.                                   *)
(***************************************************************************)
\* Line 415: the key is already an annotation of the descriptor.
\* Mutant: the check is missing and the user value overwrites it.
AlreadyPresentUnchecked(k) == FALSE

AlreadyPresent(k) == k \in DOMAIN targetAnn

AddUserMetadata ==
  /\ pc = "metadata"
  /\ \E k \in remaining :
       /\ remaining' = remaining \ {k}
       /\ \/ /\ k \in ReservedKeys
             /\ result' = Return("ReservedPrefix")
             /\ pc' = "done"
             /\ UNCHANGED <<targetAnn, callerAnn>>
          \/ /\ k \notin ReservedKeys
             /\ AlreadyPresent(k)
             /\ result' = Return("AlreadyPresent")
             /\ pc' = "done"
             /\ UNCHANGED <<targetAnn, callerAnn>>
          \/ /\ k \notin ReservedKeys
             /\ ~AlreadyPresent(k)
             /\ targetAnn' = Put(targetAnn, k, req.userMetadata[k])
             /\ callerAnn' = IF Shared THEN targetAnn' ELSE callerAnn
             /\ UNCHANGED <<pc, result>>
  /\ UNCHANGED <<req, envelope, annotations, blobs, manifests>>

MetadataAdded ==
  /\ pc = "metadata"
  /\ remaining = {}
  /\ pc' = "sign"
  /\ UNCHANGED <<req, remaining, targetAnn, callerAnn, envelope, annotations,
                 blobs, manifests, result>>

(***************************************************************************)
(* generateAnnotations (lines 831-848): the plugin's annotations, if the   *)
(* signer has any, with the thumbprint annotation set over them.           *)
(***************************************************************************)
\* Mutant: the thumbprint is set only when the signer gave no annotations.
GenerateAnnotationsOnlyWhenNil(chain, pluginAnn) ==
  IF pluginAnn = NoMap THEN ThumbprintKey :> ThumbprintsJSON(chain)
                       ELSE pluginAnn

\* Mutant: the plugin's annotations are merged over the thumbprint.
GenerateAnnotationsPluginLast(chain, pluginAnn) ==
  pluginAnn @@ (ThumbprintKey :> ThumbprintsJSON(chain))

GenerateAnnotations(chain, pluginAnn) ==
  Put(pluginAnn, ThumbprintKey, ThumbprintsJSON(chain))

(***************************************************************************)
(* Lines 307-322 / 379-396: signer.Sign on the extended descriptor, the    *)
(* plugin annotations and generateAnnotations.  SignLocalContent returns   *)
(* here; Sign goes on to push.                                             *)
(***************************************************************************)
SignerSign ==
  /\ pc = "sign"
  /\ \/ /\ result' = Return("Signer")
        /\ pc' = "done"
        /\ UNCHANGED <<envelope, annotations>>
     \/ \E chain \in Chains :
          /\ envelope' = [subject |-> targetAnn, chain |-> chain]
          /\ annotations' =
               GenerateAnnotations(chain,
                 IF req.annotating THEN req.pluginAnnotations ELSE NoMap)
          /\ IF req.mode = "remote"
             THEN /\ pc' = "pushBlob"
                  /\ UNCHANGED result
             ELSE /\ pc' = "done"
                  /\ result' = Return("none")
  /\ UNCHANGED <<req, remaining, targetAnn, callerAnn, blobs, manifests>>

\* repository.go lines 66-70: oras.PushBytes of the envelope.
PushBlob ==
  /\ pc = "pushBlob"
  /\ \/ /\ blobs' = blobs \cup {envelope}
        /\ pc' = "pushManifest"
        /\ UNCHANGED result
     \/ /\ result' = Return("PushSignatureFailed")
        /\ pc' = "done"
        /\ UNCHANGED blobs
  /\ UNCHANGED <<req, remaining, targetAnn, callerAnn, envelope, annotations,
                 manifests>>

\* repository.go lines 72-77 and 111-123: oras.Pack of the signature
\* manifest with the signed descriptor as subject; then Sign returns.
PushManifest ==
  /\ pc = "pushManifest"
  /\ \/ /\ manifests' = manifests \cup
             {[subject |-> targetAnn, blob |-> envelope, annotations |-> annotations]}
        /\ result' = Return("none")
     \/ /\ result' = Return("PushSignatureFailed")
        /\ UNCHANGED manifests
  /\ pc' = "done"
  /\ UNCHANGED <<req, remaining, targetAnn, callerAnn, envelope, annotations,
                 blobs>>

Done ==
  /\ pc = "done"
  /\ UNCHANGED vars

Next ==
  \/ Start
  \/ AddUserMetadata
  \/ MetadataAdded
  \/ SignerSign
  \/ PushBlob
  \/ PushManifest
  \/ Done

Spec == Init /\ [][Next]_vars

-----------------------------------------------------------------------------
(***************************************************************************)
(* Properties                                                              *)
(***************************************************************************)

TypeOK ==
  /\ pc \in {"start", "metadata", "sign", "pushBlob", "pushManifest", "done"}
  /\ remaining \subseteq DOMAIN req.userMetadata
  /\ DOMAIN targetAnn \subseteq DOMAIN req.callerAnn \cup DOMAIN req.userMetadata
  /\ envelope = NoEnvelope \/ envelope.chain \in Chains
  /\ \A m \in manifests : ThumbprintKey \in DOMAIN m.annotations

\* Spec 8.4 and 8.5: whatever order the metadata loop takes, the descriptor
\* the signer signs is the original one extended with exactly the user
\* metadata, no user key carries the reserved prefix, and no user key
\* replaced an annotation the descriptor already had.
SignedDescriptorExtendsTarget ==
  envelope # NoEnvelope =>
    /\ DOMAIN req.userMetadata \cap ReservedKeys = {}
    /\ DOMAIN req.userMetadata \cap DOMAIN OriginalAnn = {}
    /\ envelope.subject = OriginalAnn @@ req.userMetadata

\* Spec 3 and 6: every signature manifest in the registry points at an
\* envelope blob that was pushed, has the signed descriptor as its subject,
\* and its thumbprint annotation lists the thumbprints of the signing chain
\* leaf first, whatever annotations the plugin returned.
SignatureManifestConsistent ==
  \A m \in manifests :
    /\ m.blob \in blobs
    /\ m.subject = m.blob.subject
    /\ m.annotations[ThumbprintKey] = ThumbprintsJSON(m.blob.chain)

\* Spec 5: a Sign call that fails leaves the registry as it was.
FailedSignLeavesRegistryUnchanged ==
  (pc = "done" /\ result.err # "none") => blobs = {} /\ manifests = {}

\* Spec 3: the caller's descriptor is not modified by a signing call that
\* is rejected.
RejectedSignLeavesDescriptor ==
  (pc = "done" /\ result.err \in {"ReservedPrefix", "AlreadyPresent"})
    => callerAnn = req.callerAnn

=============================================================================
