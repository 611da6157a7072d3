----------------------------- MODULE Repository -----------------------------
(***************************************************************************)
(* The OCI repository adapter of src/registry/repository.go: the data      *)
(* model of signature manifests and envelope blobs, and the read side      *)
(* (FetchSignatureBlob) as a pure operator of a manifest descriptor.       *)
(*                                                                         *)
(* A descriptor is abstracted to its media type and size; a manifest to    *)
(* its media type, its size and the sequence of blob descriptors it        *)
(* lists (ocispec.Artifact.Blobs or ocispec.Manifest.Layers).  A blob      *)
(* carries the verifier's verdict on the envelope it holds (the envelope   *)
(* bytes themselves are opaque to the flows) and whether its content can   *)
(* be fetched from the blob store.                                         *)
(***************************************************************************)
EXTENDS Integers, Sequences

CONSTANTS
  MaxBlobSizeLimit,      \* maxBlobSizeLimit, 32 MiB
  MaxManifestSizeLimit,  \* maxManifestSizeLimit, 4 MiB
  BlobSizes,             \* sizes a blob descriptor may declare
  ManifestSizes          \* sizes a manifest descriptor may declare

ASSUME MaxBlobSizeLimit \in Nat /\ MaxManifestSizeLimit \in Nat

\* ocispec.MediaTypeArtifactManifest (the OCI artifact manifest),
\* ocispec.MediaTypeImageManifest, artifactspec.MediaTypeArtifactManifest
\* (the ORAS artifact manifest, the only type the legacy client of part_001
\* reads) and any other manifest media type (an index, say).
ArtifactManifest     == "artifact"
ImageManifest        == "image"
OrasArtifactManifest == "orasArtifact"
OtherManifest        == "other"
ManifestMediaTypes ==
  {ArtifactManifest, ImageManifest, OrasArtifactManifest, OtherManifest}

\* Envelope media types; only recorded, never interpreted by the flows.
EnvelopeMediaTypes == {"jose", "cose"}

\* What Verifier.Verify makes of an envelope under the caller's options:
\*   "valid"        outcome, nil error
\*   "invalid"      outcome whose Error is a verification failure
\*   "metaMismatch" outcome whose Error is ErrorUserMetadataVerificationFailed
\*   "nilOutcome"   nil outcome and a non-nil error
Verdicts == {"valid", "invalid", "metaMismatch", "nilOutcome"}

Blob == [mediaType : EnvelopeMediaTypes, size : BlobSizes,
         verdict : Verdicts, present : BOOLEAN]

Manifest(blobs) == [mediaType : ManifestMediaTypes, size : ManifestSizes,
                    layers : blobs]

(***************************************************************************)
(* getSignatureBlobsDesc followed by FetchSignatureBlob.  The result is    *)
(* [ok |-> TRUE, blob |-> b] or [ok |-> FALSE]; the error text is left     *)
(* out, the flows only propagate it.  content.FetchAll fails when the      *)
(* content is not in the store (present = FALSE); for the manifest itself  *)
(* the descriptor came from the referrers listing and is taken as present. *)
(***************************************************************************)
Fail == [ok |-> FALSE]

SignatureBlobsDesc(m) ==
  IF m.size > MaxManifestSizeLimit THEN Fail
  ELSE IF m.mediaType \in {ArtifactManifest, ImageManifest}
       THEN [ok |-> TRUE, blobs |-> m.layers]
       ELSE Fail

\* Mutant: a manifest without blobs is refused, one with several is not.
FetchSignatureBlobFirstOfMany(m) ==
  LET r == SignatureBlobsDesc(m) IN
  IF ~r.ok THEN Fail
  ELSE IF Len(r.blobs) < 1 THEN Fail
  ELSE IF r.blobs[1].size > MaxBlobSizeLimit THEN Fail
  ELSE IF ~r.blobs[1].present THEN Fail
  ELSE [ok |-> TRUE, blob |-> r.blobs[1]]

FetchSignatureBlob(m) ==
  LET r == SignatureBlobsDesc(m) IN
  IF ~r.ok THEN Fail
  ELSE IF Len(r.blobs) # 1 THEN Fail
  ELSE IF r.blobs[1].size > MaxBlobSizeLimit THEN Fail
  ELSE IF ~r.blobs[1].present THEN Fail
  ELSE [ok |-> TRUE, blob |-> r.blobs[1]]

=============================================================================
