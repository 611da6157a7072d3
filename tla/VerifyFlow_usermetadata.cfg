\* Error aggregation when every signature fails: up to 2 referrers, one
\* failing the user-metadata check.
CONSTANTS
  MaxBlobSizeLimit <- MCMaxBlobSizeLimit
  MaxManifestSizeLimit <- MCMaxManifestSizeLimit
  BlobSizes <- MCBlobSizes
  ManifestSizes <- MCManifestSizes
  Requests <- LoopRequests
  SignatureManifests <- FewSignatureManifests
  MaxReferrers = 2
  PageSizes = {1, 2}

SPECIFICATION Spec
INVARIANT PrefersUserMetadataError
