\* The input checks of both flows: every combination of the inputs they read, at
\* most one referrer, MaxSignatureAttempts 0 or 1.
CONSTANTS
  MaxBlobSizeLimit <- MCMaxBlobSizeLimit
  MaxManifestSizeLimit <- MCMaxManifestSizeLimit
  BlobSizes <- MCBlobSizes
  ManifestSizes <- MCManifestSizes
  Requests <- InputRequests
  SignatureManifests <- FewSignatureManifests
  MaxReferrers = 1
  PageSizes = {1}

SPECIFICATION Spec
INVARIANT MaxAttemptsValidated
