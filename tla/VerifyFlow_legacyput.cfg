\* A put by the legacy client followed by its listing, over registries of
\* up to 3 referrers drawn from every well-formed and malformed manifest,
\* page sizes 1 and 2.
CONSTANTS
  MaxBlobSizeLimit <- MCMaxBlobSizeLimit
  MaxManifestSizeLimit <- MCMaxManifestSizeLimit
  BlobSizes <- MCBlobSizes
  ManifestSizes <- MCManifestSizes
  Requests <- LoopRequests
  SignatureManifests <- AllSignatureManifests
  MaxReferrers = 3
  PageSizes = {1, 2}

SPECIFICATION Spec
INVARIANT LegacyPutIsListed
