\* The input checks of both flows, every combination of the inputs they
\* read, and the walk over the signatures: up to 3 referrers drawn from
\* every well-formed and malformed manifest, 1 to 3 attempts, 1 or 2 per page.
CONSTANTS
  MaxBlobSizeLimit <- MCMaxBlobSizeLimit
  MaxManifestSizeLimit <- MCMaxManifestSizeLimit
  BlobSizes <- MCBlobSizes
  ManifestSizes <- MCManifestSizes
  Requests <- LoopAndInputRequests
  SignatureManifests <- AllSignatureManifests
  MaxReferrers = 3
  PageSizes = {1, 2}

SPECIFICATION Spec
INVARIANT TypeOK
INVARIANT AttemptsBounded
INVARIANT FirstSuccessWins
INVARIANT LegacyListIsPageIndependent
PROPERTY AbsSpec
