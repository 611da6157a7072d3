\* Sign and SignLocalContent: every user-metadata map against every
\* descriptor annotation map, every input check, every failing call.
CONSTANTS
  Requests <- MCRequests
  ReservedKeys <- MCReservedKeys
  Chains <- MCChains
  Second <- MCSecond

SPECIFICATION Spec
INVARIANT TypeOK
INVARIANT SignedDescriptorExtendsTarget
INVARIANT SignatureManifestConsistent
