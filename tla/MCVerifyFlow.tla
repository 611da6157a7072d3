---------------------------- MODULE MCVerifyFlow ----------------------------
(***************************************************************************)
(* Model-checking instance of VerifyFlow: the real size limits, and a      *)
(* registry whose signature manifests are drawn from one well-formed       *)
(* manifest per verifier verdict plus one manifest per way of breaking     *)
(* the repository contract (each of them carrying a valid envelope, so     *)
(* that a check the code missed would let it verify).                      *)
(***************************************************************************)
EXTENDS VerifyFlow

MCMaxBlobSizeLimit     == 32 * 1024 * 1024
MCMaxManifestSizeLimit == 4 * 1024 * 1024
MCBlobSizes     == {MCMaxBlobSizeLimit, MCMaxBlobSizeLimit + 1}
MCManifestSizes == {MCMaxManifestSizeLimit, MCMaxManifestSizeLimit + 1}

\* Sizes exactly at the limits: the largest the code must accept.
SigBlob(v) == [mediaType |-> "jose", size |-> MCMaxBlobSizeLimit,
               verdict |-> v, present |-> TRUE]
SigManifest(v) == [mediaType |-> "image", size |-> MCMaxManifestSizeLimit,
                   layers |-> <<SigBlob(v)>>]

\* The same signature in an artifact manifest.
ArtifactSig == [SigManifest("valid") EXCEPT !.mediaType = "artifact"]

WellFormed == {SigManifest(v) : v \in Verdicts} \cup {ArtifactSig}

\* The same signature in an ORAS artifact manifest: a media type the current
\* adapter refuses and the only one the legacy client reads.
OrasSig == [ArtifactSig EXCEPT !.mediaType = OrasArtifactManifest]

\* Each breaks one rule of the repository contract.
Malformed ==
  { [ArtifactSig EXCEPT !.size = MCMaxManifestSizeLimit + 1],
    OrasSig,
    [ArtifactSig EXCEPT !.layers = <<SigBlob("invalid"), SigBlob("valid")>>],
    [ArtifactSig EXCEPT !.layers = <<>>],
    [SigManifest("valid") EXCEPT !.layers[1].size = MCMaxBlobSizeLimit + 1],
    [SigManifest("valid") EXCEPT !.layers[1].present = FALSE] }

\* ORAS artifact manifests the legacy client skips (no blobs) or refuses
\* (over 4 MiB).
LegacyMalformed ==
  { [OrasSig EXCEPT !.size = MCMaxManifestSizeLimit + 1],
    [OrasSig EXCEPT !.layers = <<>>] }

AllSignatureManifests == WellFormed \cup Malformed \cup LegacyMalformed

FewSignatureManifests == {SigManifest("valid"), SigManifest("metaMismatch")}

\* Callers that pass every input check: the walk over the signatures.
Request(mode, skip, max, ref, resolves, repoRemote, atLocal) ==
  [mode |-> mode, skip |-> skip, maxAttempts |-> max, reference |-> ref,
   resolves |-> resolves, repoRemote |-> repoRemote, targetAtLocal |-> atLocal]

LoopRequests ==
  { Request("remote", s, m, "valid", TRUE, TRUE, FALSE) :
       s \in {"notSkipVerifier", "noSkip"}, m \in 1 .. 3 }
  \cup
  { Request("local", s, m, "valid", TRUE, FALSE, TRUE) :
       s \in {"notSkipVerifier", "noSkip"}, m \in 1 .. 3 }

\* Every combination of the inputs each flow's checks read (Verify does not
\* read targetAtLocal, VerifyLocalContent not the reference).
InputRequests ==
  { Request("remote", s, m, ref, res, rr, FALSE) :
       s \in {"notSkipVerifier", "noSkip", "skip", "error"},
       m \in 0 .. 1,
       ref \in {"valid", "unparsable", "noReference"},
       res \in BOOLEAN, rr \in BOOLEAN }
  \cup
  { Request("local", s, m, "valid", res, rr, al) :
       s \in {"notSkipVerifier", "noSkip", "skip", "error"},
       m \in 0 .. 1,
       res \in BOOLEAN, rr \in BOOLEAN, al \in BOOLEAN }

\* The walks and the input checks together.
LoopAndInputRequests == LoopRequests \cup InputRequests

=============================================================================
