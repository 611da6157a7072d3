-------------------------- MODULE LegacyRepository --------------------------
(***************************************************************************)
(* The older registry client RepositoryClient (src/unnamed/part_001, lines *)
(* 24-190).  ListSignatureManifests collects the signature blobs of an     *)
(* artifact over the pages of the referrers API, in a callback that keeps  *)
(* its result in a variable shared by all pages.  It keeps artifact        *)
(* manifests only, reads each with getArtifactManifest, skips one without  *)
(* blobs and keeps the first blob of the others; the first error ends the  *)
(* listing.  It reads artifactspec's ORAS artifact manifest, not the OCI   *)
(* artifact manifest the current adapter reads.                            *)
(* The call is sequential, so it is an operator: the set of                *)
(* results it can return for a referrers snapshot and a page size, the     *)
(* choice being which network calls fail.                                  *)
(*                                                                         *)
(* The data model is Repository's.                                         *)
(***************************************************************************)
EXTENDS Repository, SequencesExt

\* SignatureManifest{Blob, Annotations}: the first blob, and the manifest
\* whose annotations it carries.
SignatureManifest(m) == [blob |-> m.layers[1], of |-> m]

\* getArtifactManifest, lines 113-137: resolve, the size limit, fetch and
\* decode; the outcomes a manifest of this size can have.
GetArtifactManifest(m) ==
  IF m.size > MaxManifestSizeLimit THEN {"ManifestTooLarge"}
  ELSE {"ok", "Resolve", "FetchAll", "Unmarshal"}

\* The next referrer after entry k, on pages of the given size: the next
\* one of the page, or, after the page's last, the first of the next page
\* the pager delivers (lines 60-62, 67-69 and 74).
\* Mutant: a skipped entry returns nil, which ends the page.
NextEntryEndsPage(k, size) == ((k - 1) \div size + 1) * size + 1

NextEntry(k, size) == k + 1

(***************************************************************************)
(* ListSignatureManifests, lines 53-80, from entry k with the list acc     *)
(* built so far: [err |-> "none", list |-> l] or [err |-> e, list |-> <<>>]*)
(***************************************************************************)
RECURSIVE ListFrom(_, _, _, _)
ListFrom(refs, size, k, acc) ==
  IF k > Len(refs) THEN {[err |-> "none", list |-> acc]}
  ELSE LET m == refs[k]
           next == NextEntry(k, size)
       IN  IF m.mediaType # OrasArtifactManifest THEN ListFrom(refs, size, next, acc)
           ELSE UNION { IF r # "ok" THEN {[err |-> r, list |-> <<>>]}
                        ELSE IF m.layers = <<>> THEN ListFrom(refs, size, next, acc)
                        ELSE ListFrom(refs, size, next,
                                      Append(acc, SignatureManifest(m)))
                        : r \in GetArtifactManifest(m) }

ListSignatureManifests(refs, size) == ListFrom(refs, size, 1, <<>>)


(***************************************************************************)
(* PutSignatureManifest, lines 94-111: uploadSignature, then               *)
(* uploadSignatureManifest; an error of either is returned as it is.  The  *)
(* result is [err |-> "none", refs |-> r, signatureManifest |-> sm] or     *)
(* [err |-> e, refs |-> r], r being the referrers of the subject after it. *)
(***************************************************************************)
\* uploadSignature, lines 141-153: the descriptor of the envelope bytes,
\* then Blobs().Push, which may fail; a pushed blob is in the store.
UploadSignature(b) == {[ok |-> TRUE, desc |-> [b EXCEPT !.present = TRUE]], Fail}

\* uploadSignatureManifest, lines 155-166: oras.Pack (oras-go v2) with these
\* options packs an OCI artifact manifest (ocispec.MediaTypeArtifactManifest;
\* PackImageManifest is not set) whose one blob is the signature, with the
\* subject and the annotations; the annotations make it as large as they
\* are.
PackedManifests(d) ==
  {[mediaType |-> ArtifactManifest, size |-> s, layers |-> <<d>>] : s \in ManifestSizes}

\* Pack pushes the manifest with the subject; the registry files the new
\* referrer at any position, or Pack fails and nothing is filed.
PutSignatureManifest(refs, b) ==
  UNION { IF ~u.ok THEN {[err |-> "uploadSignature", refs |-> refs]}
          ELSE {[err |-> "Pack", refs |-> refs]} \cup
               { [err |-> "none", refs |-> InsertAt(refs, i, m),
                  signatureManifest |-> [blob |-> u.desc, of |-> m]] :
                   m \in PackedManifests(u.desc), i \in 1 .. Len(refs) + 1 }
          : u \in UploadSignature(b) }

-----------------------------------------------------------------------------
\* The reference definition: the first blob of every ORAS artifact manifest
\* with blobs, in the API's order.
Listable(m) == m.mediaType = OrasArtifactManifest /\ m.layers # <<>>

Reference(refs) == LET s == SelectSeq(refs, Listable)
                   IN  [i \in DOMAIN s |-> SignatureManifest(s[i])]

\* Whatever the page size, a list ListSignatureManifests returns is the
\* reference list of the whole referrers sequence, and it fails for the size
\* limit only when an ORAS artifact manifest is over 4 MiB: the result built
\* across the callback's calls does not depend on where the registry cuts
\* the pages.
ListIsPageIndependent(refs, size) ==
  \A o \in ListSignatureManifests(refs, size) :
    /\ o.err = "none" => o.list = Reference(refs)
    /\ o.err = "ManifestTooLarge" =>
         \E i \in DOMAIN refs : refs[i].mediaType = OrasArtifactManifest
                                /\ refs[i].size > MaxManifestSizeLimit

\* A signature PutSignatureManifest stores is one ListSignatureManifests
\* returns: whatever the page size and wherever the registry files it, a
\* listing that succeeds after a successful put holds the SignatureManifest
\* the put returned, next to every signature listed before it.  The listing
\* fails instead when a manifest is over the 4 MiB limit.
PutIsListed(refs, size, b) ==
  \A p \in PutSignatureManifest(refs, b) :
    p.err = "none" =>
      \A o \in ListSignatureManifests(p.refs, size) :
        /\ o.err = "none" =>
             /\ p.signatureManifest \in ToSet(o.list)
             /\ Len(o.list) = Len(Reference(refs)) + 1
        /\ o.err = "ManifestTooLarge" =>
             p.signatureManifest.of.size > MaxManifestSizeLimit
             \/ \E i \in DOMAIN refs : refs[i].mediaType = OrasArtifactManifest
                                     /\ refs[i].size > MaxManifestSizeLimit

=============================================================================
