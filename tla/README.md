# TLA+ models of notation-go's sign and verify flows

This directory holds TLA+ specifications of the library in `src/`, together with
the TLC configurations that check them. They model the signing and verification
flows of package `notation` (`src/unnamed/part_001`) the OCI repository
adapter they call (`src/registry/repository.go`), and the directory layout
(`src/dir/path.go`).

## The system and how its parts interact

| Part | Source | What it does |
|---|---|---|
| Sign flow | `part_001` `Sign` (270-331), `SignLocalContent` (358-396), `addUserMetadataToDescriptor` (399-423), `generateAnnotations` (831-848) | Validates the options and resolves the reference. Copies the user metadata into the target descriptor's annotations. Calls the signer. Builds the signature-manifest annotations (the chain thumbprints). `Sign` then pushes through the repository. |
| Verify flow | `part_001` `Verify` (550-676), `VerifyLocalContent` (711-829) | Validates the options. Asks the verifier whether to skip. Resolves the reference. Walks the referrers of the target page by page through a callback. Fetches and verifies each signature until one verifies, the attempt limit is hit, or one is fatal. Then picks the error to return. |
| Repository adapter | `registry/repository.go` 1-123 | `ListSignatures` pages the referrers API into the callback. `FetchSignatureBlob` reads a signature manifest, enforces the size limits and the exactly-one-blob rule, and reads the blob. `PushSignature` uploads the envelope blob, then packs the signature manifest with the target as subject. |
| Plugin signer | `registry/repository.go` 124-308 | Speaks the plugin protocol: get-plugin-metadata, describe-key, generate-signature. |
| Trust store loader | `registry/repository.go` 309-410 | Reads X.509 certificate files of a named store and validates each one. |
| Legacy repository client | `part_001` 24-190 | An older artifact-manifest client. `ListSignatureManifests` collects the first blob of every ORAS artifact manifest (artifactspec's media type) among the referrers, across the pages, in a list shared by the callback's calls. `PutSignatureManifest` pushes the envelope blob, then has `oras.Pack` pack an OCI artifact manifest (ocispec's media type) that refers to the subject. |
| Path manager | `src/dir/path.go` | Gives the paths of notation's files. The path is under one level's root, or comes from a union lookup in which the user level wins over the system level. `checkError` panics on a stat error other than not-exist. |
| Verifier and trust policy (not in `src/`, not modelled) | spec 4.5-4.6; the flows call `SkipVerify` (`part_001` 565) and `verifier.Verify` (626) and read its `VerificationOutcome` (425-459) | Selects the trust-policy statement for the reference, derives the per-check actions from its level and overrides, and runs the checks of one signature in order. |
| Registry and other clients | `ListSignatures` (`repository.go` 36-40) hands the callback to oras's `Referrers` | The registry serves each page from its referrers as they are when the page is requested. Other clients push and delete signatures meanwhile. |

The verifier, the trust policy and the envelope codecs are not in `src/`. To the
flows, a verifier is a function from an envelope to a verdict, and a signer is a
call that returns an envelope or fails. The verifier's pipeline and the trust
policy are not modelled (see the last section).
The trust-store loader is composed with the path manager, because the store it
opens is the directory the union lookup names.

## Modules

* **`Repository`**: the data model and the read side of the adapter, with no
  variables.
  * A manifest is abstracted to its media type, size and list of blob
    descriptors.
  * A blob is abstracted to its envelope media type, size, the verifier's
    verdict on it, and whether its content can be fetched.
  * `SignatureBlobsDesc` and `FetchSignatureBlob` translate
    `getSignatureBlobsDesc` and `FetchSignatureBlob`, including the `>`
    comparisons against the 4 MiB and 32 MiB limits.
* **`VerifyFlow`** covers `Verify` and `VerifyLocalContent` as one state
  machine. The request's `mode` selects the flow.
  * `Start` runs the input checks in the code's order. The two flows order
    them differently: `RemoteChecks` and `LocalChecks`, with the skip check in
    `SkipChecks`.
  * `Start` then enters the `ListSignatures` callback.
  * `ProcessSignature` is one iteration of the callback's loop. It fetches,
    verifies and classifies the outcome, and returns `errDoneVerification` on
    the first success (`Verified`).
  * `EndLoop` leaves the loop at the end of the page or at the attempt limit
    (`WithinAttempts`).
  * `EndPage` is the limit check after the loop plus the next-page step of
    `ListSignatures` (`MorePages`).
  * `RequestPage` is one page request of `ListSignatures`, from `Start` for
    the first page and from `EndPage` for the next. It may fail, and
    `ListSignatures` then returns its error (line 660).
  * `Finish` is the error choice after `ListSignatures` returns.
  * Variables:
    * `referrers` is the artifact's signature manifests in API order.
    * `pageSize` is the number of referrers per page, chosen by the registry.
    * `page` and `processed` are the callback's position and
      `numOfSignatureProcessed`.
    * `outcomes`, `failedErr` and `cbErr` are `verificationOutcomes`,
      `verificationFailedErr` and the callback's error.
    * `fetched` is the sequence of signatures fetched.
    * `result` is the returned triple (error, outcomes, descriptor).
* **`VerifyAbstract`** states what a verify call promises (spec 4.1, 4.7, 5
  and 7), in one step:
  * signatures are considered in API order, at most `maxAttempts` of them;
  * the first one that verifies wins;
  * a signature that breaks the repository contract, or on which the verifier
    gives no outcome, is fatal;
  * otherwise the call fails, and the kind of failure is part of the
    answer: the limit error once `maxAttempts` referrers were considered
    (the code's boundary at line 649), else the user-metadata failure if one
    was seen, else the plain verification failure;
  * a page request may fail (`ListingFails`), but only after the signatures
    before it decided nothing and while the limit is not reached;
  * without referrers, the answer is "not found".

  `VerifyFlow` refines it. `Abs == INSTANCE VerifyAbstract WITH status <-
  Class(result), chosen <- Chosen` maps the concrete result to its class, and
  the signature it is about to its index. `AbsSpec` is checked as a temporal
  property.
* **`SignFlow`** covers `Sign` and `SignLocalContent` as one state machine.
  * `Start` is the input checks and `Resolve`.
  * `AddUserMetadata` is one iteration of the metadata range loop. It takes
    *any* remaining key, because Go's map order is random.
  * `MetadataAdded` is the loop's end.
  * `SignerSign` is the signer plus `generateAnnotations`.
  * `PushBlob` and `PushManifest` are the two registry calls of
    `PushSignature`.
  * `targetAnn` is the flow's descriptor annotations. `callerAnn` is the
    caller's view of its own descriptor. They are the same Go map when
    `SignLocalContent` receives a non-nil map (`Shared`).
  * `blobs` and `manifests` are the registry's contents.
* **`PluginSigner`** covers `jws.PluginSigner.Sign`.
  * `GetMetadata` is get-plugin-metadata and the choice of capability. An
    envelope-generator plugin gets "not implemented".
  * `DescribeKey` is `mergeConfig`, describe-key and its checks, the payload
    check, and the JWS signing string. The signing string's header carries the
    key spec's algorithm.
  * `GenerateSignature` is generate-signature and every check of its response,
    in the code's order, then the envelope.
  * The plugin may fail, answer with the wrong type, or answer *anything* of the
    right type. That means any key ID, algorithm, chain of up to two
    certificates, and signature by any key over the right or a stale input.
  * A signature is the record (algorithm, key, input) and `VerifyJWT` compares
    it.
  * `MergeConfig` is the code's two map loops, written as a RECURSIVE copy. It
    is checked against the reference definition `Overlay`.
* **`TrustStoreLoader`** covers `verification.LoadX509TrustStore` and
  `validateCerts`.
  * `Open` is the path checks and `os.ReadDir`, which reads the entries the
    directory holds at that moment.
  * `LoadFile` is one iteration over the `os.ReadDir` entries.
  * `Finish` is the empty-store check.
  * A certificate is abstracted to its self-signed and CA flags. An entry is a
    regular file with the certificates parsed from it, a directory, a symlink,
    or an unreadable file.
* **`LegacyRepository`** covers the legacy client's `ListSignatureManifests`
  and `getArtifactManifest`, and its `PutSignatureManifest` with
  `uploadSignature` and `uploadSignatureManifest`.
  * The call is sequential, so it is a RECURSIVE operator, `ListFrom`. It
    gives the set of results for a referrers snapshot and a page size, one
    per choice of failing network call.
  * `NextEntry` is where the loop goes after an entry. That is the next entry
    of the page, or, after the last one, the first entry of the page the
    pager delivers next.
  * `PutSignatureManifest` is an operator too: the set of results and
    registries a put can leave. Either push may fail. `oras.Pack` with these
    options packs an OCI artifact manifest (`PackImageManifest` is not set),
    as large as the annotations make it, and the registry files the new
    referrer at any position.
  * Only the ORAS artifact manifest is listed (line 60), so a signature the
    client puts is one its own listing skips: the `legacy_put` run.
  * `VerifyFlow` instantiates it as `Legacy` over its own `referrers` and
    `pageSize`. The `verify_loop` run therefore checks both clients on the
    same registries.
* **`PathManager`** covers `dir.PathManager` and its `checkError`.
  * Each getter is an operator: `Config`, `TrustPolicy`, `X509TrustStore`,
    `Localkey`, `SigningKeyConfig` and the signature-cache paths.
  * A path is a sequence of segments. `filepath.Join` is `\o`.
  * `GetPath` is the union file system's lookup. It is modelled from its
    documented behaviour, because `UnionDirFS` is not in `src/`. The first root
    where the path exists wins. A stat error stops the lookup. With no root,
    the path under the first root is returned with `ErrNotExist`.
  * The one variable, `fs`, maps each tracked path to exists, missing or
    denied. `Change` lets another process alter it at any time, so every
    getter is evaluated in every file-system state.
* **`TrustStoreAtPath`** composes `PathManager` with `TrustStoreLoader`, as a
  verifier loads a named store: `Resolve` is
  `X509TrustStore(UnionLevel, prefix, name)`, and `Load` is the loader's steps
  on the returned path. `PathState` is what `os.Stat`/`os.Lstat` find there
  *now*. `Change` may alter the file system until `os.ReadDir` has read the
  directory. After that nothing reads it, and the cfg's `VIEW` keeps only the
  resolved path's state from then on. Every file-system state is an initial
  state, so the `PathManager` properties still see all of them.
* **`VerifyChurn`** composes `Verify`'s callback (`part_001` 608-675) with the
  registry's pager and with other clients.
  * `FetchPage` is one page request of `ListSignatures`. It cuts the page from
    `reg` as `reg` is now, and may fail.
  * `ProcessSignature`, `EndPage` and `Finish` are the callback's loop, the
    check after the loop (`ExceededCheck`, line 649) with the pager's
    next-page step, and the error choice.
  * `Push` (another client's `PushSignature`) inserts a new signature at any
    position. `Delete` removes one. Both happen only between page requests
    (`pc = "fetch"`). A page is one HTTP response, so a write made while the
    callback works on a page is seen first by the next request. Placing it
    there loses no behaviour.
  * The registry pages by offset or by cursor (`mode`). Under a cursor,
    `offset` moves with the item the cursor points at.
  * A signature is a model value, and `Kind` gives the outcome of fetching and
    verifying it. `VerifyFlow` checks that composition in detail.
* **`MCVerifyFlow`**, **`MCSignFlow`**, **`MCPluginSigner`**,
  **`MCTrustStoreLoader`**, **`MCTrustStoreAtPath`** and **`MCVerifyChurn`** give the constants concrete values
  for TLC. The size limits are the real 4 MiB and 32 MiB. Sizes are exactly at
  the limit or one byte over it.

Every action models a whole step of the code, including the early returns,
which set `pc` to `"done"` with the error. Each network call (`Resolve`, the
pushes, the signer) may succeed or fail. A cancelled context looks the same to
these flows as a failure.

## Runs

| Run | Config | Expect | What it shows |
|---|---|---|---|
| `verify_loop` | `VerifyFlow_loop.cfg` | pass | For every combination of the inputs each flow's checks read, the call either refuses or skips before a fetch, or answers as `VerifyAbstract` allows. For every sequence of up to 3 signature manifests, drawn from 5 well-formed ones (one per verdict, plus an artifact-typed one) and 6 malformed ones, with `MaxSignatureAttempts` 1-3 and page sizes 1-2, in both flows: at most `MaxSignatureAttempts` signatures are fetched (`AttemptsBounded`), the walk stops at the first verified signature (`FirstSuccessWins`), and the answer is the one `VerifyAbstract` allows (`AbsSpec`). Every page request may fail, and the answer then says so only after signatures that decided nothing. Over the same registries, the legacy `ListSignatureManifests` returns the reference list, the first blob of every ORAS artifact manifest with blobs, whatever the page size (`LegacyListIsPageIndependent`). About 1.85M states, 70 s. |
| `legacy_put` | `VerifyFlow_legacyput.cfg` | violation | A signature the legacy `PutSignatureManifest` stores is not in the next `ListSignatureManifests` (`LegacyPutIsListed`): `oras.Pack` packs an OCI artifact manifest (line 161), and the listing keeps only the ORAS artifact manifest type (line 60). TLC finds it from the empty registry. |
| `verify_maxattempts` | `VerifyFlow_maxattempts.cfg` | violation | `Verify` with a skip policy and `MaxSignatureAttempts = 0` returns success. The option's comment and spec 4.7 say a value of 0 or less is an error. |
| `verify_usermetadata` | `VerifyFlow_usermetadata.cfg` | violation | When `MaxSignatureAttempts` signatures all fail and one fails on user metadata, `errExceededMaxVerificationLimit` replaces the user-metadata error that spec 4.7 says is returned. |
| `sign` | `SignFlow.cfg` | pass | In every map order, every request, every signer result and every push failure: the signed descriptor is the target extended by exactly the user metadata (`SignedDescriptorExtendsTarget`), and every pushed manifest references a pushed blob with the same subject and the chain's thumbprints, even when the plugin forged one (`SignatureManifestConsistent`). |
| `sign_registry` | `SignFlow_registry.cfg` | violation | A failed `Sign` can leave the envelope blob in the registry (spec 5). |
| `sign_descriptor` | `SignFlow_descriptor.cfg` | violation | A `SignLocalContent` rejected for its user metadata has already written some of that metadata into the caller's annotation map. |
| `plugin_sign` | `PluginSigner.cfg` | pass | Whatever the plugin answers, both plugin requests carry the overlay of `opts.PluginConfig` on `s.PluginConfig` (`ConfigIsOverlay`). A returned envelope is signed by the first certificate's key over the caller's descriptor, and that certificate has the code-signing EKU (`EnvelopeAuthentic`). |
| `plugin_algorithm` | `PluginSigner_algorithm.cfg` | violation | A plugin answering PS256 for an EC-256 key produces an envelope whose header says ES256 and whose signature is PS256. Spec 4.3 (e) says the algorithm must match. |
| `truststore_path` | `TrustStoreAtPath.cfg` | pass | The ca store `acme` (and an absent `signingAuthority` one) is loaded from the union path, while other processes change `config.json`, `trustpolicy.json` and the store at both levels until `ReadDir`. Directories hold up to two entries of every kind. In every file-system state, each union getter prefers the user level and panics only on a stat error (`UnionPrefersUser`). Cache paths nest and never collide (`CachePathsNest`). A loaded store is every certificate of its directory, in order (`LoadedStoreIsWholeDirectory`). It is the x509 store asked for, under the root the lookup chose, with the asked Name and Prefix (`StoreIsTheOneAsked`). About 17k states. |
| `truststore_invariant` | `TrustStoreLoader_store.cfg` | violation | Two files, one holding a CA certificate that is not self-signed and one a self-signed certificate that is not a CA, load as one store (the trace TLC finds). Spec 3 says a store of two or more certificates holds only CAs, but the code checks that rule per file. |
| `verify_churn` | `VerifyChurn.cfg` | pass | Other clients push and delete signatures without end, with up to 3 referrers at once, under offset and cursor paging, page sizes 1-2 and `MaxSignatureAttempts` 1-2. Every `Verify` returns (`Termination`, under weak fairness of the verifier). The aggregated failure is returned only when no listed signature went unexamined (`NothingUnexamined`). Under cursor paging no signature is fetched twice, and the aggregated failure comes only after every signature that was in the registry for the whole call was fetched (`CursorWalkIsExact`; the history variable `stable` holds those signatures). About 80k states. |

Each property of a passing run has a mutant in `PROJECT.json`. A mutant is a
plausible bug in the modelled code that the property catches:

* the page-count check off by one;
* the attempt limit off by one;
* no early return on success;
* a fetch that keeps the first of several blobs;
* an overwritable annotation key;
* a thumbprint missing or overwritten by the plugin;
* an unsupported key spec accepted;
* the config loops in the wrong order;
* the EKU checked on the last certificate;
* an empty certificate file accepted;
* a skipped legacy entry that ends its page (`return nil` for `continue`);
* the union trust-store lookup without its `x509` segment;
* the two digests of a cached signature's path swapped;
* a store's Prefix taken as `filepath.Base(path)` without `filepath.Dir`;
* a failed signature left with `return nil` instead of `continue` (line 638),
  which ends the page;
* the check after the callback's loop missing (line 649). Under a cursor
  that other clients keep feeding, the pager then never stops, and with any
  registry a walk cut at the limit reports the aggregated failure.

### Why the bounds are enough

* **Referrers.** Up to 3 referrers with page sizes 1 and 2 put the attempt
  limit before, at and after a page boundary, and put a last page that is full
  next to one that is not.
* **Attempt limit.** `MaxSignatureAttempts` 1-3 is below, equal to and above
  the number of referrers.
* **Signature manifests.** Each malformed manifest breaks exactly one contract
  rule and carries a valid envelope, so a missed check would make it verify.
  The oversized, two-blob and blob-less manifests are OCI artifact manifests,
  and one valid signature is an ORAS artifact manifest, which the adapter
  refuses. Two more ORAS manifests, one oversized and one blob-less, give the
  legacy client an error and a skip next to manifests of the types it skips.
* **Sign flow.** The sign run uses 2 metadata keys and 1 reserved key, which is
  enough for both visiting orders and for a key colliding with an existing
  annotation. It also covers nil and non-nil caller maps, plugin annotations
  that are nil, harmless or a forged thumbprint, and chains of length 1 and 2.

* **Plugin signer.** Two key IDs, two supported key specs and one
  unsupported, and two supported response algorithms and one unsupported.
  Chains have up to two certificates, over two keys, with and without the EKU,
  parsing or not. That is enough for a mismatch at each check, for an EKU on
  the second certificate only, and for a signature by the wrong key or over the
  wrong input. The per-request config adds a key, overrides one, or is empty.
* **Trust store loader.** The store path exists as a directory, a file, a
  symlink or an unreadable directory, or is missing or denied. Up to two entries with up to two certificates each.
  That covers a bad entry after a good one, an empty file next to a full one,
  and the two-file store of the violation.
* **Path manager.** Six tracked paths: the user-level and system-level
  `config.json`, `trustpolicy.json` and one trust store. Each can be in any of
  the three states, which gives every combination of the two levels. The cache
  paths are untracked (missing), so the cache lookups take the not-exist
  branch. Three digests share an algorithm or an encoded value pairwise,
  enough to tell a swap of the two digests apart.
* **Registry churn.** Six signatures, one per outcome plus a second failing
  one. Three at once let a page of two be followed by another, and let a push
  land before, inside or after the pager's position. With one or two
  attempts, the limit falls inside and at the end of a page. A write can
  happen before every page request, and writes can go on without end, so
  TLC's lasso search covers an unbounded stream of pushes and deletes.

### Fairness

The flows are sequential calls: each step is a statement of one goroutine, and
the only nondeterminism is in inputs and in the results of calls. Runs that
reach `"done"` stutter there by `Done`.

`VerifyChurn` adds `FairSpec == Spec /\ WF_vars(Verifier)`. `Verifier` is the
disjunction of the verify goroutine's steps. Weak fairness is justified
because one goroutine runs the call and each registry request returns, with an
answer or an error once the context's deadline passes. A verify step that stays
enabled is therefore taken. The other clients get no fairness: they may stop,
or push and delete forever. `Termination` holds under this assumption alone.

## Not modelled, and why

* **The fuzz harness in `part_000`.** It is test code.
* **`Resolve` of either client.** It is a read that wraps one oras call. The
  flows take its result as an input: it succeeds or fails.
* **The legacy client's blob reads.** `GetBlob` and the blob store are left
  out: no property reads a blob back, and an envelope blob a failed `Pack`
  leaves behind is referred to by no manifest, so no listing sees it.
* **The verifier and the trust policy.** They are not in `src/`, and the
  spec gives them no code to translate. The flows read only the class of a
  verifier's outcome, which they take as data (below).
* **Envelope encoding, certificate parsing and cryptography.** An envelope is a
  record of its subject and chain, and a thumbprint is a tag of its certificate.
  These are injective abstractions, which is what the properties distinguish.
* **Registry churn in `VerifyFlow`.** `VerifyFlow` reads a fixed referrers
  list. `VerifyChurn` covers other clients, at the level of signature
  outcomes.
* **Repeated and skipped signatures under offset paging.** The callback keeps
  no set of seen digests and relies on the pager. Under offset paging,
  `VerifyChurn` reaches two states. In one, a push ahead of the pager's
  position makes the signature that ended one page come again on the next,
  where it is fetched and counted a second time. In the other, a delete ahead
  of the position makes a signature present for the whole call never be
  delivered. `CursorWalkIsExact` states that neither happens under cursor
  paging; the same statement for offset paging fails. Neither the referrers
  API nor spec 5 promises anything about pages under concurrent writes, so
  the offset case is listed as a hazard and not as a finding.

* **Which level wins when the store changes during the lookup.**
  `TrustStoreAtPath` reaches a user-level store created between the union
  lookup and `LoadX509TrustStore`'s `os.Stat` (the system store is loaded),
  and a store removed in between (does-not-exist). Neither the code nor the
  spec promises a level under concurrent change, so this is a hazard
  without a property.
* **The verifier's checks themselves.** Chain building, timestamp and
  revocation checks are not in `src/`. The model keeps only which of them
  an envelope fails.
* **The verifier inside the walks.** `VerifyFlow` and `VerifyChurn` take each
  signature's verdict as data (`verdict`, `Kind`). The callback reads only
  its class: no error, a `userMetadataVerificationFailed` error, another
  error with an outcome, or a nil outcome (lines 626-647). Every class is
  an input, so each is reached whatever the verifier does.
* **`PluginSigner` inside `SignFlow`.** `jws.PluginSigner.Sign` returns
  envelope bytes, while `notation.Sign` calls a `Signer` that returns a
  signature and its `SignerInfo`. The two are different interfaces of
  different versions, so no code path connects them.
