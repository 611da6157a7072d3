---------------------------- MODULE PathManager ----------------------------
(***************************************************************************)
(* dir.PathManager (src/dir/path.go): the paths of notation's files.  A    *)
(* getter either joins a fixed level's root with the file's relative path  *)
(* (SystemLevel, UserLevel) or asks a union file system for it             *)
(* (UnionLevel), where the user level has priority over the system level   *)
(* (lines 44-46); checkError panics on any error but "does not exist".     *)
(*                                                                         *)
(* A path is the sequence of its segments (filepath.Join concatenates      *)
(* them).  The file system maps the paths that matter to "exists",         *)
(* "missing", or "denied" (os.Stat fails with another error than           *)
(* ErrNotExist); other processes create, remove and lock files at any      *)
(* time, and each getter reads the file system as it is when called.      *)
(***************************************************************************)
EXTENDS Integers, Sequences, SequencesExt

CONSTANTS
  UserConfig,    \* userConfig, the user level's configuration root
  SystemConfig,  \* systemConfig, the system level's configuration root
  CacheRoots,    \* the roots of CacheFS, highest priority first
  Paths          \* the paths whose state the model tracks

VARIABLE fs      \* the state of each tracked path

\* Lines 11-37: file and directory names.
ConfigFile == "config.json"
LocalCertificateExtension == ".crt"
LocalKeyExtension == ".key"
LocalKeysDir == "localkeys"
SignatureExtension == ".sig"
SignatureStoreDirName == "signatures"
SigningKeysFile == "signingkeys.json"
TrustPolicyFile == "trustpolicy.json"
TrustStoreDir == "truststore"

\* Lines 43-54: the directory levels.
UnionLevel == 0
SystemLevel == 1
UserLevel == 2

\* The roots of ConfigFS: the user level, then the system level.
ConfigRoots == <<UserConfig, SystemConfig>>

Status(p) == IF p \in DOMAIN fs THEN fs[p] ELSE "missing"

(***************************************************************************)
(* UnionDirFS.GetPath: the path under the first root at which it exists;   *)
(* a stat error stops the search; if no root has it, the path under the    *)
(* first root, with ErrNotExist, as the place to create it (line 65).      *)
(***************************************************************************)
GetPath(roots, elems) ==
  LET at(i) == roots[i] \o elems
      found == {i \in DOMAIN roots : Status(at(i)) # "missing"}
  IN  IF found = {} THEN [path |-> at(1), err |-> "NotExist"]
      ELSE IF Status(at(Min(found))) = "exists"
           THEN [path |-> at(Min(found)), err |-> "none"]
           ELSE [path |-> <<>>, err |-> "Stat"]

\* The outcome of a getter that panicked.
Panic == <<"panic">>

\* checkError, lines 64-69, applied to GetPath's result.
CheckError(r) == IF r.err \in {"none", "NotExist"} THEN r.path ELSE Panic

\* A getter of a file under the configuration roots (Config, TrustPolicy,
\* X509TrustStore): the union lookup or the join under one level's root.
\* A level outside the three leaves the path empty.
ByLevel(dirLevel, elems) ==
  CASE dirLevel = UnionLevel  -> CheckError(GetPath(ConfigRoots, elems))
    [] dirLevel = SystemLevel -> SystemConfig \o elems
    [] dirLevel = UserLevel   -> UserConfig \o elems
    [] OTHER                  -> <<>>

\* Lines 72-89.
Config(dirLevel) == ByLevel(dirLevel, <<ConfigFile>>)

\* Lines 93-97.
Localkey(name) ==
  [keyPath  |-> UserConfig \o <<LocalKeysDir, name \o LocalKeyExtension>>,
   certPath |-> UserConfig \o <<LocalKeysDir, name \o LocalCertificateExtension>>]

\* Lines 100-102.
SigningKeyConfig == UserConfig \o <<SigningKeysFile>>

\* Lines 105-122.
TrustPolicy(dirLevel) == ByLevel(dirLevel, <<TrustPolicyFile>>)

\* Mutant: the union branch leaves out the "x509" segment.
X509TrustStoreNoType(dirLevel, prefix, namedStore) ==
  IF dirLevel = UnionLevel
  THEN CheckError(GetPath(ConfigRoots, <<TrustStoreDir, prefix, namedStore>>))
  ELSE ByLevel(dirLevel, <<TrustStoreDir, "x509", prefix, namedStore>>)

\* Lines 126-143.
X509TrustStore(dirLevel, prefix, namedStore) ==
  ByLevel(dirLevel, <<TrustStoreDir, "x509", prefix, namedStore>>)

\* digest.Digest: its algorithm and encoded value.
DigestSegments(d) == <<d.alg, d.encoded>>

\* Mutant: the signature's digest comes before the manifest's.
CachedSignatureSwapped(manifestDigest, signatureDigest) ==
  CheckError(GetPath(CacheRoots,
    <<SignatureStoreDirName, signatureDigest.alg,
      signatureDigest.encoded \o SignatureExtension>>
    \o DigestSegments(manifestDigest)))

\* Lines 146-156.
CachedSignature(manifestDigest, signatureDigest) ==
  CheckError(GetPath(CacheRoots,
    <<SignatureStoreDirName>> \o DigestSegments(manifestDigest)
    \o <<signatureDigest.alg, signatureDigest.encoded \o SignatureExtension>>))

\* Lines 159-167.
CachedSignatureRoot(manifestDigest) ==
  CheckError(GetPath(CacheRoots,
    <<SignatureStoreDirName>> \o DigestSegments(manifestDigest)))

\* Lines 170-174.
CachedSignatureStoreDirPath ==
  CheckError(GetPath(CacheRoots, <<SignatureStoreDirName>>))

Init == fs \in [Paths -> {"exists", "missing", "denied"}]

\* Another process creates, removes, or changes the permissions of a file.
Change ==
  \E p \in Paths, s \in {"exists", "missing", "denied"} :
    /\ fs[p] # s
    /\ fs' = [fs EXCEPT ![p] = s]

Spec == Init /\ [][Change]_fs

-----------------------------------------------------------------------------
(***************************************************************************)
(* Properties, over the trust store prefixes, store names and digests the  *)
(* model instance gives.                                                   *)
(***************************************************************************)
CONSTANTS StorePrefixes, Stores, Digests

\* Each configuration getter as <<union, user level, system level>>.
Getters ==
  {<<Config(UnionLevel), Config(UserLevel), Config(SystemLevel)>>,
   <<TrustPolicy(UnionLevel), TrustPolicy(UserLevel), TrustPolicy(SystemLevel)>>}
  \cup {<<X509TrustStore(UnionLevel, p, n), X509TrustStore(UserLevel, p, n),
          X509TrustStore(SystemLevel, p, n)>> : p \in StorePrefixes, n \in Stores}

\* Lines 44-46 and 65: in every state of the file system, the union path
\* of config.json, trustpolicy.json and every named trust store is the
\* user-level path or the system-level path of the same file (or the
\* getter panics); it is the user-level one whenever that exists, and the
\* system-level one only when that exists and the user-level one does not.
UnionPrefersUser ==
  \A g \in Getters :
    LET r == g[1]  u == g[2]  sys == g[3] IN
    /\ r \in {u, sys, Panic}
    /\ Status(u) = "exists" => r = u
    /\ r = sys /\ r # u => Status(sys) = "exists" /\ Status(u) = "missing"

\* The signature cache: a signature's file lies under the root of its
\* manifest, which lies under the store directory, and two different
\* (manifest, signature) pairs never share a file.
CachePathsNest ==
  \A m, m2, sg, sg2 \in Digests :
    /\ IsPrefix(CachedSignatureStoreDirPath, CachedSignatureRoot(m))
    /\ IsPrefix(CachedSignatureRoot(m), CachedSignature(m, sg))
    /\ CachedSignature(m, sg) = CachedSignature(m2, sg2) => m = m2 /\ sg = sg2

=============================================================================
