-------------------------- MODULE TrustStoreAtPath --------------------------
(***************************************************************************)
(* A named trust store loaded from the path the directory layout gives:    *)
(* PathManager.X509TrustStore(UnionLevel, prefix, name) (src/dir/path.go,  *)
(* lines 126-143) names the directory, and LoadX509TrustStore              *)
(* (src/registry/repository.go, lines 332-380) loads it.  The two calls    *)
(* read the file system separately, and other processes change it at any   *)
(* time: between the union lookup and the loader's os.Stat the store may   *)
(* appear at the user level or vanish.  Once os.ReadDir has read the       *)
(* entries, the loop works on that list (file contents are abstracted into *)
(* the entries), so no change after it is seen.                            *)
(***************************************************************************)
EXTENDS Integers, Sequences, SequencesExt

CONSTANTS
  UserConfig, SystemConfig, CacheRoots, Paths, StorePrefixes, Stores, Digests,
  Entries, MaxFiles,
  Kinds          \* what an existing path is: a directory, a file, a symlink...

VARIABLES
  fs,         \* PathManager: the state of each tracked path
  named,      \* the store asked for: <<prefix, name>>
  storePath,  \* the path the union lookup returned, or NoPath before it
  kind,       \* what the existing storePath is when the loader stats it
  files, next, store, pc, result   \* TrustStoreLoader

vars == <<fs, named, storePath, kind, files, next, store, pc, result>>
loader == <<files, next, store, pc, result>>

NoPath == <<>>

PM == INSTANCE PathManager

\* What os.Stat and os.Lstat find at storePath now.
PathState ==
  CASE PM!Status(storePath) = "exists"  -> kind
    [] PM!Status(storePath) = "missing" -> "missing"
    [] OTHER                            -> "lstatError"

Loader == INSTANCE TrustStoreLoader WITH path <- PathState,
                                         PathStates <- Kinds \cup {"missing", "lstatError"}

Init ==
  /\ PM!Init
  /\ named \in StorePrefixes \X Stores
  /\ storePath = NoPath
  /\ kind \in Kinds
  /\ files = <<>> /\ next = Loader!FirstEntry /\ store = <<>>
  /\ pc = "open" /\ result = "pending"

\* X509TrustStore(UnionLevel, ...): the union lookup; checkError panics on
\* a stat error other than ErrNotExist.
Resolve ==
  /\ pc = "open"
  /\ storePath = NoPath
  /\ LET p == PM!X509TrustStore(PM!UnionLevel, named[1], named[2]) IN
     IF p = PM!Panic
     THEN result' = "panic" /\ pc' = "done" /\ UNCHANGED storePath
     ELSE storePath' = p /\ UNCHANGED <<pc, result>>
  /\ UNCHANGED <<fs, named, kind, files, next, store>>

\* Another process creates, removes or locks a file before os.ReadDir.
Change ==
  /\ pc = "open"
  /\ PM!Change
  /\ UNCHANGED <<named, storePath, kind>>
  /\ UNCHANGED loader

\* LoadX509TrustStore on the resolved path.
Load ==
  /\ storePath # NoPath
  /\ UNCHANGED <<fs, named, storePath, kind>>
  /\ Loader!Next

\* A call that panicked or returned.
Done ==
  /\ pc = "done"
  /\ UNCHANGED vars

Next == Resolve \/ Change \/ Load \/ Done

Spec == Init /\ [][Next]_vars

\* After os.ReadDir nothing reads the file system: states that differ only
\* in paths other than the resolved one behave alike from there on.
View ==
  IF pc = "open" THEN vars
  ELSE <<PathState, named, storePath, loader>>

-----------------------------------------------------------------------------
(***************************************************************************)
(* Properties                                                              *)
(***************************************************************************)

\* PathManager's properties, in every state of the file system the
\* composition reaches (see PathManager).
UnionPrefersUser == PM!UnionPrefersUser

CachePathsNest == PM!CachePathsNest

\* TrustStoreLoader's property of the store it returns.
LoadedStoreIsWholeDirectory == Loader!LoadedStoreIsWholeDirectory

StoreInvariant == Loader!StoreInvariant

\* Lines 375-377: filepath.Base of the path and of its parent.
StoreName(p) == p[Len(p)]

\* Mutant: the prefix is taken as filepath.Base(path), without filepath.Dir.
StorePrefixNoDir(p) == p[Len(p)]

StorePrefix(p) == p[Len(p) - 1]

\* A store that loads is the x509 store the caller asked for, under the
\* user or the system configuration root, whichever the union lookup
\* found, and its Name and Prefix, read back from the path, are the name
\* and prefix asked for.
StoreIsTheOneAsked ==
  result = "ok" =>
    /\ \E root \in {UserConfig, SystemConfig} :
         storePath = root \o <<PM!TrustStoreDir, "x509">> \o named
    /\ <<StorePrefix(storePath), StoreName(storePath)>> = named

=============================================================================
