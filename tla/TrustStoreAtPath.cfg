\* The ca store "acme" loaded from the union path while other processes
\* change the configuration files at both levels.
CONSTANTS
  UserConfig <- MCUserConfig
  SystemConfig <- MCSystemConfig
  CacheRoots <- MCCacheRoots
  Paths <- MCPaths
  StorePrefixes = {"ca", "signingAuthority"}
  Stores = {"acme"}
  Digests <- MCDigests
  Kinds <- MCKinds
  Entries <- MCEntries
  MaxFiles = 2

SPECIFICATION Spec
VIEW View

INVARIANTS
  UnionPrefersUser
  CachePathsNest
  LoadedStoreIsWholeDirectory
  StoreIsTheOneAsked
