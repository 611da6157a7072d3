------------------------- MODULE MCTrustStoreAtPath -------------------------
(***************************************************************************)
(* Model-checking instance of TrustStoreAtPath: the directory layout of    *)
(* MCPathManager (config.json, trustpolicy.json and the ca store "acme" at *)
(* the user and system levels) and the directories of MCTrustStoreLoader   *)
(* (up to two entries of every kind).                                      *)
(***************************************************************************)
EXTENDS TrustStoreAtPath

MCUserConfig   == <<"home", "notation">>
MCSystemConfig == <<"etc", "notation">>
MCCacheRoots   == <<<<"cache", "notation">>>>

MCPaths ==
  {r \o e : r \in {MCUserConfig, MCSystemConfig},
            e \in {<<"config.json">>, <<"trustpolicy.json">>,
                   <<"truststore", "x509", "ca", "acme">>}}

MCDigests ==
  {[alg |-> "sha256", encoded |-> "aa"], [alg |-> "sha256", encoded |-> "bb"],
   [alg |-> "sha512", encoded |-> "aa"]}

MCKinds == {"directory", "notDirectory", "symlink", "unreadable"}

MCEntries ==
  {[kind |-> k, certs |-> <<>>] : k \in {"dir", "symlink", "unreadable"}}
  \cup {[kind |-> "regular", certs |-> cs] : cs \in BoundedSeq([selfSigned : BOOLEAN, isCA : BOOLEAN], 2)}

=============================================================================
