----------------------------- MODULE MCSignFlow -----------------------------
(***************************************************************************)
(* Model-checking instance of SignFlow: three user-metadata keys, one of   *)
(* them with the reserved prefix, two values, two chains.                  *)
(***************************************************************************)
EXTENDS SignFlow

MCReservedKeys == {"io.cncf.notary.k"}
MetadataKeys == MCReservedKeys \cup {"a", "b"}
Values == {"v1", "v2"}
MCChains == {<<"leaf">>, <<"leaf", "root">>}
MCSecond == 1000000000

\* Partial maps from a key set to Values.
Maps(keys) == UNION {[ks -> Values] : ks \in SUBSET keys}

Request(mode, expiry, ref, repoNil, resolves, um, ann, callerNil, annotating, pa) ==
  [mode |-> mode, expiry |-> expiry, reference |-> ref, repoNil |-> repoNil,
   resolves |-> resolves, userMetadata |-> um, callerAnn |-> ann,
   callerNil |-> callerNil, annotating |-> annotating, pluginAnnotations |-> pa]

\* Plugin annotations: none, a forged thumbprint annotation, another one.
PluginAnnotationMaps ==
  {NoMap, ThumbprintKey :> ThumbprintsJSON(<<"forged">>), "p" :> "v1"}

\* Every user-metadata map against every descriptor annotation map.
MetadataRequests ==
  { Request(mode, 0, "digest", FALSE, TRUE, um, ann, nl, ap[1], ap[2]) :
      mode \in {"remote", "local"}, um \in Maps(MetadataKeys),
      ann \in Maps({"a", "b"}), nl \in BOOLEAN,
      ap \in {<<FALSE, NoMap>>} \cup ({TRUE} \X PluginAnnotationMaps) }
  \cap { r \in [mode : {"remote", "local"}, expiry : {0}, reference : {"digest"},
                repoNil : {FALSE}, resolves : {TRUE},
                userMetadata : Maps(MetadataKeys), callerAnn : Maps({"a", "b"}),
                callerNil : BOOLEAN, annotating : BOOLEAN,
                pluginAnnotations : PluginAnnotationMaps] :
           r.callerNil => r.callerAnn = NoMap }

\* Every input check, with one user-metadata entry.
InputRequests ==
  { Request(mode, ex, ref, rn, rs, "a" :> "v1", NoMap, TRUE, FALSE, NoMap) :
      mode \in {"remote", "local"},
      ex \in {-MCSecond, 0, MCSecond \div 2, MCSecond},
      ref \in {"digest", "tag", "unparsable", "noReference"},
      rn \in BOOLEAN, rs \in BOOLEAN }

MCRequests == MetadataRequests \cup InputRequests

=============================================================================
