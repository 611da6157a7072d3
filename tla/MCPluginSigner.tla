--------------------------- MODULE MCPluginSigner ---------------------------
(***************************************************************************)
(* Model-checking instance of PluginSigner: two key IDs, an RSA and an EC  *)
(* key spec and an unsupported one, the two matching signing algorithms    *)
(* and an unsupported one, two public keys, chains of up to two            *)
(* certificates, and a per-request config that adds to, overrides, or      *)
(* leaves alone the signer's config.                                       *)
(***************************************************************************)
EXTENDS PluginSigner

MCKeySpecs == {"RSA-2048", "EC-256", "EC-999"}
MCSignatureAlgorithm == ("RSA-2048" :> "PS256") @@ ("EC-256" :> "ES256")
                          @@ ("EC-999" :> "")
MCResponseAlgorithms == {"RSASSA-PSS-SHA-256", "ECDSA-SHA-256", "ED25519"}
MCJWS == ("RSASSA-PSS-SHA-256" :> "PS256") @@ ("ECDSA-SHA-256" :> "ES256")
           @@ ("ED25519" :> "")

MCBaseConfig == ("region" :> "eu") @@ ("tier" :> "hsm")

MCRequests ==
  [desc : {"d1", "d2"},
   pluginConfig : {NoMap, "region" :> "us", "extra" :> "1"},
   payloadValid : BOOLEAN]

=============================================================================
