CONSTANTS
  KeyID = "mine"
  PluginKeyIDs = {"mine", "other"}
  KeySpecs <- MCKeySpecs
  SignatureAlgorithm <- MCSignatureAlgorithm
  ResponseAlgorithms <- MCResponseAlgorithms
  JWS <- MCJWS
  Keys = {k1, k2}
  BaseConfig <- MCBaseConfig
  Requests <- MCRequests
  MaxChain = 2

SPECIFICATION Spec

INVARIANTS
  EnvelopeAlgorithmConsistent
