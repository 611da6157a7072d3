------------------------- MODULE MCTrustStoreLoader -------------------------
(***************************************************************************)
(* Model-checking instance of TrustStoreLoader: every path state, and      *)
(* directories of up to two entries, each a subdirectory, a symlink, an    *)
(* unreadable file, or a regular file of zero to two certificates of every *)
(* kind (self-signed or not, CA or not).                                   *)
(***************************************************************************)
EXTENDS TrustStoreLoader

MCPathStates ==
  {"missing", "lstatError", "notDirectory", "symlink", "unreadable", "directory"}

MCEntries ==
  {[kind |-> k, certs |-> <<>>] : k \in {"dir", "symlink", "unreadable"}}
  \cup {[kind |-> "regular", certs |-> cs] : cs \in BoundedSeq(Cert, 2)}

=============================================================================
