--------------------------- MODULE VerifyAbstract ---------------------------
(***************************************************************************)
(* What a verify call promises (spec.md sections 4.1, 4.7, 5 and 7), in     *)
(* one step: the signatures are considered in the order the referrers API   *)
(* delivers them, at most maxAttempts of them; the first one that verifies  *)
(* wins; a signature whose manifest or blob breaks the repository contract  *)
(* (size limits, exactly one blob, a manifest media type, content present)  *)
(* or on which the verifier gives no outcome is fatal; otherwise the call   *)
(* fails: with errExceededMaxVerificationLimit when MaxSignatureAttempts    *)
(* referrers were considered (the code's boundary at part_001 line 649,     *)
(* which the verify_usermetadata run sets against spec 4.7), else with      *)
(* the user-metadata failure if one was seen, else with the plain one.      *)
(* A request for a page of referrers may fail once the signatures before    *)
(* it decided nothing.                                                      *)
(* A call may also be rejected or skipped before any signature is           *)
(* considered; that decision depends on inputs this module does not see.   *)
(***************************************************************************)
EXTENDS Integers, Sequences

CONSTANTS MaxBlobSizeLimit, MaxManifestSizeLimit

VARIABLES
  referrers,    \* the signature manifests of the artifact, in API order
  maxAttempts,  \* MaxSignatureAttempts
  status,       \* "pending" or the class of the answer
  chosen        \* index of the signature the answer is about, 0 if none

vars == <<referrers, maxAttempts, status, chosen>>

\* Section 4.1: the repository contract a fetched signature must meet.
Readable(m) ==
  /\ m.mediaType \in {"artifact", "image"}
  /\ m.size <= MaxManifestSizeLimit
  /\ Len(m.layers) = 1
  /\ m.layers[1].size <= MaxBlobSizeLimit
  /\ m.layers[1].present

\* A signature that ends the search: it verifies, or it cannot be processed.
Decisive(m) == ~Readable(m) \/ m.layers[1].verdict \in {"valid", "nilOutcome"}

Considered == 1 .. IF maxAttempts < Len(referrers) THEN maxAttempts
                                                   ELSE Len(referrers)

FirstDecisive ==
  IF \E i \in Considered : Decisive(referrers[i])
  THEN CHOOSE i \in Considered : Decisive(referrers[i])
                                 /\ \A j \in 1 .. i - 1 : ~Decisive(referrers[j])
  ELSE 0

\* No signature decided: the kind of aggregated failure.
Failure ==
  CASE Len(referrers) >= maxAttempts -> "exceeded"
    [] \E i \in Considered : referrers[i].layers[1].verdict = "metaMismatch"
         -> "userMetadataFailed"
    [] OTHER -> "failed"

Answer ==
  LET d == FirstDecisive IN
  IF Len(referrers) = 0 THEN [status |-> "notFound", chosen |-> 0]
  ELSE IF d = 0 THEN [status |-> Failure, chosen |-> 0]
  ELSE IF Readable(referrers[d]) /\ referrers[d].layers[1].verdict = "valid"
       THEN [status |-> "verified", chosen |-> d]
       ELSE [status |-> "aborted", chosen |-> d]

Init ==
  /\ status = "pending"
  /\ chosen = 0

Decide ==
  /\ status = "pending"
  /\ status' = Answer.status
  /\ chosen' = Answer.chosen
  /\ UNCHANGED <<referrers, maxAttempts>>

\* Rejected by input validation, or skipped by the trust policy.
Refuse ==
  /\ status = "pending"
  /\ status' \in {"rejected", "skipped"}
  /\ UNCHANGED <<referrers, maxAttempts, chosen>>

\* A page request fails after k signatures that decided nothing: before
\* the first page, or before a later one while the limit is not reached.
ListingFails ==
  /\ status = "pending"
  /\ \E k \in 0 .. Len(referrers) :
       /\ k < maxAttempts
       /\ k = 0 \/ k < Len(referrers)
       /\ \A j \in 1 .. k : ~Decisive(referrers[j])
       /\ status' = "listingFailed"
       /\ chosen' = k
  /\ UNCHANGED <<referrers, maxAttempts>>

Next == Decide \/ Refuse \/ ListingFails

Spec == Init /\ [][Next]_vars

=============================================================================
