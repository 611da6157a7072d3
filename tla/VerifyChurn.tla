---------------------------- MODULE VerifyChurn -----------------------------
(***************************************************************************)
(* The walk of notation.Verify over the signatures (src/unnamed/part_001,  *)
(* the callback of lines 608-653) composed with the registry that serves   *)
(* the referrers API page by page (repositoryClient.ListSignatures, which  *)
(* hands the callback to oras's Referrers) and with other clients that     *)
(* push and delete signatures of the same artifact while Verify runs.      *)
(*                                                                         *)
(* VerifyFlow reads a snapshot of the registry; here each page request     *)
(* sees the registry as it is then.  A page is one HTTP response, so a     *)
(* write that lands while the callback works on a page is seen by the next *)
(* request only: writes are placed between page requests (pc = "fetch").   *)
(* A registry pages by offset (the next page starts after as many items as *)
(* were delivered) or by cursor (after the last item delivered), and keeps *)
(* the referrers in its own order: a push lands at any position.           *)
(*                                                                         *)
(* A signature is a model value; Kind gives what fetching and verifying it *)
(* yields (the composition of FetchSignatureBlob and the verifier that     *)
(* VerifyFlow checks in detail).                                           *)
(***************************************************************************)
EXTENDS Integers, Sequences, SequencesExt

CONSTANTS
  Sigs,          \* signature manifests (their digests)
  Kind,          \* Sigs -> {"valid", "invalid", "metaMismatch", "fetchError", "nilOutcome"}
  PagingModes,   \* subset of {"offset", "cursor"}
  PageSizes,     \* page sizes of the registry
  AttemptLimits, \* values of RemoteVerifyOptions.MaxSignatureAttempts (> 0)
  MaxReferrers   \* bound on the referrers the registry holds at once

VARIABLES
  mode, pageSize, maxAttempts,  \* the registry's paging and the caller's limit
  reg,         \* the referrers of the artifact, in the registry's order
  offset,      \* how many items of reg lie before the pager's position
  page,        \* the page delivered to the callback
  pos,         \* the callback loop's position in page
  hasNext,     \* the page's Link header names a next page
  processed,   \* numOfSignatureProcessed
  outcomes,    \* verificationOutcomes: the verified signatures
  failedErr,   \* verificationFailedErr
  cbErr,       \* what the callback returned
  fetched,     \* history: the signatures fetched, in order
  unexamined,  \* history: a delivered signature was left unfetched
  stable,      \* history: the signatures in the registry since the call began
  pc,          \* "fetch", "callback", "finish", "done"
  result       \* the error Verify returned, or "none"

vars == <<mode, pageSize, maxAttempts, reg, offset, page, pos, hasNext,
          processed, outcomes, failedErr, cbErr, fetched, unexamined, stable,
          pc, result>>

Init ==
  /\ mode \in PagingModes
  /\ pageSize \in PageSizes
  /\ maxAttempts \in AttemptLimits
  /\ reg \in {s \in BoundedSeq(Sigs, MaxReferrers) : IsInjective(s)}
  /\ offset = 0
  /\ page = <<>>
  /\ pos = 1
  /\ hasNext = FALSE
  /\ processed = 0
  /\ outcomes = <<>>
  /\ failedErr = "VerificationFailed"
  /\ cbErr = "none"
  /\ fetched = <<>>
  /\ unexamined = FALSE
  /\ stable = ToSet(reg)
  /\ pc = "fetch"
  /\ result = "pending"

Walk == <<processed, outcomes, failedErr, fetched>>

(***************************************************************************)
(* ListSignatures (repository.go lines 36-40): the pager requests the page *)
(* after its position and calls the callback with it; a failed request     *)
(* ends ListSignatures with its error, which Verify returns (line 658).    *)
(***************************************************************************)
FetchPage ==
  /\ pc = "fetch"
  /\ \/ LET last == IF offset + pageSize < Len(reg) THEN offset + pageSize
                                                   ELSE Len(reg)
        IN  /\ page' = SubSeq(reg, offset + 1, last)
            /\ offset' = last
            /\ hasNext' = (last < Len(reg))
            /\ pos' = 1
            /\ pc' = "callback"
            /\ UNCHANGED result
     \/ /\ result' = "Referrers"
        /\ pc' = "done"
        /\ UNCHANGED <<offset, page, pos, hasNext>>
  /\ UNCHANGED <<mode, pageSize, maxAttempts, reg, cbErr, unexamined, stable>>
  /\ UNCHANGED Walk

\* Line 611: the loop goes on while fewer than MaxSignatureAttempts
\* signatures have been processed.
\* Mutant: one signature more.
WithinAttemptsOffByOne == processed <= maxAttempts

WithinAttempts == processed < maxAttempts

\* Line 638: a signature that fails verification with an outcome is left
\* with continue, and the loop goes on with the next one of the page.
\* Mutant: it is left with return nil, which ends the page.
AfterFailedEndsPage(p) == Len(page) + 1

AfterFailed(p) == p + 1

\* Lines 610-647: one iteration of the loop over the page.
ProcessSignature ==
  LET s == page[pos] IN
  /\ pc = "callback"
  /\ pos <= Len(page)
  /\ WithinAttempts
  /\ processed' = processed + 1
  /\ fetched' = Append(fetched, s)
  /\ CASE Kind[s] = "fetchError" ->
            cbErr' = "SignatureRetrievalFailed" /\ pc' = "finish"
            /\ UNCHANGED <<pos, outcomes, failedErr>>
       [] Kind[s] = "nilOutcome" ->
            cbErr' = "Verifier" /\ pc' = "finish"
            /\ UNCHANGED <<pos, outcomes, failedErr>>
       [] Kind[s] = "invalid" ->
            pos' = AfterFailed(pos) /\ UNCHANGED <<pc, cbErr, outcomes, failedErr>>
       [] Kind[s] = "metaMismatch" ->
            pos' = AfterFailed(pos) /\ failedErr' = "UserMetadataVerificationFailed"
            /\ UNCHANGED <<pc, cbErr, outcomes>>
       [] Kind[s] = "valid" ->
            outcomes' = Append(outcomes, s) /\ cbErr' = "done" /\ pc' = "finish"
            /\ UNCHANGED <<pos, failedErr>>
  /\ UNCHANGED <<mode, pageSize, maxAttempts, reg, offset, page, hasNext,
                 unexamined, stable, result>>

\* Line 649: after the loop, the limit reached ends the walk.
\* Mutant: the check after the loop is missing (only the break of line 611).
ExceededCheckMissing == FALSE

ExceededCheck == processed >= maxAttempts

(***************************************************************************)
(* Lines 610-653: the loop ends with the page or breaks at the limit; the  *)
(* callback returns errExceededMaxVerificationLimit or nil, and on nil the *)
(* pager requests the next page if the Link header names one.             *)
(***************************************************************************)
EndPage ==
  /\ pc = "callback"
  /\ pos > Len(page) \/ ~WithinAttempts
  /\ unexamined' = (unexamined \/ pos <= Len(page))
  /\ \/ /\ ExceededCheck
        /\ cbErr' = "ExceededMaxVerificationLimit"
        /\ pc' = "finish"
     \/ /\ ~ExceededCheck
        /\ pc' = IF hasNext THEN "fetch" ELSE "finish"
        /\ UNCHANGED cbErr
  /\ UNCHANGED <<mode, pageSize, maxAttempts, reg, offset, page, pos, hasNext,
                 stable, result>>
  /\ UNCHANGED Walk

\* Lines 656-675: the result of the call.
Finish ==
  /\ pc = "finish"
  /\ result' = CASE cbErr \notin {"none", "done"} -> cbErr
                 [] processed = 0 -> "SignatureRetrievalFailed"
                 [] outcomes = <<>> -> failedErr
                 [] OTHER -> "none"
  /\ pc' = "done"
  /\ UNCHANGED <<mode, pageSize, maxAttempts, reg, offset, page, pos, hasNext,
                 cbErr, unexamined, stable>>
  /\ UNCHANGED Walk

Done ==
  /\ pc = "done"
  /\ UNCHANGED vars

(***************************************************************************)
(* Other clients, between two page requests.  PushSignature (repository.go *)
(* lines 63-78) makes a signature a referrer when its manifest lands; the  *)
(* registry files it at any position.  A pushed signature is one this walk *)
(* has not fetched (a new digest).                                         *)
(* Under a cursor the pager's position moves with the item it points at.   *)
(***************************************************************************)
Push ==
  /\ pc = "fetch"
  /\ Len(reg) < MaxReferrers
  /\ \E s \in Sigs \ (ToSet(reg) \cup ToSet(fetched)), i \in 1 .. Len(reg) + 1 :
       /\ reg' = InsertAt(reg, i, s)
       /\ offset' = IF mode = "cursor" /\ i <= offset THEN offset + 1 ELSE offset
  /\ UNCHANGED <<mode, pageSize, maxAttempts, page, pos, hasNext, cbErr,
                 unexamined, stable, pc, result>>
  /\ UNCHANGED Walk

\* Another client deletes a signature manifest.
Delete ==
  /\ pc = "fetch"
  /\ \E i \in 1 .. Len(reg) :
       /\ reg' = RemoveAt(reg, i)
       /\ offset' = IF mode = "cursor" /\ i <= offset THEN offset - 1 ELSE offset
       /\ stable' = stable \ {reg[i]}
  /\ UNCHANGED <<mode, pageSize, maxAttempts, page, pos, hasNext, cbErr,
                 unexamined, pc, result>>
  /\ UNCHANGED Walk

\* The goroutine running Verify.
Verifier == FetchPage \/ ProcessSignature \/ EndPage \/ Finish

Next == Verifier \/ Push \/ Delete \/ Done

Spec == Init /\ [][Next]_vars

(***************************************************************************)
(* Verify runs on one goroutine and every registry call returns, with an   *)
(* answer or an error (the context's deadline bounds it): the verifier is  *)
(* weakly fair.  The other clients need not be: they may stop, or push and *)
(* delete forever.                                                         *)
(***************************************************************************)
FairSpec == Spec /\ WF_vars(Verifier)

-----------------------------------------------------------------------------
(***************************************************************************)
(* Properties                                                              *)
(***************************************************************************)

TypeOK ==
  /\ reg \in Seq(Sigs) /\ Len(reg) <= MaxReferrers
  /\ page \in Seq(Sigs)
  /\ processed \in 0 .. maxAttempts
  /\ outcomes \in Seq(Sigs) /\ Len(outcomes) <= 1
  /\ pc \in {"fetch", "callback", "finish", "done"}

\* Spec 8, law 7: the walk halts after at most MaxSignatureAttempts fetches
\* even if more referrers exist; every Verify returns, even while other
\* clients keep pushing signatures behind the pager's position, because the
\* check after the loop (line 649) stops the pager at the limit.
Termination == <>(pc = "done")

\* Spec 4.7: Verify fails with the aggregated failure (VerificationFailed or
\* UserMetadataVerificationFailed) only when no signature the registry
\* listed to the callback was left unexamined; a walk cut short by the limit
\* at line 611 returns errExceededMaxVerificationLimit instead.
NothingUnexamined ==
  result \in {"VerificationFailed", "UserMetadataVerificationFailed"}
    => ~unexamined


(***************************************************************************)
(* The callback keeps no record of the digests it fetched: it relies on    *)
(* the pager to deliver each referrer once.  Under a registry that pages   *)
(* by cursor, whatever other clients push and delete between two pages,   *)
(* no signature is fetched twice, and a Verify that fails with the         *)
(* aggregated failure has fetched every signature that was in the          *)
(* registry for the whole call.  (Under offset paging neither holds: a     *)
(* push ahead of the pager repeats an item, a delete ahead of it skips     *)
(* one.)                                                                    *)
(***************************************************************************)
CursorWalkIsExact ==
  mode = "cursor" =>
    /\ IsInjective(fetched)
    /\ result \in {"VerificationFailed", "UserMetadataVerificationFailed"}
         => stable \subseteq ToSet(fetched)

=============================================================================
