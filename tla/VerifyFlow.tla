----------------------------- MODULE VerifyFlow -----------------------------
(***************************************************************************)
(* notation.Verify and notation.VerifyLocalContent (src/unnamed/part_001): *)
(* the input checks, the skip check, and the walk over the signature       *)
(* manifests that repo.ListSignatures delivers page by page to a callback, *)
(* with the MaxSignatureAttempts bound, the early stop on the first        *)
(* signature that verifies and the choice of the error returned.           *)
(*                                                                         *)
(* The repository is a snapshot: the referrers of the artifact and the     *)
(* page size the registry uses.  The verifier is a function of the         *)
(* envelope (its verdict, see Repository).  One step per iteration of the  *)
(* callback's loop; the two flows share the loop and differ in the order   *)
(* of their input checks (req.mode).                                       *)
(***************************************************************************)
EXTENDS Repository, SequencesExt

CONSTANTS
  Requests,            \* the option sets a caller may pass
  SignatureManifests,  \* the signature manifests a registry may hold
  MaxReferrers,        \* bound on the number of referrers of the artifact
  PageSizes            \* page sizes of the referrers API

VARIABLES
  req,         \* the call: mode ("remote" = Verify, "local" = VerifyLocalContent) and options
  referrers,   \* the signature manifests of the artifact, in the API's order
  pageSize,    \* referrers per page
  pc,          \* "start", "callback", "pageEnd", "finish" or "done"
  page,        \* the page the callback is processing
  processed,   \* numOfSignatureProcessed
  outcomes,    \* verificationOutcomes: indices into referrers
  failedErr,   \* verificationFailedErr
  cbErr,       \* the error the callback returned to ListSignatures
  fetched,     \* history: the referrers passed to FetchSignatureBlob, in order
  result       \* what the call returned

vars == <<req, referrers, pageSize, pc, page, processed, outcomes, failedErr,
          cbErr, fetched, result>>

\* Error kinds, named after the Go error types or their origin.
Errors == {"Generic",                       \* errors.New in the flows
           "SkipVerify",                    \* error of SkipVerify
           "Resolve",                       \* error of repo.Resolve (local)
           "SignatureRetrievalFailed",      \* ErrorSignatureRetrievalFailed
           "VerificationFailed",            \* ErrorVerificationFailed{}
           "ExceededMaxVerificationLimit",  \* errExceededMaxVerificationLimit
           "UserMetadataVerificationFailed",
           "Verifier",                      \* error with a nil outcome
           "Referrers"}                     \* a page request of ListSignatures

\* The skip outcome carries no signature: it is index 0.
SkipOutcome == 0

Return(err, outs, desc) == [err |-> err, outcomes |-> outs, desc |-> desc]
Pending == Return("pending", <<>>, "empty")

MaxAttempts == req.maxAttempts

(***************************************************************************)
(* Pages of the referrers API: page p holds the referrers                  *)
(* (p-1)*pageSize+1 .. p*pageSize.  An artifact without referrers still    *)
(* gets one (empty) page.                                                  *)
(***************************************************************************)
PageLast(p) == IF p * pageSize < Len(referrers) THEN p * pageSize
                                                ELSE Len(referrers)
LastPage == IF referrers = <<>> THEN 1
            ELSE (Len(referrers) + pageSize - 1) \div pageSize

(***************************************************************************)
(* The checks before the referrers are listed, in the order each flow      *)
(* makes them; the first that fires decides the result.                    *)
(***************************************************************************)
Check(fires, res) == [fires |-> fires, res |-> res]

SkipChecks ==
  << Check(req.skip = "error", Return("SkipVerify", <<>>, "empty")),
     Check(req.skip = "skip", Return("none", <<SkipOutcome>>, "empty")) >>

RemoteChecks ==
  << Check(~req.repoRemote, Return("Generic", <<>>, "empty")) >>
  \o SkipChecks \o
  << Check(MaxAttempts <= 0, Return("SignatureRetrievalFailed", <<>>, "empty")),
     Check(req.reference \in {"unparsable", "noReference"},
           Return("SignatureRetrievalFailed", <<>>, "empty")),
     Check(~req.resolves, Return("SignatureRetrievalFailed", <<>>, "empty")) >>

LocalChecks ==
  << Check(~req.targetAtLocal, Return("Generic", <<>>, "empty")),
     Check(MaxAttempts <= 0, Return("SignatureRetrievalFailed", <<>>, "empty")),
     Check(req.repoRemote, Return("Generic", <<>>, "empty")),
     Check(~req.resolves, Return("Resolve", <<>>, "empty")) >>
  \o SkipChecks

Checks == IF req.mode = "remote" THEN RemoteChecks ELSE LocalChecks

Init ==
  /\ req \in Requests
  /\ referrers \in BoundedSeq(SignatureManifests, MaxReferrers)
  /\ pageSize \in PageSizes
  /\ pc = "start"
  /\ page = 0
  /\ processed = 0
  /\ outcomes = <<>>
  /\ failedErr = "VerificationFailed"
  /\ cbErr = "none"
  /\ fetched = <<>>
  /\ result = Pending

(***************************************************************************)
(* ListSignatures (repository.go lines 36-40) requests page p of the       *)
(* referrers API: the page is delivered to the callback, or the request    *)
(* fails and ListSignatures returns its error, which Verify returns with   *)
(* no outcomes (lines 656-660 / 809-813).                                  *)
(***************************************************************************)
RequestPage(p) ==
  \/ /\ page' = p
     /\ pc' = "callback"
     /\ UNCHANGED cbErr
  \/ /\ cbErr' = "Referrers"
     /\ pc' = "finish"
     /\ UNCHANGED page

\* Lines 550-607 / 711-760: the input checks, then repo.ListSignatures
\* requests the first page.
Start ==
  LET i == SelectInSeq(Checks, LAMBDA c : c.fires) IN
  /\ pc = "start"
  /\ \/ /\ i # 0
        /\ result' = Checks[i].res
        /\ pc' = "done"
        /\ UNCHANGED <<page, cbErr>>
     \/ /\ i = 0
        /\ RequestPage(1)
        /\ UNCHANGED result
  /\ UNCHANGED <<req, referrers, pageSize, processed, outcomes, failedErr,
                 fetched>>

\* Line 611: the loop goes on while fewer than MaxSignatureAttempts
\* signatures have been processed.
\* Mutant: one signature more.
WithinAttemptsOffByOne == processed <= MaxAttempts

WithinAttempts == processed < MaxAttempts

\* Lines 640-646: a verified signature is kept and the callback returns
\* errDoneVerification, which stops the pager.
\* Mutant: the loop goes on (continue in place of the return).
VerifiedContinue(idx) ==
  /\ outcomes' = Append(outcomes, idx)
  /\ UNCHANGED <<pc, cbErr>>

Verified(idx) ==
  /\ outcomes' = Append(outcomes, idx)
  /\ cbErr' = "done"
  /\ pc' = "finish"

\* Lines 610-647: one iteration of the callback's loop over the page.
ProcessSignature ==
  LET idx == processed + 1
      f   == FetchSignatureBlob(referrers[idx])
  IN
  /\ pc = "callback"
  /\ idx <= PageLast(page)
  /\ WithinAttempts
  /\ processed' = idx
  /\ fetched' = Append(fetched, idx)
  /\ \/ /\ ~f.ok
        /\ cbErr' = "SignatureRetrievalFailed"
        /\ pc' = "finish"
        /\ UNCHANGED <<outcomes, failedErr>>
     \/ /\ f.ok
        /\ f.blob.verdict = "nilOutcome"
        /\ cbErr' = "Verifier"
        /\ pc' = "finish"
        /\ UNCHANGED <<outcomes, failedErr>>
     \/ /\ f.ok
        /\ f.blob.verdict = "invalid"
        /\ UNCHANGED <<pc, cbErr, outcomes, failedErr>>
     \/ /\ f.ok
        /\ f.blob.verdict = "metaMismatch"
        /\ failedErr' = "UserMetadataVerificationFailed"
        /\ UNCHANGED <<pc, cbErr, outcomes>>
     \/ /\ f.ok
        /\ f.blob.verdict = "valid"
        /\ Verified(idx)
        /\ UNCHANGED failedErr
  /\ UNCHANGED <<req, referrers, pageSize, page, result>>

\* Lines 610-612: the loop ends with the page, or breaks at the limit.
EndLoop ==
  /\ pc = "callback"
  /\ \/ processed + 1 > PageLast(page)
     \/ /\ processed + 1 <= PageLast(page)
        /\ ~WithinAttempts
  /\ pc' = "pageEnd"
  /\ UNCHANGED <<req, referrers, pageSize, page, processed, outcomes,
                 failedErr, cbErr, fetched, result>>

\* The pager (repository.go line 39): another page follows this one.
\* Mutant: one page past the last.
MorePagesOffByOne == page <= LastPage

MorePages == page < LastPage

\* Lines 649-653, and the pager: stop at the limit, else the next page.
EndPage ==
  /\ pc = "pageEnd"
  /\ \/ /\ processed >= MaxAttempts
        /\ cbErr' = "ExceededMaxVerificationLimit"
        /\ pc' = "finish"
        /\ UNCHANGED page
     \/ /\ processed < MaxAttempts
        /\ MorePages
        /\ RequestPage(page + 1)
     \/ /\ processed < MaxAttempts
        /\ ~MorePages
        /\ pc' = "finish"
        /\ UNCHANGED <<page, cbErr>>
  /\ UNCHANGED <<req, referrers, pageSize, processed, outcomes, failedErr,
                 fetched, result>>

\* Lines 656-675 / 809-828: the result of the call.
Finish ==
  /\ pc = "finish"
  /\ result' =
       CASE cbErr = "ExceededMaxVerificationLimit" ->
              Return(cbErr, outcomes, "empty")
         [] cbErr \notin {"none", "done"} -> Return(cbErr, <<>>, "empty")
         [] processed = 0 -> Return("SignatureRetrievalFailed", <<>>, "empty")
         [] outcomes = <<>> -> Return(failedErr, outcomes, "empty")
         [] OTHER -> Return("none", outcomes, "target")
  /\ pc' = "done"
  /\ UNCHANGED <<req, referrers, pageSize, page, processed, outcomes,
                 failedErr, cbErr, fetched>>

Done ==
  /\ pc = "done"
  /\ UNCHANGED vars

Next ==
  \/ Start
  \/ ProcessSignature
  \/ EndLoop
  \/ EndPage
  \/ Finish
  \/ Done

Spec == Init /\ [][Next]_vars

\* The legacy client of part_001 over the same registry.
Legacy == INSTANCE LegacyRepository

-----------------------------------------------------------------------------
(***************************************************************************)
(* Properties                                                              *)
(***************************************************************************)

TypeOK ==
  /\ referrers \in Seq(SignatureManifests)
  /\ pc \in {"start", "callback", "pageEnd", "finish", "done"}
  /\ processed \in 0 .. Len(referrers)
  /\ page \in 0 .. LastPage
  /\ outcomes \in Seq(1 .. Len(referrers))
  /\ failedErr \in {"VerificationFailed", "UserMetadataVerificationFailed"}
  /\ cbErr \in Errors \cup {"none", "done"}
  /\ fetched \in Seq(1 .. Len(referrers))
  /\ result.err \in Errors \cup {"none", "pending"}

Verdict(i) == referrers[i].layers[1].verdict

\* Spec 8.7: across all pages, no more than MaxSignatureAttempts signature
\* blobs are fetched (the break at line 611 and the check at line 649).
AttemptsBounded == Len(fetched) <= MaxAttempts \/ fetched = <<>>

\* Spec 8.8 and section 5: a successful Verify returns exactly one outcome,
\* for the last signature it fetched; the signatures were fetched in the
\* API's order, each earlier one was fetched and failed verification with
\* an outcome, and nothing after the verified one was fetched.
FirstSuccessWins ==
  (pc = "done" /\ result.err = "none" /\ result.outcomes # <<SkipOutcome>>)
    => /\ fetched = [j \in 1 .. Len(fetched) |-> j]
       /\ result.outcomes = <<Len(fetched)>>
       /\ Verdict(Len(fetched)) = "valid"
       /\ \A j \in 1 .. Len(fetched) - 1 :
            Verdict(j) \in {"invalid", "metaMismatch"}

\* The verify flows implement the abstract promise of VerifyAbstract: the
\* answer is decided by the first decisive signature among the first
\* MaxSignatureAttempts referrers, whatever the page size of the registry;
\* without one, the kind of failure is decided by the number of referrers
\* and the user-metadata failures among them; a failed page request ends
\* the call only after signatures that decided nothing.
Class(r) ==
  CASE r.err = "pending" -> "pending"
    [] r.err = "none" /\ r.outcomes = <<SkipOutcome>> -> "skipped"
    [] r.err = "none" -> "verified"
    [] r.err = "VerificationFailed" -> "failed"
    [] r.err = "UserMetadataVerificationFailed" -> "userMetadataFailed"
    [] r.err = "ExceededMaxVerificationLimit" -> "exceeded"
    [] r.err = "Referrers" -> "listingFailed"
    [] fetched = <<>> /\ r.err = "SignatureRetrievalFailed" /\ pc = "done"
         /\ processed = 0 /\ page # 0 -> "notFound"
    [] fetched # <<>> -> "aborted"
    [] OTHER -> "rejected"

Chosen ==
  IF result.outcomes # <<>> /\ result.outcomes # <<SkipOutcome>>
  THEN result.outcomes[1]
  ELSE IF Class(result) \in {"aborted", "listingFailed"} THEN Len(fetched)
  ELSE 0

Abs == INSTANCE VerifyAbstract
         WITH maxAttempts <- MaxAttempts,
              status <- Class(result),
              chosen <- Chosen

AbsSpec == Abs!Spec

\* Code comment at line 530 and spec 4.7: MaxSignatureAttempts <= 0 makes
\* Verify and VerifyLocalContent return an error.
MaxAttemptsValidated ==
  (pc = "done" /\ result.err = "none") => MaxAttempts > 0

\* Spec 4.7 and 7: when no signature verifies, the flow fails with the
\* aggregated failure, and with ErrorUserMetadataVerificationFailed when a
\* signature failed the user-metadata check.
PrefersUserMetadataError ==
  (/\ pc = "done"
   /\ Class(result) \in {"failed", "userMetadataFailed", "exceeded"}
   /\ \E j \in 1 .. Len(fetched) : Verdict(fetched[j]) = "metaMismatch")
    => result.err = "UserMetadataVerificationFailed"

\* Both registry clients read the same referrers: whatever page size the
\* registry uses, the legacy ListSignatureManifests returns the first blob
\* of every artifact manifest that has blobs, in the API's order, or fails;
\* its callback's shared result does not depend on the cut of the pages.
LegacyListIsPageIndependent == Legacy!ListIsPageIndependent(referrers, pageSize)

\* The legacy client writes what it reads: a signature the legacy
\* PutSignatureManifest pushes to this artifact's referrers, with any of
\* the envelope blobs above, is in every listing of the legacy
\* ListSignatureManifests that succeeds afterwards, whatever the page size.
\* It is about the registry, which does not change during a call: it is
\* stated at the start of the calls of one request.
OneRequest == CHOOSE r \in Requests : TRUE

LegacyPutIsListed ==
  pc = "start" /\ req = OneRequest =>
    \A b \in {m.layers[1] : m \in {x \in SignatureManifests : x.layers # <<>>}} :
      Legacy!PutIsListed(referrers, pageSize, b)

=============================================================================
