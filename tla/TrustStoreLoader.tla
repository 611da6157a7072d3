-------------------------- MODULE TrustStoreLoader --------------------------
(***************************************************************************)
(* verification.LoadX509TrustStore and validateCerts                       *)
(* (src/registry/repository.go): a named trust store is read from a        *)
(* directory, one certificate file at a time, in the order os.ReadDir      *)
(* returns the entries.  Each file is validated on its own and its         *)
(* certificates appended to the store; the first bad entry aborts the load.*)
(*                                                                         *)
(* A certificate is abstracted to whether it is self-signed and whether    *)
(* it is a CA (BasicConstraints CA=true).  A directory entry is a regular  *)
(* file holding the certificates corex509.ReadCertificateFile parses from  *)
(* it, a subdirectory, a symlink, or a file that cannot be read.           *)
(***************************************************************************)
EXTENDS Integers, Sequences, SequencesExt

CONSTANTS
  PathStates,  \* what os.Stat, os.Lstat and os.ReadDir make of the path
  Entries,     \* directory entries a trust store directory may hold
  MaxFiles     \* most entries in the directory

VARIABLES
  path,     \* the state of the path given to the loader
  files,    \* the entries os.ReadDir returned, in its order
  next,     \* index of the next entry the loop reads
  store,    \* trustStore.Certificates
  pc,       \* "open", "loop", "done"
  result    \* "pending", "ok", or the error

vars == <<path, files, next, store, pc, result>>

Cert == [selfSigned : BOOLEAN, isCA : BOOLEAN]

\* Line 354: the range loop starts at the first entry.

FirstEntry == 1

Init ==
  /\ path \in PathStates
  /\ files = <<>>
  /\ next = FirstEntry
  /\ store = <<>>
  /\ pc = "open"
  /\ result = "pending"

\* Lines 333-351: the path must exist, be a directory and not a symlink,
\* and be readable; the first check that fails decides the error.
\* os.ReadDir then reads the entries the directory holds at that moment.
Open ==
  /\ pc = "open"
  /\ result' = CASE path = "missing"   -> "NotExist"
                 [] path = "lstatError" -> "Lstat"
                 [] path \in {"notDirectory", "symlink"} -> "NotRegularDirectory"
                 [] path = "unreadable" -> "ReadDir"
                 [] OTHER -> "pending"
  /\ pc' = IF result' = "pending" THEN "loop" ELSE "done"
  /\ files' \in IF result' = "pending" THEN BoundedSeq(Entries, MaxFiles)
                                       ELSE {<<>>}
  /\ UNCHANGED <<path, next, store>>

(***************************************************************************)
(* validateCerts, lines 382-405: a file yields at least one certificate;   *)
(* a single certificate is self-signed or a CA; several are all CAs.       *)
(***************************************************************************)
\* Mutant: the check that a file yields a certificate is missing.
ValidateCertsAllowEmpty(certs) ==
  \/ Len(certs) = 0
  \/ Len(certs) = 1 /\ (certs[1].selfSigned \/ certs[1].isCA)
  \/ Len(certs) > 1 /\ \A i \in DOMAIN certs : certs[i].isCA

ValidateCerts(certs) ==
  \/ Len(certs) = 1 /\ (certs[1].selfSigned \/ certs[1].isCA)
  \/ Len(certs) > 1 /\ \A i \in DOMAIN certs : certs[i].isCA

\* Lines 354-369: one iteration of the loop over the directory entries.
LoadFile ==
  /\ pc = "loop"
  /\ next <= Len(files)
  /\ LET f == files[next] IN
     \/ /\ f.kind \in {"dir", "symlink"}
        /\ result' = "NotRegularFile"
        /\ pc' = "done"
        /\ UNCHANGED <<next, store>>
     \/ /\ f.kind = "unreadable"
        /\ result' = "ReadCertificateFile"
        /\ pc' = "done"
        /\ UNCHANGED <<next, store>>
     \/ /\ f.kind = "regular"
        /\ ~ValidateCerts(f.certs)
        /\ result' = "InvalidCerts"
        /\ pc' = "done"
        /\ UNCHANGED <<next, store>>
     \/ /\ f.kind = "regular"
        /\ ValidateCerts(f.certs)
        /\ store' = store \o f.certs
        /\ next' = next + 1
        /\ UNCHANGED <<pc, result>>
  /\ UNCHANGED <<path, files>>

\* Lines 371-379: after the last entry, an empty store is an error.
Finish ==
  /\ pc = "loop"
  /\ next > Len(files)
  /\ result' = IF Len(store) < 1 THEN "NoCertificates" ELSE "ok"
  /\ pc' = "done"
  /\ UNCHANGED <<path, files, next, store>>

Done ==
  /\ pc = "done"
  /\ UNCHANGED vars

Next == Open \/ LoadFile \/ Finish \/ Done

Spec == Init /\ [][Next]_vars

-----------------------------------------------------------------------------
(***************************************************************************)
(* Properties                                                              *)
(***************************************************************************)

\* Spec 4.4: a store the loader returns holds every certificate of every
\* entry of the directory, in directory order, and each entry is a regular
\* file from which at least one certificate was parsed.
LoadedStoreIsWholeDirectory ==
  (pc = "done" /\ result = "ok") =>
    /\ \A i \in DOMAIN files : files[i].kind = "regular" /\ files[i].certs # <<>>
    /\ store = FlattenSeq([i \in DOMAIN files |-> files[i].certs])
    /\ store # <<>>

\* Spec 3 and 4.4: a loaded store with exactly one certificate holds a
\* self-signed or CA certificate, and one with two or more holds only CA
\* certificates.
StoreInvariant ==
  (pc = "done" /\ result = "ok") =>
    IF Len(store) = 1 THEN store[1].selfSigned \/ store[1].isCA
    ELSE \A i \in DOMAIN store : store[i].isCA

=============================================================================
