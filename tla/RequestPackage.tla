---------------------------- MODULE RequestPackage ----------------------------
(***************************************************************************)
(* The request package of A-SCOPE (ascope_bridge/request_package.py): a    *)
(* manifest and one CSV of stocks per batch.  All batches are validated    *)
(* before the rows of one are returned.  Which error is raised makes no    *)
(* difference: the command stops and has written nothing.                  *)
(*                                                                         *)
(* A package is [kind, manifests, manifest, batches]: batches maps a batch *)
(* number to its rows, of which a ZIP or a directory may hold several CSVs *)
(* (copies).  The identity of a package stands for its SHA-256.            *)
(***************************************************************************)
EXTENDS Integers, Sequences, FiniteSets

Exchanges == {"SSE", "SZSE", "BSE"}
RequestStatuses == {"PENDING", "RETRY", "FAILED_RETRYABLE"}

\* _read_zip and _read_directory.
Readable(package) ==
    /\ package.kind \in {"zip", "directory"}
    /\ package.manifests = 1
    /\ \A b \in DOMAIN package.batches : package.batches[b].copies = 1

\* _manifest.
ManifestValid(manifest) == manifest.complete /\ manifest.status = "READY"

\* The checks of _rows on one line; name is blank, ST, bank or plain.
RowValid(row, batch, manifest) ==
    /\ row.batch = batch
    /\ row.exchange \in Exchanges
    /\ row.security.exchange = row.exchange
    /\ row.name \notin {"blank", "ST"}
    /\ row.through = manifest.through
    /\ row.annual <= row.through /\ row.quarterly <= row.through
    /\ row.required_available_at
    /\ row.status \in RequestStatuses

BatchValid(rows, batch, manifest) ==
    /\ rows # <<>>
    /\ Len(rows) <= manifest.batch_size
    /\ \A i \in DOMAIN rows : RowValid(rows[i], batch, manifest)

\* _validate_full_package: the batches are the ones announced, hold the number of
\* stocks announced, and no stock twice.
PackageValid(package) ==
    LET manifest == package.manifest
        rows(b) == package.batches[b].rows
        places == UNION {{<<b, i>> : i \in DOMAIN rows(b)} : b \in DOMAIN package.batches}
        security(p) == rows(p[1])[p[2]].security
    IN  /\ DOMAIN package.batches = 1..manifest.batch_count
        /\ \A b \in DOMAIN package.batches : BatchValid(rows(b), b, manifest)
        /\ Cardinality(places) = manifest.standard_request_count
        /\ \A p, q \in places : security(p) = security(q) => p = q

\* resolve_request_package succeeds, and the rows it returns: the first smoke of
\* them, or all.
Resolvable(package, batch, cutoff) ==
    /\ Readable(package)
    /\ ManifestValid(package.manifest)
    /\ package.manifest.through = cutoff
    /\ PackageValid(package)
    /\ batch \in DOMAIN package.batches
Resolved(package, batch, smoke) ==
    LET rows == package.batches[batch].rows
    IN  IF smoke = 0 THEN rows ELSE SubSeq(rows, 1, IF smoke < Len(rows) THEN smoke ELSE Len(rows))
=============================================================================
