------------------------------ MODULE Messages ------------------------------
(***************************************************************************)
(* The events the consumer reads from a Kafka topic, and what it decides   *)
(* to do with one before any request leaves the process: header            *)
(* validation, body parsing and the migration transforms, which are pure   *)
(* functions of the message.                                               *)
(*                                                                         *)
(* A message keeps only what the code branches on:                         *)
(*   operation  the "operation" header; "other" is missing or unknown      *)
(*   version    the "version" header; "other" is missing or unknown        *)
(*   value      "empty"     no bytes, or white space only                  *)
(*              "null"      the JSON literal null                          *)
(*              "malformed" not JSON, or JSON of the wrong shape           *)
(*              "nogroups"  a host payload whose group list is empty       *)
(*              "body"      a well-formed body                             *)
(*   key        "id": the key carries a resource id; "noid": it does not   *)
(*   transaction  the payload carries a transaction id                     *)
(*   refused    Inventory answers every request built from it with an      *)
(*              error (validation, permissions): a property of the         *)
(*              service, not of the consumer                               *)
(***************************************************************************)

ValidOperations  == {"ReportResource", "DeleteResource", "migration"}
ValidApiVersions == {"v1beta2"}

Message == [operation : ValidOperations \union {"other"},
            version   : ValidApiVersions \union {"other"},
            value     : {"empty", "null", "malformed", "nogroups", "body"},
            key       : {"id", "noid"},
            transaction : BOOLEAN,
            refused   : BOOLEAN]

\* What the loop does with a message it has just polled.
Disposition == {"reject",   \* an error: Consume leaves its loop
                "skip",     \* nil: the offset is stored, nothing is sent
                "report",   \* Retry(ReportResource)
                "delete"}   \* Retry(DeleteResource) with the NotFound handler

(***************************************************************************)
(* ParseHeaders succeeds iff both required headers have an allowed value;  *)
(* every other header is ignored.                                          *)
(***************************************************************************)
ParseHeaders(m) ==
    /\ m.operation \in ValidOperations
    /\ m.version \in ValidApiVersions

\* Mutant: only an absent value is a tombstone.
IsHostDeleted_NoValue(m) == m.value = "empty"

\* A Debezium tombstone.
IsHostDeleted(m) == m.value \in {"empty", "null"}

\* The transforms succeed iff they find what they need.
TransformHostToDeleteResourceRequest(m) == m.key = "id"
TransformHostToReportResourceRequest(m) == m.value = "body"

(***************************************************************************)
(* ParseCreateOrUpdateMessage and ParseDeleteMessage take any JSON object. *)
(* An empty value is an Unmarshal error, and null leaves the payload       *)
(* pointer nil, whose dereference panics; safeProcessMessage turns the     *)
(* panic into an error, so both count as failures.                         *)
(***************************************************************************)
ParsePayload(m) == m.value \in {"nogroups", "body"}

\* Mutant: the transaction id is not passed on.
IdempotencyKey_Never(m) == FALSE

\* setTransactionIdAsIdempotencyKey: the request carries the transaction id,
\* which lets Inventory ignore a report it has carried out before.  Deletes
\* and requests made by the migration transforms never carry one.
IdempotencyKey(m) == m.operation = "ReportResource" /\ m.transaction

\* A migration message the client cannot use is skipped, never an error.
MigrationDisposition(m, enabled) ==
    IF enabled /\ IsHostDeleted(m) /\ TransformHostToDeleteResourceRequest(m)
    THEN "delete"
    ELSE IF enabled /\ ~IsHostDeleted(m) /\ TransformHostToReportResourceRequest(m)
    THEN "report"
    ELSE "skip"

\* Report and delete messages are parsed even when the client is disabled.
RequestDisposition(m, enabled) ==
    IF ~ParsePayload(m)
    THEN "reject"
    ELSE IF ~enabled
    THEN "skip"
    ELSE IF m.operation = "ReportResource" THEN "report" ELSE "delete"

\* Mutant: a message with bad headers is dropped.
ProcessMessage_DropsBadHeaders(m, enabled) ==
    IF ~ParseHeaders(m)
    THEN "skip"
    ELSE IF m.operation = "migration"
    THEN MigrationDisposition(m, enabled)
    ELSE RequestDisposition(m, enabled)

ProcessMessage(m, enabled) ==
    IF ~ParseHeaders(m)
    THEN "reject"
    ELSE IF m.operation = "migration"
    THEN MigrationDisposition(m, enabled)
    ELSE RequestDisposition(m, enabled)

=============================================================================
