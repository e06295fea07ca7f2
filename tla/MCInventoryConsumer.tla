------------------------- MODULE MCInventoryConsumer -------------------------
(***************************************************************************)
(* Small instances of InventoryConsumer: the messages and the logs the     *)
(* configurations choose from.                                             *)
(***************************************************************************)
EXTENDS InventoryConsumer

CONSTANTS p1, p2

ReportMsg == [operation |-> "ReportResource", version |-> "v1beta2",
              value |-> "body", key |-> "id",
              transaction |-> TRUE, refused |-> FALSE]

DeleteMsg        == [ReportMsg EXCEPT !.operation = "DeleteResource"]
RefusedMsg       == [ReportMsg EXCEPT !.refused = TRUE]
UnknownOperation == [ReportMsg EXCEPT !.operation = "other"]
NullReport       == [ReportMsg EXCEPT !.value = "null"]
HostReport       == [ReportMsg EXCEPT !.operation = "migration"]
HostTombstone    == [HostReport EXCEPT !.value = "null"]
HostNoGroups     == [HostReport EXCEPT !.value = "nogroups"]

\* A compacted partition with every kind of message that is finished, and one
\* at its end whose body panics the parser; a partition blocked by bad headers.
SingleLog ==
    [p \in {p1, p2} |->
        IF p = p1
        THEN [o \in {0, 1, 2, 4, 5} |->
                CASE o = 0 -> ReportMsg
                  [] o = 1 -> HostNoGroups
                  [] o = 2 -> HostTombstone
                  [] o = 4 -> DeleteMsg
                  [] o = 5 -> NullReport]
        ELSE [o \in 0..2 |-> IF o = 1 THEN UnknownOperation ELSE HostReport]]

\* One partition that moves between replicas.
GroupLog == [p \in {p1} |-> [o \in 0..2 |-> IF o = 1 THEN DeleteMsg ELSE ReportMsg]]

\* Messages that all can be processed, in a partition that moves between
\* replicas: a report with a transaction id, a host that was deleted and one
\* that is passed over, and another report with a transaction id.  Each of the
\* requests may be repeated or come late, after a newer one.
LiveLog ==
    [p \in {p1} |-> [o \in 0..3 |->
        CASE o = 0 -> ReportMsg
          [] o = 1 -> HostTombstone
          [] o = 2 -> HostNoGroups
          [] o = 3 -> ReportMsg]]

\* A request Inventory refuses, between two it takes.
PoisonLog == [p \in {p1} |-> [o \in 0..2 |-> IF o = 1 THEN RefusedMsg ELSE ReportMsg]]

\* A message of each way a message is counted.
MetricsLog ==
    [p \in {p1} |-> [o \in 0..3 |->
        CASE o = 0 -> ReportMsg
          [] o = 1 -> HostNoGroups
          [] o = 2 -> DeleteMsg
          [] o = 3 -> NullReport]]

=============================================================================
