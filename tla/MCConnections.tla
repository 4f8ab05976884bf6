--------------------------- MODULE MCConnections ---------------------------
(* Credentials of the small instances of Connections that TLC checks: a few *)
(* fields of ClickHouseCredentials, TrinoCredentials, DatasetSinkCredentials. *)
EXTENDS Connections

ClickHouse == [required |-> {"user", "password"}, default |-> [table |-> "llogr_events"]]
Trino == [required |-> {"user", "catalog"}, default |-> [password |-> "", table |-> "events"]]
DatasetSink == [required |-> {}, default |-> [api_token |-> ""]]
AnyCredentials == <<ClickHouse, Trino, DatasetSink>>

Whole == [user |-> "u", password |-> "p", table |-> "t"]
NewPassword == [user |-> "u", password |-> "q"]
\* What the dialog sends when the password is not typed in again.
Edited == [user |-> "v", password |-> "", table |-> "t"]
Catalog == [user |-> "u", catalog |-> "c", password |-> ""]
\* What setTimestampField of the browser page sends.
TimeField == [timestamp_column |-> "ts"]
Sent == {NewPassword, Edited, Catalog, TimeField}
Created == {Whole, Catalog}

TimestampColumn == {"timestamp_column"}
=============================================================================
