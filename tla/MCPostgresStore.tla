-------------------------- MODULE MCPostgresStore --------------------------
(***************************************************************************)
(* Two metrics of one database.                                            *)
(***************************************************************************)
EXTENDS PostgresStore

MCMetricOf == [k \in Keys |-> k]
MCDbnameOf == [k \in Keys |-> "db"]

\* Rows of one metric, of both, and of one at the turn of a period.
MCSingles == {{<<k, 0>>} : k \in Keys}
MCShapes == {{<<"a", 0>>}, Keys \X {0}, {"b_realtime"} \X {0, 1}}
=============================================================================
