-------------------------- MODULE MCMonitoringLoop --------------------------
\* Constants for TLC: configurations of one database.
EXTENDS MonitoringLoop, TLC

DB(metrics, standby, onlyIfMaster) ==
  [Metrics |-> metrics, MetricsStandby |-> standby, OnlyIfMaster |-> onlyIfMaster]

\* An interval, another one, an alternative for a standby, master only.
Slow    == DB("a" :> 2, NoMetrics, FALSE)
Fast    == DB("a" :> 1, NoMetrics, FALSE)
Off     == DB("a" :> 0, NoMetrics, FALSE)
Standby == DB("a" :> 2, "a" :> 1, FALSE)
Both    == DB("a" :> 2, "a" :> 1 @@ "b" :> 1, FALSE)
Master  == DB("a" :> 1, NoMetrics, TRUE)
Reco    == DB("reco_x" :> 3 @@ "recommendations" :> 2, NoMetrics, FALSE)

\* Those that gather only metric a.
MCSmall == {Slow, Fast, Off, Standby, Master}

MCDatabases == {Slow, Fast, Off, Standby, Master, Reco}

MCWithBoth == MCDatabases \cup {Both}

NoDatabase == [h \in {} |-> Slow]

\* One database, h1.
OneSafety   == {"h1" :> Off, "h1" :> Standby, "h1" :> Master, "h1" :> Reco, NoDatabase}
OneConverge == {"h1" :> Slow, "h1" :> Fast, "h1" :> Master, NoDatabase}
OneZero     == {"h1" :> Off}
OneStandby  == {"h1" :> Both}
=============================================================================
