-------------------------- MODULE MCMetricsStorage --------------------------
\* Constants for TLC: messages of one, two and no datapoints.
EXTENDS MetricsStorage

MCDatapoints == [m \in 1 .. MaxItems |-> m % 3]
=============================================================================
