-------------------------- MODULE MCFlowStatistics --------------------------
\* FlowStatistics with the constants of the .cfg file.
EXTENDS FlowStatistics
=============================================================================
