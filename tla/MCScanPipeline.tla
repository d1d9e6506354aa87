--------------------------- MODULE MCScanPipeline ---------------------------
(* Small instances of ScanPipeline for TLC. *)
EXTENDS ScanPipeline

Run(command, setup, service) == [command |-> command, setup |-> setup, service |-> service]
FourWays ==
  {Run("scan", {}, FALSE), Run("scan", {}, TRUE), Run("scan", {"consumers"}, FALSE),
   Run("compliance-publish", {"consumers"}, FALSE)}

\* Once an execution for one service has moved the cache the properties about
\* incremental executions say nothing any more.
NotLimited == ~ limited
=============================================================================
