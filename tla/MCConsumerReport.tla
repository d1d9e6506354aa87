--------------------------- MODULE MCConsumerReport ---------------------------
(* A small instance of ConsumerReport for TLC. *)
EXTENDS ConsumerReport

Consumer(id, adapter) ==
  [consumerId |-> id, adapter |-> adapter, legacy |-> FALSE, enabled |-> TRUE, endpoint |-> TRUE,
   context |-> TRUE, severities |-> {}, findingTypes |-> {}, evidenceTypes |-> {}]

Cra(enabled) ==
  [enabled |-> enabled, endpoint |-> TRUE, assessment |-> TRUE, severities |-> {"high"}, findingTypes |-> {}]

\* CRA reporting of its own, a consumer that wants all, one that wants little;
\* CRA as a consumer, without an assessment, and an adapter nobody installed;
\* CRA reporting that is misconfigured, or takes nothing; one disabled consumer, and one
\* that has the name of CRA reporting and another adapter.
TheConfigs ==
  {[cra |-> Cra(TRUE), consumers |-> <<Consumer("cyber", "cyber"), [Consumer("fleet", "cyber") EXCEPT !.evidenceTypes = {"sbom"}]>>],
   [cra |-> Cra(TRUE), consumers |-> <<[Consumer("cra", "cra") EXCEPT !.context = FALSE], Consumer("siem", "siem"), [Consumer("cyber", "cyber") EXCEPT !.findingTypes = {"secret"}]>>],
   [cra |-> [Cra(TRUE) EXCEPT !.assessment = FALSE], consumers |-> <<[Consumer("cyber", "cyber") EXCEPT !.context = FALSE], [Consumer("cra", "cra") EXCEPT !.enabled = FALSE], Consumer("fleet", "cyber")>>],
   [cra |-> [Cra(TRUE) EXCEPT !.severities = {}], consumers |-> <<Consumer("cra", "cyber"), [Consumer("cyber", "cyber") EXCEPT !.endpoint = FALSE]>>]}

Finding(id, severity, type, waived, evidence) ==
  [id |-> id, severity |-> severity, type |-> type, waived |-> waived, evidence |-> evidence]

TheReports ==
  {<<Finding("f1", "high", "secret", TRUE, {"scan"}), Finding("f2", "low", "dependency", FALSE, {"sbom"})>>,
   <<Finding("f1", "low", "secret", FALSE, {"scan", "sbom"}), Finding("f3", "high", "dependency", FALSE, {})>>}
=============================================================================
