---------------------------- MODULE MCScanEngine ----------------------------
(* A small instance of ScanEngine for TLC. *)
EXTENDS ScanEngine

CONSTANTS s1, s2, s3, x1, x2, src, org, own, web

ThePlugins == <<s1, s2>>
TheFindings == {[at |-> [ruleId |-> x1, path |-> src], severity |-> "high"],
                [at |-> [ruleId |-> x2], severity |-> "low"]}

TheConsumers ==
  {[id |-> own, adapter |-> "cyber", enabled |-> TRUE, requiredScanners |-> {s2}],
   [id |-> org, adapter |-> "other", enabled |-> TRUE, requiredScanners |-> {s3}],
   [id |-> web, adapter |-> "cra", enabled |-> FALSE, requiredScanners |-> {s3}]}

TheSettings == [timeout : BOOLEAN, opa : BOOLEAN]

TheMessages == {{}, {"coverage", "intelligence"}}

Nowhere == <<>>  \* no keys

TheConfig ==
  [failOn |-> <<"high">>, warnOn |-> <<"low">>,
   requiredScanners |-> <<s1>>, scannerFailureModes |-> Nowhere]
TheContext == [repository |-> own]

Doc(level, id, scope, from, until, enforces, lock) ==
  [level |-> level, id |-> id, scope |-> scope,
   from |-> from, until |-> until, enforces |-> enforces, lock |-> lock]

\* An organization that requires s1 and nothing else, and locks that.
Strict ==
  Doc(1, org, Nowhere, 0, Never,
      [requiredScanners |-> <<s1>>, failOn |-> <<"low", "high">>], {"requiredScanners", "scannerFailureModes"})
\* A repository that excuses a scanner, from time 1 on.
Lenient(s, scope) ==
  Doc(4, own, scope, 1, Never, [scannerFailureModes |-> (s :> "warn")], {})
\* A service's document, repeating the locked list or changing it.
Demanding(list) == Doc(5, own, Nowhere, 0, 1, [requiredScanners |-> list], {"failOn"})

TheDirectories ==
  { <<>>, <<Lenient(s1, Nowhere), Strict>>, <<Lenient(s2, TheContext)>>,
    <<Demanding(<<s1>>), Strict>>, <<Demanding(<<s3>>), Strict>>, <<Demanding(<<s3>>)>>,
    <<Strict, Lenient(s1, [repository |-> web])>>,
    <<Strict, Strict>>, <<[Strict EXCEPT !.lock = {"rules"}]>> }

Waiver(id, scope, expires, lacks) ==
  [id |-> id, scope |-> scope, expires |-> expires, lacks |-> lacks]
Rule(x) == [ruleId |-> x]

TheWaiverFiles ==
  { <<>>, <<Waiver(org, [path |-> src], 1, {}), Waiver(own, Rule(x1), 2, {"ticket"})>>,
    <<Waiver(org, Rule(x1), 2, {"approval"}), Waiver(own, [ruleId |-> x2, repository |-> own], 2, {})>>,
    <<Waiver(org, Rule(x2), 2, {}), Waiver(org, Rule(x1), 2, {})>>,
    <<Waiver(org, [ruleId |-> x1, service |-> web], 2, {}), Waiver(own, Rule(Blank), 1, {})>>,
    <<Waiver(org, [repository |-> own], 2, {})>> }
=============================================================================
