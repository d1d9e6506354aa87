--------------------------- MODULE SupplyInventory ---------------------------
(***************************************************************************)
(* What the scanners make of a CycloneDX SBOM, of a list of Grype matches,  *)
(* of the lock files of the repository and of a database of advisories      *)
(* (src/src/scanners/supply-chain/adapters.ts, src/src/dependencies).  An   *)
(* SBOM is a record of edges, a function from references to sets of         *)
(* references, and items, a sequence of components.  In an SBOM and in      *)
(* matches a package is known by its purl, in lock files by its identity.   *)
(***************************************************************************)
EXTENDS Integers, Sequences, FiniteSets, SequencesExt, FiniteSetsExt

CONSTANTS
  Root,    \* bom-ref of the repository itself
  Absent   \* no such file, no such value

\* What a package is called, its ecosystem with its name in lower case, and its version.
Identity(item) == <<item.package, item.version>>

-----------------------------------------------------------------------------
(* The dependency graph.                                                   *)

\* A graph is available when the root has an entry of its own.
GraphAvailable(sbom) == Root \in DOMAIN sbom.edges
DirectRefs(sbom) == IF GraphAvailable(sbom) THEN sbom.edges[Root] ELSE {}

\* The worklist: a reference that is taken out adds its children.
ReachableRefs(sbom) ==
  LET Children(refs) == UNION {sbom.edges[r] : r \in refs \cap DOMAIN sbom.edges}
      rounds[n \in Nat] ==
        IF n = 0 THEN DirectRefs(sbom) ELSE rounds[n - 1] \cup Children(rounds[n - 1])
  IN  rounds[Cardinality(DOMAIN sbom.edges)]

relationshipFor(item, sbom) ==
  CASE item.ecosystem = "os" -> "os"
    [] item.ecosystem # "os" /\ item.ref \in DirectRefs(sbom) -> "direct"
    [] item.ecosystem # "os" /\ item.ref \in ReachableRefs(sbom) \ DirectRefs(sbom) -> "transitive"
    [] OTHER -> "unknown"

\* Mutant: packages of the system rank below transitive ones.
SystemRanksLast(relation) ==
  [direct |-> 4, os |-> 2, transitive |-> 3, unknown |-> 1][relation]

relationshipRank(relation) ==
  [direct |-> 4, os |-> 3, transitive |-> 2, unknown |-> 1][relation]

-----------------------------------------------------------------------------
(* Components.                                                             *)

\* Why a component cannot be normalised.
Reason(item) ==
  CASE item.purl = Absent -> "missing-purl"
    [] item.purl # Absent /\ item.version = Absent -> "missing-version"
    [] item.purl # Absent /\ item.version # Absent /\ item.ecosystem = "unsupported" -> "unsupported-ecosystem"
    [] OTHER -> "none"

\* A purl that is none makes the whole document invalid.
Malformed(sbom) ==
  \E i \in DOMAIN sbom.items :
    LET item == sbom.items[i] IN
    item.purl # Absent /\ item.version # Absent /\ item.ecosystem = "malformed"

\* What tells components apart that cannot be normalised.
UnresolvedKey(item) ==
  CASE Reason(item) = "missing-purl" -> <<"missing-purl", item.name, item.version>>
    [] Reason(item) = "missing-version" -> <<"missing-version", item.name, item.purl>>
    [] OTHER -> <<Reason(item), item.purl>>

\* Both functions in one; where both are defined the first counts.
Join(f, g) == [k \in DOMAIN f \cup DOMAIN g |-> IF k \in DOMAIN f THEN f[k] ELSE g[k]]

Bind(f, key, value) == [k \in DOMAIN f \cup {key} |-> IF k = key THEN value ELSE f[k]]

\* Components of one purl become one, with the relationship that ranks first.
AddComponent(components, item, sbom) ==
  LET relation == relationshipFor(item, sbom)
      known == item.purl \in DOMAIN components
  IN  IF \/ Reason(item) # "none"
         \/ known /\ relationshipRank(relation) <= relationshipRank(components[item.purl])
      THEN components
      ELSE Bind(components, item.purl, relation)

\* Name and version are those of the first component of a purl; of components
\* with one key that cannot be normalised the last is kept.
inventoryFromCycloneDx(sbom) ==
  LET Add(components, item) == AddComponent(components, item, sbom)
      components == FoldLeft(Add, <<>>, sbom.items)
      Normal(purl) == {i \in DOMAIN sbom.items : Reason(sbom.items[i]) = "none" /\ sbom.items[i].purl = purl}
      Failing == {i \in DOMAIN sbom.items : Reason(sbom.items[i]) # "none"}
      Latest(key) == Max({i \in Failing : UnresolvedKey(sbom.items[i]) = key})
  IN  [components |-> components,
       identities |-> [purl \in DOMAIN components |-> Identity(sbom.items[Min(Normal(purl))])],
       unresolved |-> [key \in {UnresolvedKey(sbom.items[i]) : i \in Failing} |-> sbom.items[Latest(key)]]]

Unknown(inventory) ==
  {p \in DOMAIN inventory.components : inventory.components[p] = "unknown"}

-----------------------------------------------------------------------------
(* Lock files, and what they add.                                          *)

\* Of the entries of one package the first counts, or else the first direct one,
\* with all that it says.
AddEntry(components, entry) ==
  LET key == Identity(entry) IN
  IF key \in DOMAIN components /\ (components[key].direct \/ ~entry.direct)
  THEN components
  ELSE Bind(components, key, entry)

uniq(lock) == FoldLeft(AddEntry, <<>>, lock)

\* What the SBOM does not say of a package, the lock files may: they are searched
\* for its purl, or else for its identity.
reconcileRelationships(inventory, lock) ==
  LET native == uniq(lock)
      byPurl(p) == {k \in DOMAIN native : native[k].purl = p}
      matched(p) == IF byPurl(p) # {} THEN byPurl(p) ELSE {inventory.identities[p]} \cap DOMAIN native
      Relation(p) ==
        IF inventory.components[p] # "unknown" \/ matched(p) = {} THEN inventory.components[p]
        ELSE IF \E k \in matched(p) : native[k].direct THEN "direct" ELSE "transitive"
  IN  [inventory EXCEPT !.components = [p \in DOMAIN inventory.components |-> Relation(p)]]

-----------------------------------------------------------------------------
(* Matches.                                                                *)

\* Names that are no severity count as info, which is 0.
severity(native) == IF native \in 0 .. 4 THEN native ELSE 0

\* Matches of one vulnerability and package become one finding, of the
\* highest severity and all the versions that fix it.
AddMatch(findings, match) ==
  LET key == <<match.id, match.purl>>
      next == [severity |-> severity(match.severity), fixes |-> match.fixes]
  IN  IF key \notin DOMAIN findings
      THEN Bind(findings, key, next)
      ELSE Bind(findings, key,
             [severity |-> IF next.severity > findings[key].severity
                           THEN next.severity ELSE findings[key].severity,
              fixes |-> findings[key].fixes \cup next.fixes])

findingsFromGrype(matches) == FoldLeft(AddMatch, <<>>, matches)

-----------------------------------------------------------------------------
(* Versions are three numbers, perhaps with a suffix, which does not count  *)
(* when they are compared; a range is a set of alternatives, each a set of  *)
(* clauses.  A clause that is not understood has to be the version itself.  *)

compareVersions(a, b) ==
  LET Differing == {i \in 1 .. 3 : a[i] # b[i]} IN
  IF Differing = {} THEN 0 ELSE IF a[Min(Differing)] < b[Min(Differing)] THEN 0 - 1 ELSE 1

satisfiesClause(version, clause) ==
  LET base == clause.version
      comparison == compareVersions(version, base)
  IN  CASE clause.op = "^" -> comparison >= 0 /\ compareVersions(version, <<base[1] + 1, 0, 0>>) < 0
        [] clause.op = "~" -> comparison >= 0 /\ compareVersions(version, <<base[1], base[2] + 1, 0>>) < 0
        [] clause.op = "=" -> comparison = 0
        [] clause.op = "<" -> comparison < 0
        [] clause.op = "<=" -> comparison <= 0
        [] clause.op = ">" -> comparison > 0
        [] clause.op = ">=" -> comparison >= 0
        [] clause.op = "literal" -> version = base

satisfiesSimpleRange(version, range) ==
  \E alternative \in range : \A clause \in alternative : satisfiesClause(version, clause)

vulnerableTo(entry, advisory) ==
  advisory.package = entry.package /\ satisfiesSimpleRange(entry.version, advisory.affected)

\* What is known to be exploited is high at least, if the policy asks for it.
EffectiveSeverity(advisory, policy) ==
  IF advisory.knownExploited /\ policy.failOnKnownExploited /\ advisory.severity < 3
  THEN 3 ELSE advisory.severity

\* Of advisories of one identifier the last one that applies counts.
AddAdvisory(found, advisory, entry) ==
  IF vulnerableTo(entry, advisory) THEN Bind(found, advisory.id, advisory) ELSE found

AdvisoriesFor(entry, advisories) ==
  LET Add(found, advisory) == AddAdvisory(found, advisory, entry) IN FoldLeft(Add, <<>>, advisories)

\* One finding for each advisory and package.
findingsFromAdvisories(components, advisories, policy) ==
  LET Found == [k \in DOMAIN components |-> AdvisoriesFor(components[k], advisories)]
  IN  [key \in UNION {(DOMAIN Found[k]) \X {k} : k \in DOMAIN components} |->
         [severity |-> EffectiveSeverity(Found[key[2]][key[1]], policy), fixes |-> {}]]

-----------------------------------------------------------------------------
(* The policy for dependencies.  A host is the sequence of its labels; a    *)
(* source that is no URL has none.                                         *)

\* What the scanner looks at.
Examined(lock, policy) ==
  LET components == uniq(lock) IN
  Restrict(components, {p \in DOMAIN components : policy.includeDev \/ ~components[p].dev})

hostMatches(host, items) == host # Absent /\ \E item \in items : IsSuffix(item, host)
registryDenied(host, denied) == hostMatches(host, denied)
registryAllowed(host, allowed) == host = Absent \/ allowed = {} \/ hostMatches(host, allowed)

\* The rules of maintenance that the record of a package breaks.
MaintenanceRules(record, maintenance) ==
  LET known == record # Absent
      Broken ==
        [missing |-> ~known /\ maintenance.requireMetadata,
         deprecated |-> known /\ record.deprecated /\ maintenance.denyDeprecated,
         invalid |-> known /\ record.date = "invalid",
         stale |-> known /\ record.date = "valid" /\ record.age > maintenance.maxAge]
  IN  IF maintenance.enabled THEN {rule \in DOMAIN Broken : Broken[rule]} ELSE {}

\* Of the rules for licenses the first that applies counts.
licenseRules(entry, licenses) ==
  LET license == IF licenses.overrides[entry.package] # Absent
                 THEN licenses.overrides[entry.package] ELSE entry.license
  IN  CASE ~licenses.enabled -> {}
        [] licenses.enabled /\ license = Absent ->
             IF licenses.unknown = "allow" THEN {} ELSE {"license unknown"}
        [] OTHER ->
             IF license \in licenses.denied THEN {"license denied"}
             ELSE IF licenses.allowed # {} /\ license \notin licenses.allowed THEN {"license not allowed"}
             ELSE IF license \in licenses.reviewRequired THEN {"license review"} ELSE {}

\* The rules that a package breaks, each with one finding.
PolicyRules(entry, policy) ==
  LET range == policy.restrictions[entry.package]
      Broken ==
        [denied |-> entry.package \in policy.denied,
         unapproved |-> policy.allowed # {} /\ entry.package \notin policy.allowed,
         version |-> range # Absent /\ ~satisfiesSimpleRange(entry.version, range),
         registryDenied |-> registryDenied(entry.host, policy.deniedHosts),
         registryUnapproved |-> /\ ~registryDenied(entry.host, policy.deniedHosts)
                                /\ ~registryAllowed(entry.host, policy.allowedHosts)]
  IN  {rule \in DOMAIN Broken : Broken[rule]}
      \cup MaintenanceRules(policy.health[entry.package], policy.maintenance)
      \cup licenseRules(entry, policy.licenses)

RuleSeverity(rule, policy) ==
  IF \/ rule = "license review"
     \/ rule = "license unknown" /\ policy.licenses.unknown # "fail"
  THEN 2 ELSE 3

findingsFromPolicy(components, policy) ==
  [key \in UNION {PolicyRules(components[p], policy) \X {p} : p \in DOMAIN components} |->
     [severity |-> RuleSeverity(key[1], policy), fixes |-> {}]]

-----------------------------------------------------------------------------
(* What has changed between the lock files of two commits.                 *)

\* A package with one version on each side has moved from one to the other.
changesOf(before, after) ==
  LET Versions(entries) == {entry.version : entry \in entries}
      removed == {entry \in before : entry.version \notin Versions(after)}
      added == {entry \in after : entry.version \notin Versions(before)}
      Change(kind, old, new) == [kind |-> kind, before |-> old, after |-> new]
      Kind(comparison) == IF comparison > 0 THEN "upgraded" ELSE IF comparison < 0 THEN "downgraded" ELSE "changed"
  IN  IF Cardinality(before) = 1 /\ Cardinality(after) = 1 /\ removed # {}
      THEN {Change(Kind(compareVersions(new.version, old.version)), old, new) : old \in before, new \in after}
      ELSE {Change("removed", old, Absent) : old \in removed}
           \cup {Change("added", Absent, new) : new \in added}
           \cup {Change("changed", pair[1], pair[2]) : pair \in
                  {pair \in before \X after : pair[1].version = pair[2].version /\ pair[1].host # pair[2].host}}

diffDependencies(before, after) ==
  LET Of(package, lock) == LET components == uniq(lock) IN
        {components[p] : p \in {q \in DOMAIN components : components[q].package = package}}
      Packages == {entry.package : entry \in ToSet(before) \cup ToSet(after)}
  IN  UNION {changesOf(Of(package, before), Of(package, after)) : package \in Packages}

-----------------------------------------------------------------------------
(* What is taken to be a document.                                         *)

IsList(s) == s \in Seq(ToSet(s))
IsVersion(v) == v[1] \in Nat /\ v[2] \in Nat /\ v[3] \in Nat
IsClause(clause) ==
  \/ clause.op = "literal"
  \/ clause.op \in {"^", "~", "=", "<", "<=", ">", ">="} /\ IsVersion(clause.version)
IsRange(range) == \A alternative \in range : \A clause \in alternative : IsClause(clause)

IsSbom(sbom) == IsList(sbom.items) /\ IsFiniteSet(DOMAIN sbom.edges)

IsEntry(entry) ==
  entry # Absent /\ IsVersion(entry.version) /\ (entry.host = Absent \/ IsList(entry.host))
IsLock(lock) == IsList(lock) /\ \A entry \in ToSet(lock) : IsEntry(entry)

\* A purl tells name and version; names that differ by case can have several.
Identified(entries) == \A e, f \in entries : e.purl = f.purl => Identity(e) = Identity(f)

\* Rules and advisories have names of their own.
RuleNames ==
  {"denied", "unapproved", "version", "registryDenied", "registryUnapproved", "missing", "deprecated", "invalid",
   "stale", "license unknown", "license denied", "license not allowed", "license review"}
IsAdvisory(a) == a.severity \in Nat /\ IsRange(a.affected) /\ a.id \notin RuleNames
IsDatabase(advisories) == IsList(advisories) /\ \A a \in ToSet(advisories) : IsAdvisory(a)

\* What a policy says of a package.
PolicyFor(policy, package) ==
  /\ policy.restrictions[package] = Absent \/ IsRange(policy.restrictions[package])
  /\ \A host \in policy.deniedHosts \cup policy.allowedHosts : IsList(host)
  /\ \/ policy.health[package] = Absent
     \/ policy.health[package].age \in Int /\ policy.maintenance.maxAge \in Int

-----------------------------------------------------------------------------
(* What a reader of the documents expects, whatever their order.           *)

\* A reference is reached when every closed set that holds the direct ones has it.
Reached(ref, sbom) ==
  LET Refs == DirectRefs(sbom) \cup UNION {sbom.edges[r] : r \in DOMAIN sbom.edges}
      Closed(S) == \A r \in S \cap DOMAIN sbom.edges : sbom.edges[r] \subseteq S
  IN  \A S \in SUBSET Refs : DirectRefs(sbom) \subseteq S /\ Closed(S) => ref \in S

ComponentsOf(purl, sbom) == {item \in ToSet(sbom.items) : item.purl = purl /\ Reason(item) = "none"}

\* The relationships that the SBOM gives the components of one purl.
Stated(purl, sbom) ==
  LET Libraries == {item \in ComponentsOf(purl, sbom) : item.ecosystem # "os"}
  IN  {r \in {"direct", "os", "transitive"} :
         \/ r = "direct" /\ \E item \in Libraries : item.ref \in DirectRefs(sbom)
         \/ r = "os" /\ Libraries # ComponentsOf(purl, sbom)
         \/ r = "transitive" /\ \E item \in Libraries : Reached(item.ref, sbom)}

EntriesOf(key, lock) == {entry \in ToSet(lock) : Identity(entry) = key}
Identities(lock) == {Identity(entry) : entry \in ToSet(lock)}

\* The identities by which a package can be found in the lock files: the one that they
\* list under its purl and no other, or else one that they or the SBOM give its purl.
FoundBy(purl, sbom, lock) ==
  LET listed == {Identity(entry) : entry \in {e \in ToSet(lock) : e.purl = purl}}
      only == {key \in listed : \A entry \in EntriesOf(key, lock) : entry.purl = purl}
  IN  IF only # {} THEN only ELSE listed \cup {Identity(item) : item \in ComponentsOf(purl, sbom)}

\* What the lock files say of a package.
Listed(key, lock) ==
  IF EntriesOf(key, lock) = {} THEN "unknown"
  ELSE IF \E entry \in EntriesOf(key, lock) : entry.direct THEN "direct" ELSE "transitive"

\* The relationship a component has: what the SBOM says, or else what the lock files say.
IsRelationship(relation, purl, sbom, lock) ==
  LET stated == Stated(purl, sbom) IN
  IF stated = {} THEN \E key \in FoundBy(purl, sbom, lock) : relation = Listed(key, lock)
  ELSE /\ relation \in stated
       /\ "direct" \in stated => relation = "direct"
       /\ "os" \in stated => relation # "transitive"

MatchesOf(key, matches) == {m \in ToSet(matches) : <<m.id, m.purl>> = key}

\* A component that is reported as unresolved for another: one of its purl, and of its
\* name, unless the ecosystem is the reason.
StandsFor(unresolved, item) ==
  /\ Reason(unresolved) = Reason(item) /\ unresolved.purl = item.purl
  /\ Reason(item) # "unsupported-ecosystem" => unresolved.name = item.name /\ unresolved.version = item.version

\* Every component is in the inventory, or reported as unresolved.
InventoryComplete(inventory, sbom, lock) ==
  /\ \A item \in ToSet(sbom.items) :
       IF Reason(item) = "none" THEN item.purl \in DOMAIN inventory.components
       ELSE \E key \in DOMAIN inventory.unresolved : StandsFor(inventory.unresolved[key], item)
  /\ \A p \in DOMAIN inventory.components :
       IsRelationship(inventory.components[p], p, sbom, lock)

\* Every match is in a finding, and a finding says the worst of its matches.
FindingsComplete(findings, matches) ==
  /\ DOMAIN findings = {<<m.id, m.purl>> : m \in ToSet(matches)}
  /\ \A key \in DOMAIN findings :
       /\ findings[key].severity = Max({severity(m.severity) : m \in MatchesOf(key, matches)})
       /\ findings[key].fixes = UNION {m.fixes : m \in MatchesOf(key, matches)}

\* Versions in the order of their numbers.
Below(v, w) == \E i \in 1 .. 3 : v[i] < w[i] /\ \A j \in 1 .. i - 1 : v[j] = w[j]

Within(version, clause) ==
  LET base == clause.version IN
  CASE clause.op = "^" -> ~Below(version, base) /\ version[1] = base[1]
    [] clause.op = "~" -> ~Below(version, base) /\ version[1] = base[1] /\ version[2] = base[2]
    [] clause.op = "=" -> ~Below(version, base) /\ ~Below(base, version)
    [] clause.op = "<" -> Below(version, base)
    [] clause.op = "<=" -> ~Below(base, version)
    [] clause.op = ">" -> Below(base, version)
    [] clause.op = ">=" -> ~Below(version, base)
    [] clause.op = "literal" -> version = base

\* The advisories that a package of the lock files is affected by.
Affecting(key, lock, advisories) ==
  {a \in ToSet(advisories) :
     /\ a.id = key[1]
     /\ \E entry \in ToSet(lock) :
          /\ Identity(entry) = key[2] /\ entry.package = a.package
          /\ \E alternative \in a.affected :
               \A clause \in alternative : Within(entry.version, clause)}

\* Packages that have to be examined, and those that may be: entries of one
\* package can differ in whether it is needed for development only.
Due(lock, policy) ==
  {p \in Identities(lock) : policy.includeDev \/ \A entry \in EntriesOf(p, lock) : ~entry.dev}
Possible(lock, policy) ==
  {p \in Identities(lock) : policy.includeDev \/ \E entry \in EntriesOf(p, lock) : ~entry.dev}

\* Every advisory that affects a package is in a finding, of the severity of
\* one of its entries; nothing else is.
AdvisoriesComplete(findings, lock, policy, advisories) ==
  LET Ids == {a.id : a \in ToSet(advisories)}
      Affected(purls) == {key \in Ids \X purls : Affecting(key, lock, advisories) # {}}
      Reports == {key \in DOMAIN findings : key[1] \in Ids}
  IN  /\ Affected(Due(lock, policy)) \subseteq Reports
      /\ Reports \subseteq Affected(Possible(lock, policy))
      /\ \A key \in Reports : \E a \in Affecting(key, lock, advisories) :
           findings[key].severity = Max({a.severity} \cup
             (IF a.knownExploited /\ policy.failOnKnownExploited THEN {3} ELSE {}))

\* Whoever applies the changes to what was there before gets what is there now,
\* and a package that was neither there before nor is now has none.
DiffComplete(changes, before, after) ==
  LET Of(entries) == {Identity(entry) : entry \in entries}
      Was == {c.before : c \in {d \in changes : d.before # Absent}}
      Is == {c.after : c \in {d \in changes : d.after # Absent}}
  IN  /\ Of(ToSet(after)) = (Of(ToSet(before)) \ Of(Was)) \cup Of(Is)
      /\ Of(Was) \subseteq Of(ToSet(before))
      /\ \A c \in changes :
           /\ c.kind = "upgraded" => Below(c.before.version, c.after.version)
           /\ c.kind = "downgraded" => Below(c.after.version, c.before.version)
           /\ c.kind = "added" => Identity(c.after) \notin Of(ToSet(before))
           /\ c.kind = "removed" => Identity(c.before) \notin Of(ToSet(after))

\* What the policy lets pass.
Beneath(host, items) ==
  \E item \in items : Len(host) >= Len(item) /\ SubSeq(host, Len(host) - Len(item) + 1, Len(host)) = item

Acceptable(entry, policy) ==
  LET range == policy.restrictions[entry.package]
      record == policy.health[entry.package]
      license == IF policy.licenses.overrides[entry.package] = Absent
                 THEN entry.license ELSE policy.licenses.overrides[entry.package]
  IN  /\ entry.package \notin policy.denied
      /\ entry.package \in policy.allowed \/ policy.allowed = {}
      /\ range # Absent => \E alternative \in range : \A clause \in alternative : Within(entry.version, clause)
      /\ entry.host # Absent =>
           /\ ~Beneath(entry.host, policy.deniedHosts)
           /\ Beneath(entry.host, policy.allowedHosts) \/ policy.allowedHosts = {}
      /\ policy.maintenance.enabled =>
           IF record = Absent THEN ~policy.maintenance.requireMetadata
           ELSE /\ ~(record.deprecated /\ policy.maintenance.denyDeprecated)
                /\ record.date # "invalid"
                /\ record.date = "valid" => record.age <= policy.maintenance.maxAge
      /\ policy.licenses.enabled =>
           IF license = Absent THEN policy.licenses.unknown # "fail"
           ELSE /\ license \notin policy.licenses.denied
                /\ license \in policy.licenses.allowed \/ policy.licenses.allowed = {}

\* A package without a serious finding is acceptable as one of its entries
\* describes it, and one that is acceptable by all of them has none.
PolicyComplete(findings, lock, policy, advisories) ==
  LET Ids == {a.id : a \in ToSet(advisories)}
      Serious(p) == \E key \in DOMAIN findings : key[2] = p /\ key[1] \notin Ids /\ findings[key].severity >= 3
      Good(p) == {entry \in EntriesOf(p, lock) : Acceptable(entry, policy)}
  IN  /\ \A p \in Due(lock, policy) : Serious(p) \/ Good(p) # {}
      /\ \A p \in Identities(lock) : Serious(p) => p \in Possible(lock, policy) /\ Good(p) # EntriesOf(p, lock)
=============================================================================
