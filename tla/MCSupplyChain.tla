---------------------------- MODULE MCSupplyChain ----------------------------
(* A small instance of SupplyChain for TLC. *)
EXTENDS SupplyChain

CONSTANTS root, absent, f1, f2, lockfile, manifest, db, index, r1, r2, r3, p1, p2, p3, p4, q1, cve1, cve2, a, b

TheFiles == <<f1, f2>>

Release(built, imported, maxAge, assets, digest) ==
  [built |-> built, imported |-> imported, maxAge |-> maxAge, assets |-> assets, digest |-> digest]

\* A current release, one with a new database and the same index, and one whose
\* digest is not that of its database.
TheProfiles ==
  LET first == [x \in {db, index} |-> 1]
      second == [first EXCEPT ![db] = 2]
      third == [x \in {db, index} |-> 3]
  IN  <<Release(0, 0, 1, first, first), Release(1, 2, 1, second, second), Release(2, 2, 9, third, second)>>

Lib(ref, purl) ==
  [name |-> purl, package |-> IF purl = p1 THEN a ELSE b, version |-> IF purl = p1 THEN <<1, 2, 0>> ELSE <<0, 2, 3>>,
   ref |-> ref, purl |-> purl, ecosystem |-> "npm"]

Of(item, ecosystem) == [item EXCEPT !.ecosystem = ecosystem]

\* r1 is required by the root, r2 by r1 and the other way round, r3 by nobody.
TheEdges == [r \in {root, r1, r2} |-> IF r = r1 THEN {r2} ELSE {r1}]

TheInventories ==
  {[edges |-> TheEdges, items |-> <<Lib(r2, p2), Lib(r1, p1)>>],
   \* one package three times, and one that is also installed by the system
   [edges |-> TheEdges,
    items |-> <<Lib(r3, p1), Lib(r2, p1), Lib(r1, p1), Lib(r2, p2), Of(Lib(r3, p2), "os"), Lib(r3, p2)>>],
   \* no graph
   [edges |-> [r \in {r1} |-> {r2}], items |-> <<Lib(r1, p1), Of(Lib(r2, p2), "os")>>],
   \* what cannot be normalised
   [edges |-> TheEdges,
    items |-> <<Lib(r1, p1), [Lib(r1, p2) EXCEPT !.purl = absent], [Lib(r2, q1) EXCEPT !.version = absent]>>],
   \* under one purl, and again under another name
   [edges |-> TheEdges,
    items |-> <<Of(Lib(r2, q1), "unsupported"), Lib(r1, p1), [Of(Lib(r2, q1), "unsupported") EXCEPT !.name = p1]>>],
   \* no graph, and purls that the lock files do not have: the first component gives the name
   [edges |-> <<>>, items |-> <<[Lib(r1, p1) EXCEPT !.purl = q1], Lib(r2, p2), [Lib(r2, p2) EXCEPT !.purl = q1]>>],
   [edges |-> TheEdges, items |-> <<Lib(r1, p1), Of(Lib(r2, q1), "malformed")>>]}

Match(id, purl, sev, fixes) == [id |-> id, purl |-> purl, severity |-> sev, fixes |-> fixes]

TheMatchLists ==
  {<<>>,
   <<Match(cve1, p1, 2, {1}), Match(cve2, p1, 9, {}), Match(cve1, p1, 4, {2}), Match(cve1, p1, 3, {1})>>}

\* A good answer, and others with one thing wrong.
TheAnswers ==
  LET good == [bound |-> TRUE, outcome |-> "completed", cleanupConfirmed |-> TRUE, exitCode |-> 0,
               artifacts |-> [syft |-> "whole", grype |-> "whole"]]
  IN  {good, [good EXCEPT !.bound = FALSE], [good EXCEPT !.outcome = "failed"],
       [good EXCEPT !.cleanupConfirmed = FALSE], [good EXCEPT !.exitCode = 1],
       [good EXCEPT !.artifacts.syft = "damaged"], [good EXCEPT !.artifacts.grype = "missing"],
       [good EXCEPT !.artifacts.grype = "unreadable"]}

Entry(purl, package, version, direct) ==
  [purl |-> purl, package |-> package, version |-> version, direct |-> direct,
   dev |-> FALSE, host |-> absent, license |-> absent]

\* What is listed in either file, if it can be read; or in the second only without the first.
Both(one, two) ==
  [files \in SUBSET {lockfile, manifest} |->
     (IF lockfile \in files THEN one ELSE <<>>) \o (IF manifest \in files THEN two ELSE <<>>)]
Either(one, two) ==
  [files \in SUBSET {lockfile, manifest} |->
     IF lockfile \in files THEN one ELSE IF manifest \in files THEN two ELSE <<>>]

TheRepositories ==
  LET one == Entry(p1, a, <<1, 2, 0>>, FALSE)
      two == [Entry(p2, b, <<0, 2, 3>>, TRUE) EXCEPT !.license = "mit"]
  IN  {\* the same package from two files, and under two names that differ by case
       Both(<<one>>, <<[one EXCEPT !.direct = TRUE, !.dev = TRUE, !.host = <<"mirror", "com">>], [one EXCEPT !.purl = p3]>>),
       Both(<<[one EXCEPT !.host = <<"mirror", "com">>, !.license = "gpl"]>>, <<two>>),
       Either(<<[one EXCEPT !.dev = TRUE], [two EXCEPT !.host = <<"npm", "mirror", "com">>]>>,
              \* other versions
              <<Entry(p3, a, <<1, 10, 0>>, TRUE), two>>),
       Both(<<Entry(p4, a, <<1, 2, 0, "rc">>, TRUE)>>, <<one>>)}

TheLocks == {repository[files] : repository \in TheRepositories, files \in SUBSET {lockfile, manifest}}

Clause(op, version) == [op |-> op, version |-> version]
Advisory(id, package, affected, sev, exploited) ==
  [id |-> id, package |-> package, affected |-> affected, severity |-> sev, knownExploited |-> exploited]

\* Clauses around the versions in the lock files, one identifier for two of them.
Limits == {<<1, 2, 0>>, <<1, 1, 9>>, <<0, 2, 3>>, <<0, 1, 0>>}
Ranges == {{{Clause(op, v)}} : op \in {"^", "~", "=", "<", "<=", ">", ">="}, v \in Limits}
          \cup {{{Clause(">=", <<1, 0, 0>>), Clause("<", <<1, 2, 0>>)}, {Clause("=", <<0, 2, 3>>)}}, {{}},
              {{Clause("literal", <<1, 2, 0, "rc">>)}}}
\* One policy for each rule, and one that asks nothing.
NoPolicy ==
  [search |-> TRUE, failOnKnownExploited |-> TRUE, includeDev |-> TRUE, denied |-> {}, allowed |-> {}, restrictions |-> [x \in {a, b} |-> absent],
   deniedHosts |-> {}, allowedHosts |-> {},
   maintenance |-> [enabled |-> FALSE, requireMetadata |-> TRUE, denyDeprecated |-> TRUE, maxAge |-> 1],
   health |-> [x \in {a, b} |-> absent],
   licenses |-> [enabled |-> FALSE, overrides |-> [x \in {a, b} |-> absent], unknown |-> "fail",
                 denied |-> {"gpl"}, allowed |-> {}, reviewRequired |-> {"mit"}]]

Health(date, age, deprecated) == [date |-> date, age |-> age, deprecated |-> deprecated]

ThePolicies ==
  {[NoPolicy EXCEPT !.includeDev = FALSE, !.denied = {a}, !.failOnKnownExploited = FALSE],
   [NoPolicy EXCEPT !.search = FALSE, !.allowed = {a}, !.allowedHosts = {<<"mirror", "com">>}],
   [NoPolicy EXCEPT !.deniedHosts = {<<"mirror", "com">>}, !.allowedHosts = {<<"npm", "mirror", "com">>}],
   [NoPolicy EXCEPT !.restrictions[a] = {{Clause("^", <<1, 2, 0>>)}}, !.restrictions[b] = {{Clause("<", <<0, 2, 3>>)}}],
   [NoPolicy EXCEPT !.maintenance.enabled = TRUE, !.health[a] = Health("none", 0, FALSE)],
   [NoPolicy EXCEPT !.maintenance.enabled = TRUE, !.health[a] = Health("valid", 2, FALSE), !.health[b] = Health("valid", 1, FALSE)],
   [NoPolicy EXCEPT !.maintenance.enabled = TRUE, !.health[a] = Health("valid", 1, TRUE), !.health[b] = Health("invalid", 0, FALSE)],
   [NoPolicy EXCEPT !.licenses.enabled = TRUE],
   [NoPolicy EXCEPT !.licenses.enabled = TRUE, !.licenses.unknown = "review", !.licenses.overrides[b] = "gpl"],
   [NoPolicy EXCEPT !.licenses.enabled = TRUE, !.licenses.unknown = "allow", !.licenses.allowed = {"mit"}]}

TheDatabases ==
  {<<Advisory(cve1, p, r, 1, FALSE), Advisory(cve1, p, {{Clause("<", <<1, 9, 0>>)}}, 2, TRUE), Advisory(cve2, p, r, 4, FALSE)>>
     : p \in {a, b}, r \in Ranges}

TheBundles ==
  {[database |-> d, digest |-> d, signed |-> TRUE] : d \in TheDatabases}
  \cup {[database |-> d, digest |-> <<>>, signed |-> TRUE] : d \in TheDatabases}

TheBindings ==
  {[commit |-> c, syft |-> absent, grype |-> absent] : c \in BOOLEAN}
  \cup {[commit |-> TRUE, syft |-> s, grype |-> g] : s \in {t \in TheInventories : Len(t.items) = 2}, g \in TheMatchLists}
=============================================================================
