-------------------------- MODULE MCAdministration --------------------------
(* Two repositories, two waivers, of which one is for both; two             *)
(* principals, of which the other can be given the role to decide.         *)
EXTENDS Administration, TLC

ScopeOfWaivers == [w \in {"w1", "w2"} |-> IF w = "w1" THEN {"r1"} ELSE {"r1", "r2"}]
RoleOfPrincipals == [p \in {"eve", "ada"} |-> IF p = "eve" THEN "engineer" ELSE "administrator"]

\* Bounds: the date of one waiver comes, what could be rejected is revoked, one role
\* is changed; of three requests none fails and no more than one is about policy or
\* scanners.
Bounds ==
  /\ Cardinality(due) <= 1
  /\ \A w \in Waivers : waiver[w] # "rejected"
  /\ \A h \in Handlers : request[h].status # "rejected"
  /\ Cardinality({p \in Principals : role[p] # RoleOfPrincipals[p]}) <= 1
  /\ failures = 0 \/ ops <= 2
  /\ version["policy"] + version["scanners"] <= 1 \/ ops <= 2

AnyHandler == Permutations(Handlers)
=============================================================================
