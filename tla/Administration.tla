--------------------------- MODULE Administration ---------------------------
(***************************************************************************)
(* Administration (src/src/application, src/src/web/server.ts): requests   *)
(* that are handled at the same time change waivers, policies, scanner     *)
(* settings and principals in the database, one statement after the other, *)
(* and then write what they changed into the files of the repositories,    *)
(* where scans look for it.                                                *)
(***************************************************************************)
EXTENDS Naturals, FiniteSets

CONSTANTS
  Handlers,         \* requests that are being handled at the same time
  Repositories,     \* the registered repositories of the project
  Waivers,
  WaiverScope,      \* the repositories that each waiver is for
  PolicyScope,      \* the repositories that the managed policy is for
  Scanned,          \* the repository whose scanner settings are managed
  Principals,
  InitialRole,      \* the role each principal has at first
  RequireApproval,  \* BOOLEAN: waivers need approval
  SignedConfig,     \* values of integrity.requireSignedConfig that are looked at
  MaxOps,           \* bound: requests that are admitted
  MaxFailures       \* bound: requests that fail half-way

Kinds == {"waivers", "policy", "scanners"}
Stages == {"idle", "find", "change", "audit", "governed", "list", "read", "reply"}
Roles == <<"none", "viewer", "engineer", "security_admin", "administrator">>

ASSUME AdministrationAssumption ==
  /\ WaiverScope \in [Waivers -> SUBSET Repositories]
  /\ PolicyScope \subseteq Repositories /\ Scanned \in Repositories
  /\ Repositories \cap Stages = {}  \* where a request is: at a stage or at a repository
  /\ InitialRole \in [Principals -> {Roles[i] : i \in DOMAIN Roles}]
  /\ RequireApproval \in BOOLEAN /\ SignedConfig \subseteq BOOLEAN
  /\ MaxOps \in Nat /\ MaxFailures \in Nat

VARIABLES
  signed,   \* whether configuration is signed and not to be written
  waiver,   \* status of each waiver in the database
  due,      \* waivers whose expiry date has come
  version,  \* versions of the policy and of the scanner settings in the database
  role,     \* role of each principal in the database
  file,     \* the files of each repository
  request,  \* what each handler is doing
  approved, \* history: waivers that somebody who may do so has made active
  unclean,  \* history: kinds that two requests have changed at a time or one in part
  silent,   \* history: a success was answered for a change that is not in both logs
  ops, failures

vars == <<signed, waiver, due, version, role, file, request, approved, unclean, silent, ops, failures>>
database == <<waiver, due, version, role>>
bounds == <<ops, failures>>

\* A file: whether it can be parsed, whether what others wrote is in it, what is managed.
Fresh(kind) == [torn |-> FALSE, own |-> TRUE, managed |-> IF kind = "waivers" THEN {} ELSE 0]

NoRequest ==
  [at |-> "idle", op |-> "none", kind |-> "none", waiver |-> "none", status |-> "none", may |-> FALSE,
   logs |-> {}, value |-> 0, todo |-> {}, own |-> FALSE, kept |-> {}]

Init ==
  /\ signed \in SignedConfig
  /\ waiver = [w \in Waivers |-> "none"] /\ due = {}
  /\ version = [k \in {"policy", "scanners"} |-> 0]
  /\ role = InitialRole
  /\ file = [r \in Repositories |-> [k \in Kinds |-> Fresh(k)]]
  /\ request = [h \in Handlers |-> NoRequest]
  /\ approved = {} /\ unclean = {} /\ silent = FALSE
  /\ ops = 0 /\ failures = 0

-----------------------------------------------------------------------------
(* Authorisation.                                                          *)

Rank(r) == CHOOSE i \in DOMAIN Roles : Roles[i] = r
RoleAllows(actual, required) == Rank(actual) >= Rank(required)

\* Mutant of RequiredRole: who may ask for a waiver may also decide on it.
RequiredForRequest(op) ==
  CASE op \in {"request", "decide"} -> "engineer"
    [] op \in {"policy", "scanners"} -> "security_admin"
    [] op = "principal" -> "administrator"

RequiredRole(op) ==
  CASE op = "request" -> "engineer"
    [] op \in {"decide", "policy", "scanners"} -> "security_admin"
    [] op = "principal" -> "administrator"

KindOf(op) == IF op \in {"request", "decide"} THEN "waivers" ELSE IF op = "principal" THEN "none" ELSE op

\* Waivers nobody has asked for: their ids are made from the time of the request.
New == {w \in Waivers : waiver[w] = "none" /\ \A g \in Handlers : request[g].waiver # w}

\* The session of a principal that has been disabled or never registered is refused;
\* a request keeps the role that its session had when it came in.
Admit(h) ==
  /\ request[h].at = "idle" /\ ops < MaxOps /\ ops' = ops + 1
  /\ \E p \in Principals, op \in {"request", "decide", "policy", "scanners", "principal"} :
       /\ role[p] # "none" /\ RoleAllows(role[p], RequiredRole(op))
       /\ \E w \in IF op = "request" THEN New ELSE IF op = "decide" THEN Waivers \ New ELSE {"none"},
             s \in IF op = "decide" THEN {"active", "rejected", "revoked"}
                   ELSE IF op = "principal" THEN {"none", "security_admin"} ELSE {"none"} :
            request' = [request EXCEPT ![h] =
              [NoRequest EXCEPT !.at = IF op = "decide" THEN "find" ELSE "change", !.op = op, !.kind = KindOf(op),
                                !.waiver = w, !.status = s, !.may = RoleAllows(role[p], "security_admin")]]
       /\ unclean' = unclean \cup {k \in {KindOf(op)} : \E g \in Handlers : request[g].kind = k /\ k # "none"}
  /\ UNCHANGED <<signed, database, file, approved, silent, failures>>

-----------------------------------------------------------------------------
(* Statements of the database, each with its entry in the application's     *)
(* audit table, which is a statement of its own.                           *)

Go(h, at) == request' = [request EXCEPT ![h].at = at]

\* listWaivers: what is past its date expires first.
Listed == [w \in Waivers |-> IF w \in due /\ waiver[w] \in {"active", "pending"} THEN "expired" ELSE waiver[w]]

\* decideWaiver looks the waiver up and not at its status.
Find(h) ==
  /\ request[h].at = "find"
  /\ waiver' = Listed
  /\ IF waiver[request[h].waiver] = "none" THEN request' = [request EXCEPT ![h] = NoRequest] ELSE Go(h, "change")
  /\ UNCHANGED <<signed, due, version, role, file, approved, unclean, silent, bounds>>

Approve(h, w, s) ==
  /\ waiver' = [waiver EXCEPT ![w] = s]
  /\ approved' = IF s = "active" /\ (request[h].may \/ ~RequireApproval) THEN approved \cup {w} ELSE approved

Change(h) ==
  /\ request[h].at = "change"
  /\ LET q == request[h] IN
     \/ /\ q.op = "request"
        /\ Approve(h, q.waiver, IF RequireApproval THEN "pending" ELSE "active")
        /\ Go(h, "audit") /\ UNCHANGED <<version, role>>
     \/ /\ q.op = "decide" /\ Approve(h, q.waiver, q.status)
        /\ Go(h, "audit") /\ UNCHANGED <<version, role>>
     \/ /\ q.kind \in {"policy", "scanners"}
        /\ version' = [version EXCEPT ![q.kind] = @ + 1]
        /\ request' = [request EXCEPT ![h].at = "audit", ![h].value = version[q.kind] + 1]
        /\ UNCHANGED <<waiver, role, approved>>
     \/ /\ q.op = "principal" /\ \E p \in Principals : role' = [role EXCEPT ![p] = q.status]
        /\ Go(h, "audit") /\ UNCHANGED <<waiver, version, approved>>
  /\ UNCHANGED <<signed, due, file, unclean, silent, bounds>>

\* The entry in the audit table, then the event in the governed audit log.
Log(h, from, log, to) ==
  /\ request[h].at = from
  /\ request' = [request EXCEPT ![h].at = to, ![h].logs = @ \cup {log}]
  /\ UNCHANGED <<signed, database, file, approved, unclean, silent, bounds>>

AppendAudit(h) == Log(h, "audit", "application", "governed")
GovernedAudit(h) == Log(h, "governed", "governed", IF request[h].kind = "none" THEN "reply" ELSE "list")

-----------------------------------------------------------------------------
(* Materialisation.                                                        *)

AppliesTo(q) ==
  CASE q.kind = "waivers" -> WaiverScope[q.waiver] [] q.kind = "policy" -> PolicyScope [] q.kind = "scanners" -> {Scanned}

\* The waivers that go into a repository's file.
Managed(r, list) == {w \in Waivers : list[w] = "active" /\ r \in WaiverScope[w]}

\* Entries of waivers that are not in the list that was read are not the request's
\* to replace: a waiver can have been asked for, and approved, in between.
Unlisted(f, list) == {w \in f.managed : list[w] = "none"}

\* Mutant of Targets: only the repository of the first waiver is written.
FirstTarget(q) == {CHOOSE r \in AppliesTo(q) : TRUE}

Targets(q) == AppliesTo(q)

Blocked == signed

\* The request reads again what there is and then writes it, repository by repository;
\* a policy is written as its statement returned it.  With signed configuration
\* nothing is, and the request fails after its change was committed.
List(h) ==
  /\ request[h].at = "list"
  /\ LET q == request[h] IN
     /\ waiver' = IF q.kind = "waivers" THEN Listed ELSE waiver
     /\ request' = IF Blocked THEN [request EXCEPT ![h] = NoRequest]
                   ELSE [request EXCEPT ![h].at = "read", ![h].todo = Targets(q),
                           ![h].value = IF q.kind = "waivers" THEN waiver'
                                        ELSE IF q.kind = "scanners" THEN version["scanners"] ELSE q.value]
     /\ unclean' = IF Blocked THEN unclean \cup {q.kind} ELSE unclean
  /\ UNCHANGED <<signed, due, version, role, file, approved, silent, bounds>>

\* Waivers and settings are put among what the file has, a policy has its own file.
\* A file that cannot be parsed counts as empty.
ReadFile(h) ==
  /\ request[h].at = "read"
  /\ IF request[h].todo = {} THEN Go(h, "reply")
     ELSE \E r \in request[h].todo :
            LET q == request[h]  old == file[r][q.kind] IN
            request' = [request EXCEPT ![h].at = r, ![h].todo = @ \ {r}, ![h].own = old.own /\ ~old.torn,
                          ![h].kept = IF q.kind = "waivers" /\ ~old.torn THEN Unlisted(old, q.value) ELSE {}]
  /\ UNCHANGED <<signed, database, file, approved, unclean, silent, bounds>>

Put(r, kind, content) == file' = [file EXCEPT ![r][kind] = content]

\* writeFile empties the file and writes it.
WriteFile(h) ==
  /\ request[h].at \in Repositories
  /\ LET r == request[h].at q == request[h] old == file[r][q.kind] IN
     \/ /\ ~old.torn /\ Put(r, q.kind, [old EXCEPT !.torn = TRUE]) /\ UNCHANGED request
     \/ /\ old.torn /\ Go(h, "read")
        /\ Put(r, q.kind, [torn |-> FALSE, own |-> q.own,
                           managed |-> IF q.kind = "waivers" THEN q.kept \cup Managed(r, q.value) ELSE q.value])
  /\ UNCHANGED <<signed, database, approved, unclean, silent, bounds>>

Reply(h) ==
  /\ request[h].at = "reply"
  /\ silent' = (silent \/ request[h].logs # {"application", "governed"})
  /\ request' = [request EXCEPT ![h] = NoRequest]
  /\ UNCHANGED <<signed, database, file, approved, unclean, bounds>>

\* Mutant of AfterFailure: an audit log that cannot be written is passed over.
PassOver(h) ==
  IF request[h].at = "governed" /\ request[h].kind # "none" THEN Go(h, "list") /\ UNCHANGED unclean
  ELSE request' = [request EXCEPT ![h] = NoRequest] /\ unclean' = unclean \cup {request[h].kind}

\* A failing statement, log or file ends the request; so does a crash of the server.
AfterFailure(h) == request' = [request EXCEPT ![h] = NoRequest] /\ unclean' = unclean \cup {request[h].kind}

Fail(h) ==
  /\ request[h].at # "idle" /\ failures < MaxFailures /\ failures' = failures + 1
  /\ AfterFailure(h)
  /\ UNCHANGED <<signed, database, file, approved, silent, ops>>

\* The date of a waiver comes.
Expire ==
  /\ \E w \in Waivers \ due : waiver[w] # "none" /\ due' = due \cup {w}
  /\ UNCHANGED <<signed, waiver, version, role, file, request, approved, unclean, silent, bounds>>

Handle(h) ==
  \/ Admit(h) \/ Find(h) \/ Change(h) \/ AppendAudit(h) \/ GovernedAudit(h) \/ List(h) \/ ReadFile(h) \/ WriteFile(h)
  \/ Reply(h) \/ Fail(h)

Next == Expire \/ \E h \in Handlers : Handle(h)

Spec == Init /\ [][Next]_vars

-----------------------------------------------------------------------------
(* Properties.                                                             *)

\* A scan finds in a repository's file no waiver that nobody entitled to it has ever
\* approved, however requests, decisions and changes of roles overlap; and signed
\* configuration is not touched (requiredRole, materializeWaivers).
FilesGoverned ==
  \A r \in Repositories :
    /\ file[r]["waivers"].managed \subseteq approved
    /\ signed => \A k \in Kinds : file[r][k] = Fresh(k)

At(kind) == {h \in Handlers : request[h].kind = kind}

\* When no request is at work, the files have what the database has and still have
\* what others wrote into them, unless requests of the same kind overlapped or one
\* failed; requests of other kinds do no harm.  Waivers whose date has come do not
\* count: a scan looks at the date itself.
FilesCurrent ==
  \A kind \in Kinds \ unclean : At(kind) = {} =>
    \A r \in Repositories :
      LET f == file[r][kind] IN
      /\ ~f.torn /\ f.own
      /\ kind = "waivers" => f.managed \ due = Managed(r, waiver) \ due
      /\ kind = "policy" /\ r \in PolicyScope => f.managed = version["policy"]
      /\ kind = "scanners" /\ r = Scanned => f.managed = version["scanners"]

\* A change that was answered as a success is in the application's audit table and in
\* the governed audit log (governedAudit).
AnsweredIsLogged == ~silent

=============================================================================
