------------------------ MODULE AdministrationProofs ------------------------
(***************************************************************************)
(* Proofs about Administration, for any number of requests handled at a    *)
(* time, repositories, waivers and principals: that what scans find was    *)
(* approved, that the files catch up with the database, and that nothing   *)
(* is answered before it is in both logs.                                  *)
(***************************************************************************)
EXTENDS Administration, TLAPS

Status == {"none", "pending", "active", "rejected", "revoked", "expired"}
Operations == {"none", "request", "decide", "policy", "scanners", "principal"}
Content == (SUBSET Waivers) \cup Nat
Values == [Waivers -> Status] \cup Nat

File == [torn : BOOLEAN, own : BOOLEAN, managed : Content]
Request ==
  [at : Stages \cup Repositories, op : Operations, kind : Kinds \cup {"none"},
   waiver : Waivers \cup {"none"}, status : Status \cup {"security_admin"}, may : BOOLEAN,
   logs : SUBSET {"application", "governed"}, value : Values, todo : SUBSET Repositories,
   own : BOOLEAN, kept : SUBSET Waivers]

Types ==
  /\ signed \in BOOLEAN /\ silent \in BOOLEAN
  /\ waiver \in [Waivers -> Status] /\ due \subseteq Waivers
  /\ version \in [{"policy", "scanners"} -> Nat]
  /\ file \in [Repositories -> [Kinds -> File]]
  /\ request \in [Handlers -> Request]
  /\ approved \subseteq Waivers /\ unclean \subseteq Kinds \cup {"none"}

\* A request that is about a kind of file writes that kind; one that decides
\* on waivers comes from somebody who may.
Writing == {"list", "read"} \cup Repositories
Formed(q) ==
  /\ q.kind = KindOf(q.op)
  /\ q.at = "idle" <=> q.op = "none"
  /\ q.at = "find" => q.op = "decide"
  /\ q.op \in {"request", "decide"} => q.waiver \in Waivers
  /\ q.op = "decide" => q.may /\ q.status \in Status \ {"none"}
  /\ q.kind \in {"policy", "scanners"} => q.value \in Nat
  /\ q.at \in Writing => q.kind \in Kinds

\* The log entries that a request has made.
Logged(q) ==
  /\ q.at = "governed" => "application" \in q.logs
  /\ q.at \in Writing \cup {"reply"} => q.logs = {"application", "governed"}

\* A request about waivers is about to write none but the given ones.
Carries(q, allowed) ==
  /\ q.kind = "waivers" /\ q.at \in {"read"} \cup Repositories =>
       q.value \in [Waivers -> Status] /\ \A w \in Waivers : q.value[w] = "active" => w \in allowed
  /\ q.kind = "waivers" /\ q.at \in Repositories => q.kept \subseteq allowed

\* Nobody writes where configuration is signed.
Requests ==
  \A h \in Handlers :
    /\ Formed(request[h]) /\ Logged(request[h]) /\ Carries(request[h], approved)
    /\ signed => request[h].at \notin {"read"} \cup Repositories

\* Only what was approved is active, and only what was asked for is approved.
Approved ==
  \A w \in Waivers :
    /\ waiver[w] = "active" => w \in approved
    /\ w \in approved => waiver[w] # "none"

\* A file is whole, and says what the database says.
Whole(r, kind) == ~ file[r][kind].torn /\ file[r][kind].own
Matches(r, kind) ==
  /\ kind = "waivers" => file[r][kind].managed \ due = Managed(r, waiver) \ due
  /\ kind = "policy" /\ r \in PolicyScope => file[r][kind].managed = version["policy"]
  /\ kind = "scanners" /\ r = Scanned => file[r][kind].managed = version["scanners"]

\* The repositories whose files the request still has to write.
Open(q) ==
  {r \in Repositories :
     \/ q.at \in {"audit", "governed", "list"} /\ r \in AppliesTo(q)
     \/ q.at \in {"read"} \cup Repositories /\ r \in q.todo
     \/ r = q.at}

\* What the request writes is what the database has.
Current(q) ==
  /\ q.kind = "policy" /\ q.at \in {"audit", "governed"} \cup Writing => q.value = version["policy"]
  /\ q.kind = "scanners" /\ q.at \in {"read"} \cup Repositories => q.value = version["scanners"]
  /\ q.kind = "waivers" /\ q.at \in {"read"} \cup Repositories =>
       /\ \A w \in Waivers \ due : q.value[w] = "active" <=> waiver[w] = "active"
       /\ \A w \in Waivers : q.value[w] = "none" <=> waiver[w] = "none"

\* Every file but the one that the request is writing is whole, and every file
\* that it has not yet to write matches the database.
Progress(q) ==
  /\ \A r \in Repositories \ {q.at} : Whole(r, q.kind)
  /\ \A r \in Repositories \ Open(q) : Matches(r, q.kind)
  /\ q.at \in Repositories => q.own /\ (q.kind = "waivers" => q.kept = {})
  /\ Current(q)

\* Of a kind that has seen no overlap and no failure: at most one request is at
\* work, and without one all files are whole and match.
Steady(kind) ==
  /\ \A g, h \in At(kind) : g = h
  /\ At(kind) = {} => \A r \in Repositories : Whole(r, kind) /\ Matches(r, kind)
  /\ \A h \in At(kind) : Progress(request[h])
AllSteady == \A kind \in Kinds \ unclean : Steady(kind)

AdminInv == Types /\ Requests /\ Approved /\ FilesGoverned /\ ~ silent /\ AllSteady

-----------------------------------------------------------------------------
(* Frames.                                                                 *)

\* Init establishes the invariant.
LEMMA InitAdmin == ASSUME AdministrationAssumption, Init PROVE AdminInv
<1>1. NoRequest \in Request /\ NoRequest.at = "idle" /\ NoRequest.kind = "none" /\ NoRequest.op = "none"
  BY SMT DEF NoRequest, Request, Stages, Operations, Status, Values
<1>2. \A k \in Kinds : Fresh(k) \in File /\ ~ Fresh(k).torn /\ Fresh(k).own
        /\ Fresh(k).managed = IF k = "waivers" THEN {} ELSE 0
  BY SMT DEF Fresh, File, Content
<1>3. Types
  <2>1. file \in [Repositories -> [Kinds -> File]]  BY <1>2 DEF Init
  <2>2. request \in [Handlers -> Request]  BY <1>1 DEF Init
  <2>3. signed \in BOOLEAN /\ silent \in BOOLEAN  BY Zenon DEF Init, AdministrationAssumption
  <2>4. waiver \in [Waivers -> Status] /\ version \in [{"policy", "scanners"} -> Nat]
    BY DEF Init, Status
  <2> QED  BY <2>1, <2>2, <2>3, <2>4 DEF Types, Init
<1>4. \A h \in Handlers : request[h] = NoRequest  BY DEF Init
<1>5. NoRequest.at \notin Writing \cup {"read", "reply", "governed", "find"}
  BY <1>1 DEF AdministrationAssumption, Stages, Writing
<1>6. Requests
  BY <1>1, <1>4, <1>5 DEF Requests, Formed, Logged, Carries, KindOf, Writing
<1>7. \A r \in Repositories, k \in Kinds : file[r][k] = Fresh(k)  BY DEF Init
<1>8. FilesGoverned  BY <1>2, <1>7 DEF FilesGoverned, Init, Kinds
<1>9. AllSteady
  <2>1. \A k \in Kinds : At(k) = {}  BY <1>1, <1>4 DEF At, Kinds
  <2>2. \A r \in Repositories, k \in Kinds : Whole(r, k)  BY <1>2, <1>7 DEF Whole
  <2>3. \A r \in Repositories : Managed(r, waiver) = {}  BY DEF Init, Managed
  <2>4. \A r \in Repositories, k \in Kinds : Matches(r, k)
    BY <1>2, <1>7, <2>3 DEF Matches, Kinds, Init
  <2> QED  BY <2>1, <2>2, <2>4 DEF AllSteady, Steady
<1>10. Approved /\ ~ silent  BY DEF Approved, Init
<1> QED  BY <1>3, <1>6, <1>8, <1>9, <1>10 DEF AdminInv

\* One handler goes on with q, the others stand.
LEMMA Turn ==
  ASSUME Types, NEW h \in Handlers, NEW q \in Request, request' = [request EXCEPT ![h] = q]
  PROVE  /\ request' \in [Handlers -> Request] /\ request'[h] = q
         /\ \A g \in Handlers \ {h} : request'[g] = request[g]
BY DEF Types

LEMMA RequestsNext ==
  ASSUME Types, Requests, NEW h \in Handlers, NEW q \in Request,
         request' = [request EXCEPT ![h] = q],
         signed' = signed, approved \subseteq approved', Formed(q), Logged(q), Carries(q, approved'),
         signed => q.at \notin {"read"} \cup Repositories
  PROVE  Requests'
<1>1. request'[h] = q /\ \A g \in Handlers \ {h} : request'[g] = request[g]  BY Turn
<1>2. ASSUME NEW g \in Handlers
      PROVE  /\ Formed(request'[g]) /\ Logged(request'[g]) /\ Carries(request'[g], approved')
             /\ signed => request'[g].at \notin {"read"} \cup Repositories
  <2>1. CASE g = h  BY <2>1, <1>1
  <2>2. CASE g # h
    <3>1. request'[g] = request[g]  BY <2>2, <1>1
    <3>2. Carries(request[g], approved) => Carries(request[g], approved')  BY DEF Carries
    <3> QED  BY <3>1, <3>2 DEF Requests
  <2> QED  BY <2>1, <2>2
<1> QED  BY <1>2, Zenon DEF Requests, Formed, Logged, Carries

\* A step of a handler disturbs the kind of its own request only.
Framed(own) ==
  \A k \in Kinds \ {own} :
    /\ \A r \in Repositories : file'[r][k] = file[r][k]
    /\ k = "waivers" => waiver' = waiver
    /\ k # "waivers" => version'[k] = version[k]

LEMMA SteadyElsewhere ==
  ASSUME Types, NEW h \in Handlers, NEW q \in Request, request' = [request EXCEPT ![h] = q],
         NEW own, Framed(own), request[h].kind \in {own, "none"}, q.kind \in {own, "none"}, due' = due,
         NEW k \in Kinds \ {own}, Steady(k)
  PROVE  Steady(k)'
<1>1. request'[h] = q /\ \A g \in Handlers \ {h} : request'[g] = request[g]  BY Turn
<1>2. At(k)' = At(k) /\ h \notin At(k)  BY <1>1 DEF At, Kinds
<1>3. \A g \in At(k) : request'[g] = request[g] /\ request[g].kind = k  BY <1>1, <1>2 DEF At
<1>4. /\ \A r \in Repositories : file'[r][k] = file[r][k]
      /\ k = "waivers" => waiver' = waiver
      /\ k = "policy" => version'["policy"] = version["policy"]
      /\ k = "scanners" => version'["scanners"] = version["scanners"]
  BY DEF Framed
<1>5. \A r \in Repositories : Whole(r, k)' = Whole(r, k)  BY <1>4 DEF Whole
<1>6. \A r \in Repositories : Matches(r, k)' <=> Matches(r, k)
  BY <1>4 DEF Matches, Managed
<1>7. ASSUME NEW g \in At(k) PROVE Progress(request[g])'
  <2>1. request'[g] = request[g] /\ request[g].kind = k /\ Progress(request[g])
    BY <1>3 DEF Steady
  <2>2. Current(request[g])'  BY <2>1, <1>4 DEF Progress, Current
  <2>3. Open(request[g])' = Open(request[g])  BY <2>1 DEF Open, AppliesTo
  <2> QED  BY <2>1, <2>2, <2>3, <1>5, <1>6 DEF Progress
<1> QED  BY <1>2, <1>5, <1>6, <1>7 DEF Steady

\* Its own kind stays steady if the request has progressed, or ended with all
\* files in order.
LEMMA SteadyNext ==
  ASSUME Types, AllSteady, NEW h \in Handlers, NEW q \in Request,
         request' = [request EXCEPT ![h] = q], unclean \subseteq unclean', due' = due,
         NEW own, request[h].kind = own, Framed(own), q.kind \in {own, "none"},
         own \in Kinds \ unclean' =>
           IF q.kind = "none" THEN \A r \in Repositories : Whole(r, own)' /\ Matches(r, own)'
           ELSE Progress(q)'
  PROVE  AllSteady'
<1> SUFFICES ASSUME NEW k \in Kinds \ unclean' PROVE Steady(k)'
  BY Zenon DEF AllSteady
<1>1. Steady(k)  BY DEF AllSteady
<1>2. CASE k # own
  BY <1>1, <1>2, SteadyElsewhere
<1>3. CASE k = own
  <2>1. request'[h] = q /\ \A g \in Handlers \ {h} : request'[g] = request[g]  BY Turn
  <2>2. At(k) = {h}  BY <1>1, <1>3 DEF At, Steady
  <2>3. CASE q.kind = "none"
    <3>1. At(k)' = {}  BY <2>1, <2>2, <2>3 DEF At, Kinds
    <3>2. \A r \in Repositories : Whole(r, k)' /\ Matches(r, k)'
      BY <1>3, <2>3
    <3> QED  BY <3>1, <3>2 DEF Steady
  <2>4. CASE q.kind # "none"
    <3>1. At(k)' = {h}  BY <1>3, <2>1, <2>2, <2>4 DEF At
    <3>2. Progress(q)' /\ q.kind = k  BY <1>3, <2>4
    <3>3. Open(request[h])' = Open(q)'  BY <2>1 DEF Open, AppliesTo
    <3>4. Current(request[h])'  BY <2>1, <3>2 DEF Current, Progress
    <3>5. Progress(request[h])'  BY <2>1, <3>2, <3>3, <3>4 DEF Progress
    <3> QED  BY <3>1, <3>5 DEF Steady
  <2> QED  BY <2>3, <2>4
<1> QED  BY <1>2, <1>3

\* A request has progressed as long as nothing has come between.
LEMMA OwnProgress ==
  ASSUME AllSteady, NEW h \in Handlers, request[h].kind \in Kinds \ unclean PROVE Progress(request[h])
BY DEF AllSteady, Steady, At

\* No stage is a repository.
LEMMA Apart == ASSUME AdministrationAssumption PROVE \A r \in Repositories : r \notin Stages
BY DEF AdministrationAssumption

-----------------------------------------------------------------------------
(* Steps that leave the files alone.                                       *)

\* What listWaivers does to the database.
Lists ==
  /\ waiver' \in [Waivers -> Status]
  /\ \A w \in Waivers : waiver'[w] = "active" => waiver[w] = "active"
  /\ \A w \in Waivers \ due : waiver'[w] = waiver[w]
  /\ \A w \in Waivers : waiver'[w] = "none" <=> waiver[w] = "none"

LEMMA ListedLists == ASSUME Types, waiver' \in {waiver, Listed} PROVE Lists
<1>1. Listed \in [Waivers -> Status] /\ \A w \in Waivers :
        /\ Listed[w] = "active" => waiver[w] = "active"
        /\ w \notin due => Listed[w] = waiver[w]
        /\ Listed[w] = "none" <=> waiver[w] = "none"
  BY DEF Listed, Types, Status
<1> QED  BY <1>1 DEF Lists, Types

\* A request goes on, or ends, with nothing changed but what listWaivers does.
LEMMA QuietNext ==
  ASSUME AdminInv, NEW h \in Handlers, NEW q \in Request, request' = [request EXCEPT ![h] = q],
         UNCHANGED <<signed, due, version, file, approved>>, ~ silent', silent' \in BOOLEAN,
         unclean \subseteq unclean', unclean' \subseteq Kinds \cup {"none"},
         Lists, waiver' = waiver \/ request[h].kind = "waivers",
         Formed(q), Logged(q), Carries(q, approved), signed => q.at \notin {"read"} \cup Repositories,
         q.kind \in {request[h].kind, "none"},
         request[h].kind \in Kinds \ unclean' =>
           IF q.kind = "none" THEN \A r \in Repositories : Whole(r, request[h].kind) /\ Matches(r, request[h].kind)
           ELSE Progress(q)
  PROVE  AdminInv'
<1>1. Types /\ Requests /\ AllSteady /\ Approved /\ FilesGoverned  BY DEF AdminInv
<1>2. PICK own : own = request[h].kind  OBVIOUS
<1>3. Types'
  <2>1. request' \in [Handlers -> Request]  BY <1>1, Turn
  <2>2. waiver' \in [Waivers -> Status]  BY DEF Lists
  <2> QED  BY <1>1, <2>1, <2>2, Zenon DEF Types
<1>4. Requests'  BY <1>1, RequestsNext
<1>5. Approved'  BY <1>1 DEF Approved, Lists
<1>6. FilesGoverned'  BY <1>1 DEF FilesGoverned, Fresh
<1>7. Framed(own)  BY <1>2 DEF Framed
<1>8. \A r \in Repositories : Whole(r, own)' <=> Whole(r, own)  BY DEF Whole
<1>9. \A r \in Repositories : Matches(r, own)' <=> Matches(r, own)
  <2>1. \A r \in Repositories : Managed(r, waiver)' \ due = Managed(r, waiver) \ due
    BY DEF Managed, Lists
  <2> QED  BY <2>1 DEF Matches
<1>10. Progress(q) => Progress(q)'
  <2> SUFFICES ASSUME Progress(q) PROVE Progress(q)'
    OBVIOUS
  <2>1. Current(q)'  BY DEF Progress, Current, Lists
  <2>2. Open(q)' = Open(q)  BY DEF Open, AppliesTo
  <2>3. \A r \in Repositories : Whole(r, q.kind)' <=> Whole(r, q.kind)  BY DEF Whole
  <2>4. \A r \in Repositories : Matches(r, q.kind)' <=> Matches(r, q.kind)
    <3>1. \A r \in Repositories : Managed(r, waiver)' \ due = Managed(r, waiver) \ due
      BY DEF Managed, Lists
    <3> QED  BY <3>1 DEF Matches
  <2> QED  BY <2>1, <2>2, <2>3, <2>4 DEF Progress
<1>11. own \in Kinds \ unclean' =>
         IF q.kind = "none" THEN \A r \in Repositories : Whole(r, own)' /\ Matches(r, own)'
         ELSE Progress(q)'
  BY <1>2, <1>8, <1>9, <1>10
<1>12. AllSteady'  BY <1>1, <1>2, <1>7, <1>11, SteadyNext
<1> QED  BY <1>3, <1>4, <1>5, <1>6, <1>12 DEF AdminInv

\* Nothing that a request does is left of it when it has ended.
LEMMA Ended ==
  ASSUME AdministrationAssumption
  PROVE  /\ NoRequest \in Request /\ NoRequest.kind = "none" /\ NoRequest.at \notin {"read"} \cup Repositories
         /\ Formed(NoRequest) /\ Logged(NoRequest) /\ \A S : Carries(NoRequest, S)
<1>1. NoRequest \in Request /\ NoRequest.at = "idle" /\ NoRequest.kind = "none" /\ NoRequest.op = "none"
  BY SMT DEF NoRequest, Request, Stages, Operations, Status, Values
<1>2. NoRequest.at \notin Writing \cup {"read", "reply", "governed", "find"}
  BY <1>1, Apart DEF Stages, Writing
<1> QED  BY <1>1, <1>2 DEF Formed, Logged, Carries, KindOf, Writing

\* Unchanged, a waiver list is listed.
LEMMA StillLists == ASSUME Types, waiver' = waiver PROVE Lists
BY ListedLists

\* Both logs, one after the other.
LEMMA AuditNext ==
  ASSUME AdministrationAssumption, AdminInv, NEW h \in Handlers, AppendAudit(h) \/ GovernedAudit(h)
  PROVE  AdminInv'
<1>1. Types /\ Requests /\ AllSteady  BY DEF AdminInv
<1>2. PICK q0 \in Request : q0 = request[h]  BY <1>1 DEF Types
<1>3. /\ UNCHANGED <<signed, due, version, file, approved, unclean, silent>> /\ waiver' = waiver
  BY DEF AppendAudit, GovernedAudit, Log, database
<1>4. Formed(q0) /\ Logged(q0)  BY <1>1, <1>2 DEF Requests
<1>5. ASSUME NEW log \in {"application", "governed"}, NEW to \in {"governed", "list", "reply"},
             request' = [request EXCEPT ![h].at = to, ![h].logs = @ \cup {log}],
             q0.at = IF log = "application" THEN "audit" ELSE "governed",
             to = IF log = "application" THEN "governed" ELSE IF q0.kind = "none" THEN "reply" ELSE "list"
      PROVE  AdminInv'
  <2>1. PICK q : q = [q0 EXCEPT !.at = to, !.logs = @ \cup {log}]  OBVIOUS
  <2>2. q \in Request  BY <2>1 DEF Request, Stages
  <2>3. request' = [request EXCEPT ![h] = q]  BY <1>2, <1>5, <2>1
  <2>4. /\ q.at = to /\ q.logs = q0.logs \cup {log} /\ q.op = q0.op /\ q.kind = q0.kind
        /\ q.waiver = q0.waiver /\ q.may = q0.may /\ q.status = q0.status /\ q.value = q0.value
        /\ q.todo = q0.todo
    BY <2>1 DEF Request
  <2>5. to \notin {"read"} \cup Repositories  BY Apart DEF Stages
  <2>6. Formed(q)
    <3>1. q.at \in Writing => q.at = "list"  BY <2>4, <2>5 DEF Writing
    <3>2. q.at = "list" => q.kind \in Kinds  BY <1>5, <2>4 DEF Request
    <3>3. q0.at # "idle"  BY <1>5
    <3> QED  BY <1>4, <2>4, <3>1, <3>2, <3>3 DEF Formed
  <2>7. Logged(q)
    <3>1. q0.logs \subseteq {"application", "governed"}  BY DEF Request
    <3>2. CASE log = "application"
      <4>1. q.at = "governed" /\ "application" \in q.logs  BY <1>5, <2>4, <3>2
      <4>2. q.at \notin Writing \cup {"reply"}  BY <4>1, <2>4, <2>5 DEF Writing
      <4> QED  BY <4>1, <4>2 DEF Logged
    <3>3. CASE log = "governed"
      <4>1. "application" \in q0.logs  BY <1>4, <1>5, <3>3 DEF Logged
      <4>2. q.logs = {"application", "governed"}  BY <4>1, <2>4, <3>1, <3>3
      <4> QED  BY <4>2 DEF Logged
    <3> QED  BY <3>2, <3>3
  <2>8. Carries(q, approved)  BY <2>4, <2>5 DEF Carries
  <2>9. ASSUME q0.kind \in Kinds \ unclean PROVE Progress(q)
    <3>1. Progress(q0)  BY <1>1, <1>2, <2>9, OwnProgress
    <3>2. q.at \in {"governed", "list"}  BY <1>5, <2>4, <2>9 DEF Kinds
    <3>3. q.at \notin Repositories /\ q0.at \notin Repositories /\ q.at # "read"
      BY <1>5, <2>4, <2>5, Apart DEF Stages
    <3>4. Open(q) = Open(q0)
      <4>1. AppliesTo(q) = AppliesTo(q0)  BY <2>4 DEF AppliesTo
      <4> QED  BY <1>5, <2>4, <3>2, <3>3, <4>1 DEF Open
    <3>5. Current(q)
      BY <1>5, <2>4, <3>1, <3>2, <3>3 DEF Current, Progress
    <3> QED  BY <2>4, <3>1, <3>3, <3>4, <3>5 DEF Progress
  <2>10. q.kind # "none" \/ request[h].kind \notin Kinds  BY <1>2, <2>4 DEF Kinds
  <2>11. Lists /\ ~ silent' /\ silent' \in BOOLEAN /\ unclean' \subseteq Kinds \cup {"none"}
    <3>1. Lists  BY <1>1, <1>3, StillLists
    <3>2. ~ silent' /\ silent' \in BOOLEAN  BY <1>3, Zenon DEF AdminInv, Types
    <3> QED  BY <1>3, <3>1, <3>2, Zenon DEF AdminInv, Types
  <2>12. request[h].kind \in Kinds \ unclean' =>
           IF q.kind = "none" THEN \A r \in Repositories : Whole(r, request[h].kind) /\ Matches(r, request[h].kind)
           ELSE Progress(q)
    BY <1>2, <1>3, <2>9, <2>10
  <2>13. unclean \subseteq unclean' /\ q.kind \in {request[h].kind, "none"}
         /\ (signed => q.at \notin {"read"} \cup Repositories)
    BY <1>2, <1>3, <2>4, <2>5
  <2> QED
    BY <1>3, <2>2, <2>3, <2>6, <2>7, <2>8, <2>11, <2>12, <2>13, QuietNext
<1>6. CASE AppendAudit(h)
  <2>1. q0.at = "audit" /\ request' = [request EXCEPT ![h].at = "governed", ![h].logs = @ \cup {"application"}]
    BY <1>2, <1>6 DEF AppendAudit, Log
  <2> QED  BY <2>1, <1>5
<1>7. CASE GovernedAudit(h)
  <2>1. q0.at = "governed" /\ request' = [request EXCEPT
          ![h].at = IF request[h].kind = "none" THEN "reply" ELSE "list", ![h].logs = @ \cup {"governed"}]
    BY <1>2, <1>7 DEF GovernedAudit, Log
  <2> QED  BY <1>2, <2>1, <1>5
<1> QED  BY <1>6, <1>7

\* A success is answered when both logs have it.
LEMMA ReplyNext ==
  ASSUME AdministrationAssumption, AdminInv, NEW h \in Handlers, Reply(h) PROVE AdminInv'
<1>1. Types /\ Requests /\ AllSteady  BY DEF AdminInv
<1>2. /\ UNCHANGED <<signed, due, version, file, approved, unclean>> /\ waiver' = waiver
      /\ request' = [request EXCEPT ![h] = NoRequest] /\ request[h].at = "reply"
  BY DEF Reply, database
<1>3. ~ silent' /\ silent' \in BOOLEAN
  <2>1. request[h].logs = {"application", "governed"}  BY <1>1, <1>2 DEF Requests, Logged
  <2>2. silent' = (silent \/ request[h].logs # {"application", "governed"})  BY Zenon DEF Reply
  <2>3. ~ silent  BY DEF AdminInv
  <2>4. silent' = FALSE  BY <2>1, <2>2, <2>3, Zenon
  <2> QED  BY <2>4, Zenon
<1>4. ASSUME request[h].kind \in Kinds \ unclean
      PROVE  \A r \in Repositories : Whole(r, request[h].kind) /\ Matches(r, request[h].kind)
  <2>1. Progress(request[h])  BY <1>1, <1>4, OwnProgress
  <2>2. request[h].at \notin Repositories  BY <1>2, Apart DEF Stages
  <2>3. Open(request[h]) = {}  BY <1>2, <2>2 DEF Open
  <2> QED  BY <2>1, <2>2, <2>3 DEF Progress
<1>5. Lists /\ unclean' \subseteq Kinds \cup {"none"}  BY <1>1, <1>2, StillLists DEF Types
<1> QED  BY <1>1, <1>2, <1>3, <1>4, <1>5, Ended, QuietNext

\* A request that fails takes its kind out of account.
LEMMA FailNext ==
  ASSUME AdministrationAssumption, AdminInv, NEW h \in Handlers, Fail(h) PROVE AdminInv'
<1>1. Types  BY DEF AdminInv
<1>2. /\ UNCHANGED <<signed, due, version, file, approved, silent>> /\ waiver' = waiver
      /\ request' = [request EXCEPT ![h] = NoRequest] /\ unclean' = unclean \cup {request[h].kind}
  BY DEF Fail, AfterFailure, database
<1>3. request[h].kind \in Kinds \cup {"none"}  BY <1>1 DEF Types, Request
<1>4. Lists  BY <1>1, <1>2, StillLists
<1>5. ~ silent' /\ silent' \in BOOLEAN  BY <1>2, Zenon DEF AdminInv, Types
<1>6. unclean \subseteq unclean' /\ unclean' \subseteq Kinds \cup {"none"}  BY <1>1, <1>2, <1>3 DEF Types
<1>7. request[h].kind \notin Kinds \ unclean'  BY <1>2
<1> QED  BY <1>2, <1>4, <1>5, <1>6, <1>7, Ended, QuietNext

\* A waiver is looked up before it is decided on.
LEMMA FindNext ==
  ASSUME AdministrationAssumption, AdminInv, NEW h \in Handlers, Find(h) PROVE AdminInv'
<1>1. Types /\ Requests /\ AllSteady  BY DEF AdminInv
<1>2. PICK q0 \in Request : q0 = request[h]  BY <1>1 DEF Types
<1>3. /\ UNCHANGED <<signed, due, version, file, approved, unclean, silent>> /\ waiver' = Listed
      /\ q0.at = "find"
      /\ request' = [request EXCEPT ![h] = NoRequest] \/ request' = [request EXCEPT ![h].at = "change"]
  BY <1>2 DEF Find, Go
<1>4. Formed(q0)  BY <1>1, <1>2 DEF Requests
<1>5. q0.op = "decide" /\ q0.kind = "waivers"  BY <1>3, <1>4 DEF Formed, KindOf
<1>6. ~ silent' /\ silent' \in BOOLEAN /\ unclean' \subseteq Kinds \cup {"none"}
  BY <1>3, Zenon DEF AdminInv, Types
<1>7. Lists  BY <1>1, <1>3, ListedLists
<1>8. q0.at \notin Repositories /\ "change" \notin Repositories \cup Writing \cup {"read", "reply"}
  BY <1>3, Apart DEF Stages, Writing
<1>9. ASSUME q0.kind \in Kinds \ unclean
      PROVE  \A r \in Repositories : Whole(r, q0.kind) /\ Matches(r, q0.kind)
  <2>1. Progress(q0)  BY <1>1, <1>2, <1>9, OwnProgress
  <2>2. Open(q0) = {}  BY <1>3, <1>8 DEF Open
  <2> QED  BY <1>8, <2>1, <2>2 DEF Progress
<1>10. CASE request' = [request EXCEPT ![h] = NoRequest]
  <2>1. request[h].kind = "waivers"  BY <1>2, <1>5
  <2>2. request[h].kind \in Kinds \ unclean' =>
          \A r \in Repositories : Whole(r, request[h].kind) /\ Matches(r, request[h].kind)
    BY <1>2, <1>3, <1>9
  <2> QED  BY <1>3, <1>6, <1>7, <1>10, <2>1, <2>2, Ended, QuietNext
<1>11. CASE request' = [request EXCEPT ![h].at = "change"]
  <2>1. PICK q : q = [q0 EXCEPT !.at = "change"]  OBVIOUS
  <2>2. q \in Request /\ request' = [request EXCEPT ![h] = q]
    BY <1>2, <1>11, <2>1 DEF Request, Stages
  <2>3. /\ q.at = "change" /\ q.op = "decide" /\ q.kind = "waivers" /\ q.waiver = q0.waiver
        /\ q.may = q0.may /\ q.status = q0.status
    BY <1>5, <2>1 DEF Request
  <2>4. Formed(q) /\ Logged(q) /\ Carries(q, approved) /\ q.at \notin {"read"} \cup Repositories
    <3>1. Formed(q)  BY <1>4, <1>5, <1>8, <2>3 DEF Formed, KindOf
    <3>2. Logged(q) /\ Carries(q, approved)  BY <1>8, <2>3 DEF Logged, Carries
    <3> QED  BY <1>8, <2>3, <3>1, <3>2
  <2>5. ASSUME q0.kind \in Kinds \ unclean PROVE Progress(q)
    <3>1. Open(q) = {}  BY <1>8, <2>3 DEF Open
    <3>2. Current(q)  BY <1>8, <2>3 DEF Current
    <3> QED  BY <1>5, <1>8, <1>9, <2>3, <2>5, <3>1, <3>2 DEF Progress
  <2>6. request[h].kind = "waivers" /\ q.kind \in {request[h].kind, "none"} /\ q.kind # "none"
    BY <1>2, <1>5, <2>3
  <2> QED  BY <1>2, <1>3, <1>6, <1>7, <2>2, <2>4, <2>5, <2>6, QuietNext
<1> QED  BY <1>3, <1>10, <1>11

\* The repositories that a request writes to are registered.
LEMMA AppliesToRepositories ==
  ASSUME AdministrationAssumption, NEW q \in Request, Formed(q), q.kind \in Kinds
  PROVE  AppliesTo(q) \subseteq Repositories
<1>1. q.kind = "waivers" => q.waiver \in Waivers
  BY DEF Formed, KindOf, Request, Operations
<1> QED  BY <1>1 DEF AppliesTo, AdministrationAssumption, Kinds

\* What there is to write is read from the database.
LEMMA ListNext ==
  ASSUME AdministrationAssumption, AdminInv, NEW h \in Handlers, List(h) PROVE AdminInv'
<1>1. Types /\ Requests /\ AllSteady /\ Approved  BY DEF AdminInv
<1>2. PICK q0 \in Request : q0 = request[h]  BY <1>1 DEF Types
<1>3. PICK listed : listed = waiver'  OBVIOUS
<1>4. /\ UNCHANGED <<signed, due, version, file, approved, silent>>
      /\ waiver' = IF q0.kind = "waivers" THEN Listed ELSE waiver
      /\ q0.at = "list"
      /\ unclean' = IF signed THEN unclean \cup {q0.kind} ELSE unclean
  BY <1>2 DEF List, Blocked
<1>5. request' = IF signed THEN [request EXCEPT ![h] = NoRequest]
                 ELSE [request EXCEPT ![h].at = "read", ![h].todo = AppliesTo(q0),
                         ![h].value = IF q0.kind = "waivers" THEN listed
                                      ELSE IF q0.kind = "scanners" THEN version["scanners"] ELSE q0.value]
  BY <1>2, <1>3, Zenon DEF List, Blocked, Targets
<1>6. Lists /\ (waiver' = waiver \/ request[h].kind = "waivers")
  <2>1. waiver' \in {waiver, Listed}  BY <1>4
  <2> QED  BY <1>1, <1>2, <1>4, <2>1, ListedLists
<1>7. Formed(q0) /\ Logged(q0)  BY <1>1, <1>2 DEF Requests
<1>8. q0.kind \in Kinds /\ q0.logs = {"application", "governed"}
  BY <1>4, <1>7 DEF Formed, Logged, Writing
<1>9. /\ ~ silent' /\ silent' \in BOOLEAN /\ unclean \subseteq unclean'
      /\ unclean' \subseteq Kinds \cup {"none"}
  <2>1. ~ silent' /\ silent' \in BOOLEAN  BY <1>4, Zenon DEF AdminInv, Types
  <2> QED  BY <1>1, <1>4, <1>8, <2>1 DEF Types
<1>10. CASE signed
  <2>1. request' = [request EXCEPT ![h] = NoRequest] /\ request[h].kind \notin Kinds \ unclean'
    BY <1>2, <1>4, <1>5, <1>10
  <2> QED  BY <1>4, <1>6, <1>9, <2>1, Ended, QuietNext
<1>11. CASE ~ signed
  <2>1. PICK value : value = IF q0.kind = "waivers" THEN listed
                             ELSE IF q0.kind = "scanners" THEN version["scanners"] ELSE q0.value
    OBVIOUS
  <2>2. PICK q : q = [q0 EXCEPT !.at = "read", !.todo = AppliesTo(q0), !.value = value]  OBVIOUS
  <2>3. AppliesTo(q0) \subseteq Repositories  BY <1>7, <1>8, AppliesToRepositories
  <2>4. value \in Values
    <3>1. listed \in [Waivers -> Status]  BY <1>3, <1>6 DEF Lists
    <3>2. version["scanners"] \in Nat  BY <1>1 DEF Types
    <3>3. q0.value \in Values  BY DEF Request
    <3> QED  BY <2>1, <3>1, <3>2, <3>3 DEF Values
  <2>5. q \in Request  BY <2>2, <2>3, <2>4 DEF Request, Stages
  <2>6. request' = [request EXCEPT ![h] = q]  BY <1>2, <1>5, <1>11, <2>1, <2>2
  <2>7. /\ q.at = "read" /\ q.todo = AppliesTo(q0) /\ q.value = value /\ q.op = q0.op
        /\ q.kind = q0.kind /\ q.waiver = q0.waiver /\ q.may = q0.may /\ q.status = q0.status
        /\ q.logs = q0.logs
    BY <2>2 DEF Request
  <2>8. Formed(q) /\ Logged(q)
    <3>1. q0.kind \in {"policy", "scanners"} => value \in Nat
      <4>1. version["scanners"] \in Nat  BY <1>1 DEF Types
      <4> QED  BY <1>7, <2>1, <4>1 DEF Formed
    <3>2. Formed(q)  BY <1>4, <1>7, <1>8, <2>7, <3>1 DEF Formed
    <3> QED  BY <1>8, <2>7, <3>2 DEF Logged
  <2>9. Carries(q, approved)
    <3> SUFFICES ASSUME q0.kind = "waivers"
                 PROVE  q.value \in [Waivers -> Status] /\ \A w \in Waivers : q.value[w] = "active" => w \in approved
      BY <2>7, Apart DEF Carries, Stages
    <3>1. q.value = waiver'  BY <1>3, <2>1, <2>7
    <3>2. waiver' \in [Waivers -> Status] /\ \A w \in Waivers : waiver'[w] = "active" => waiver[w] = "active"
      BY <1>6 DEF Lists
    <3>3. \A w \in Waivers : waiver[w] = "active" => w \in approved  BY <1>1 DEF Approved
    <3>4. \A w \in Waivers : waiver'[w] = "active" => w \in approved  BY <3>2, <3>3, Zenon
    <3> QED  BY <3>1, <3>2, <3>4, Zenon
  <2>10. ASSUME q0.kind \in Kinds \ unclean PROVE Progress(q)
    <3>1. Progress(q0)  BY <1>1, <1>2, <2>10, OwnProgress
    <3>2. q0.at \notin Repositories /\ q.at \notin Repositories  BY <1>4, <2>7, Apart DEF Stages
    <3>3. Open(q) = Open(q0)  BY <1>4, <2>7, <3>2 DEF Open
    <3>4. Current(q)
      <4>1. q0.kind = "policy" => q.value = version["policy"]
        BY <1>4, <2>1, <2>7, <3>1 DEF Current, Progress, Writing
      <4>2. q0.kind = "scanners" => q.value = version["scanners"]  BY <2>1, <2>7
      <4>3. q0.kind = "waivers" => /\ \A w \in Waivers \ due : q.value[w] = "active" <=> waiver[w] = "active"
                                   /\ \A w \in Waivers : q.value[w] = "none" <=> waiver[w] = "none"
        BY <1>3, <1>6, <2>1, <2>7 DEF Lists
      <4> QED  BY <2>7, <4>1, <4>2, <4>3 DEF Current
    <3> QED  BY <2>7, <3>1, <3>2, <3>3, <3>4 DEF Progress
  <2>11. q.kind # "none" /\ q.kind \in {request[h].kind, "none"}  BY <1>2, <1>8, <2>7 DEF Kinds
  <2> QED  BY <1>2, <1>4, <1>6, <1>9, <1>11, <2>5, <2>6, <2>8, <2>9, <2>10, <2>11, QuietNext
<1> QED  BY <1>10, <1>11

\* A file is read before it is written.
LEMMA ReadNext ==
  ASSUME AdministrationAssumption, AdminInv, NEW h \in Handlers, ReadFile(h) PROVE AdminInv'
<1>1. Types /\ Requests /\ AllSteady /\ Approved /\ FilesGoverned  BY DEF AdminInv
<1>2. PICK q0 \in Request : q0 = request[h]  BY <1>1 DEF Types
<1>3. /\ UNCHANGED <<signed, due, version, file, approved, unclean, silent>> /\ waiver' = waiver
      /\ q0.at = "read"
  BY <1>2 DEF ReadFile, database
<1>4. Formed(q0) /\ Logged(q0) /\ Carries(q0, approved) /\ ~ signed
  BY <1>1, <1>2, <1>3 DEF Requests
<1>5. q0.kind \in Kinds /\ q0.logs = {"application", "governed"} /\ q0.op # "none"
  BY <1>3, <1>4 DEF Formed, Logged, Writing
<1>6. /\ ~ silent' /\ silent' \in BOOLEAN /\ unclean' \subseteq Kinds \cup {"none"}
  BY <1>3, Zenon DEF AdminInv, Types
<1>7. Lists  BY <1>1, <1>3, StillLists
<1>8. "read" \notin Repositories /\ "reply" \notin Repositories \cup Writing  BY Apart DEF Stages, Writing
<1>9. ASSUME q0.kind \in Kinds \ unclean
      PROVE  /\ \A r \in Repositories : Whole(r, q0.kind)
             /\ \A r \in Repositories \ q0.todo : Matches(r, q0.kind)
             /\ Current(q0)
  <2>1. Progress(q0)  BY <1>1, <1>2, <1>9, OwnProgress
  <2>2. Open(q0) = q0.todo  BY <1>3, <1>8 DEF Open, Request
  <2> QED  BY <1>3, <1>8, <2>1, <2>2 DEF Progress
<1>10. ASSUME NEW q \in Request, request' = [request EXCEPT ![h] = q], q.kind = q0.kind,
              Formed(q), Logged(q), Carries(q, approved), q0.kind \in Kinds \ unclean => Progress(q)
       PROVE  AdminInv'
  <2>1. q.kind # "none" /\ q.kind \in {request[h].kind, "none"}  BY <1>2, <1>5, <1>10 DEF Kinds
  <2> QED  BY <1>2, <1>3, <1>4, <1>6, <1>7, <1>10, <2>1, QuietNext
<1>11. CASE q0.todo = {}
  <2>1. request' = [request EXCEPT ![h].at = "reply"]  BY <1>2, <1>11 DEF ReadFile, Go
  <2>2. PICK q : q = [q0 EXCEPT !.at = "reply"]  OBVIOUS
  <2>3. q \in Request /\ request' = [request EXCEPT ![h] = q]
    BY <1>2, <2>1, <2>2 DEF Request, Stages
  <2>4. /\ q.at = "reply" /\ q.logs = q0.logs /\ q.op = q0.op /\ q.kind = q0.kind
        /\ q.waiver = q0.waiver /\ q.may = q0.may /\ q.status = q0.status /\ q.value = q0.value
    BY <2>2 DEF Request
  <2>5. Formed(q)  BY <1>4, <1>5, <1>8, <2>4 DEF Formed
  <2>6. Logged(q) /\ Carries(q, approved)  BY <1>5, <1>8, <2>4 DEF Logged, Carries
  <2>7. ASSUME q0.kind \in Kinds \ unclean PROVE Progress(q)
    <3>1. Current(q)  BY <1>8, <2>4 DEF Current
    <3> QED  BY <1>8, <1>9, <1>11, <2>4, <2>7, <3>1 DEF Progress
  <2> QED  BY <1>10, <2>3, <2>4, <2>5, <2>6, <2>7
<1>12. CASE q0.todo # {}
  <2>1. PICK r \in q0.todo :
          LET old == file[r][q0.kind] IN
          request' = [request EXCEPT ![h].at = r, ![h].todo = @ \ {r}, ![h].own = old.own /\ ~old.torn,
                        ![h].kept = IF q0.kind = "waivers" /\ ~old.torn THEN Unlisted(old, q0.value) ELSE {}]
    BY <1>2, <1>12, Zenon DEF ReadFile
  <2>2. PICK own \in BOOLEAN : own = (file[r][q0.kind].own /\ ~ file[r][q0.kind].torn)  BY Zenon
  <2>3. PICK kept : kept = IF q0.kind = "waivers" /\ ~ file[r][q0.kind].torn THEN Unlisted(file[r][q0.kind], q0.value) ELSE {}
    OBVIOUS
  <2>4. r \in Repositories  BY DEF Request
  <2>14. kept \subseteq approved
    <3> SUFFICES ASSUME q0.kind = "waivers", NEW w \in kept PROVE w \in approved  BY <2>3
    <3>1. w \in file[r]["waivers"].managed  BY <2>3 DEF Unlisted
    <3> QED  BY <1>1, <2>4, <3>1 DEF FilesGoverned
  <2>15. PICK q : q = [q0 EXCEPT !.at = r, !.todo = @ \ {r}, !.own = own, !.kept = kept]  OBVIOUS
  <2>5. q \in Request
    <3>1. kept \subseteq Waivers  BY <1>1, <2>14 DEF Types
    <3>2. q0.todo \ {r} \subseteq Repositories  BY DEF Request
    <3> QED  BY <2>2, <2>15, <2>4, <3>1, <3>2 DEF Request
  <2>6. request' = [request EXCEPT ![h] = q]  BY <1>2, <2>1, <2>2, <2>3, <2>15, Zenon
  <2>7. /\ q.at = r /\ q.todo = q0.todo \ {r} /\ q.logs = q0.logs /\ q.op = q0.op /\ q.kind = q0.kind
        /\ q.waiver = q0.waiver /\ q.may = q0.may /\ q.status = q0.status /\ q.value = q0.value
        /\ q.kept = kept
    BY <2>15 DEF Request
  <2>8. r \notin Stages  BY <2>4, Apart
  <2>9. Formed(q)  BY <1>4, <1>5, <2>7, <2>8 DEF Formed, Stages
  <2>10. Logged(q)  BY <1>5, <2>7, <2>8 DEF Logged, Stages
  <2>11. Carries(q, approved)  BY <1>3, <1>4, <2>7, <2>14 DEF Carries
  <2>12. ASSUME q0.kind \in Kinds \ unclean PROVE Progress(q)
    <3>1. Whole(r, q0.kind)  BY <1>9, <2>4, <2>12
    <3>2. own = TRUE  BY <2>2, <3>1, Zenon DEF Whole
    <3>3. q.own  BY <2>15, <3>2 DEF Request
    <3>6. q.kind = "waivers" => q.kept = {}
      <4> SUFFICES ASSUME q0.kind = "waivers", NEW w \in kept PROVE FALSE  BY <2>7
      <4>1. w \in Waivers /\ q0.value[w] = "none" /\ w \in approved
        BY <1>1, <2>3, <2>14 DEF Unlisted, Types
      <4>2. waiver[w] = "none"  BY <1>3, <1>9, <2>12, <4>1 DEF Current
      <4> QED  BY <1>1, <4>1, <4>2 DEF Approved
    <3>4. Current(q)  BY <1>3, <1>9, <2>7, <2>8, <2>12 DEF Current, Writing, Stages
    <3>5. q0.todo \subseteq Open(q)  BY <2>4, <2>7 DEF Open, Request
    <3> QED  BY <1>9, <2>7, <2>12, <3>3, <3>4, <3>5, <3>6 DEF Progress
  <2> QED  BY <1>10, <2>5, <2>6, <2>7, <2>9, <2>10, <2>11, <2>12
<1> QED  BY <1>11, <1>12

-----------------------------------------------------------------------------
(* Steps that change the database or the files.                            *)

\* A statement changes the database, and the files have yet to follow.
LEMMA ChangeNext ==
  ASSUME AdministrationAssumption, AdminInv, NEW h \in Handlers, Change(h) PROVE AdminInv'
<1>1. Types /\ Requests /\ AllSteady /\ Approved /\ FilesGoverned  BY DEF AdminInv
<1>2. PICK q0 \in Request : q0 = request[h]  BY <1>1 DEF Types
<1>3. UNCHANGED <<signed, due, file, unclean, silent>> /\ q0.at = "change"
  BY <1>2 DEF Change
<1>4. Formed(q0)  BY <1>1, <1>2 DEF Requests
<1>5. "change" \notin Repositories /\ "audit" \notin Repositories \cup Writing \cup {"read", "reply"}
  BY Apart DEF Stages, Writing
<1>6. ASSUME q0.kind \in Kinds \ unclean
      PROVE  \A r \in Repositories : Whole(r, q0.kind) /\ Matches(r, q0.kind)
  <2>1. Progress(q0)  BY <1>1, <1>2, <1>6, OwnProgress
  <2>2. Open(q0) = {}  BY <1>3, <1>5 DEF Open
  <2> QED  BY <1>3, <1>5, <2>1, <2>2 DEF Progress
\* Whatever was changed: the request goes on to the logs.
<1>7. ASSUME NEW q \in Request, request' = [request EXCEPT ![h] = q], q.at = "audit", q.op = q0.op,
             q.kind = q0.kind, q.waiver = q0.waiver, q.may = q0.may, q.status = q0.status,
             q.kind \in {"policy", "scanners"} => q.value \in Nat,
             approved \subseteq approved', approved' \subseteq Waivers,
             waiver' \in [Waivers -> Status], version' \in [{"policy", "scanners"} -> Nat],
             Approved', Framed(q0.kind),
             q0.kind \in Kinds => Current(q)' /\ \A r \in Repositories \ AppliesTo(q) : Matches(r, q0.kind)' <=> Matches(r, q0.kind)
      PROVE  AdminInv'
  <2>1. Types'
    <3>1. request' \in [Handlers -> Request]  BY <1>1, <1>7, Turn
    <3> QED  BY <1>1, <1>3, <1>7, <3>1, Zenon DEF Types
  <2>2. Requests'
    <3>1. Formed(q)  BY <1>3, <1>4, <1>5, <1>7 DEF Formed
    <3>2. Logged(q) /\ Carries(q, approved')  BY <1>5, <1>7 DEF Logged, Carries
    <3> QED  BY <1>1, <1>3, <1>5, <1>7, <3>1, <3>2, RequestsNext
  <2>3. FilesGoverned'  BY <1>1, <1>3, <1>7 DEF FilesGoverned, Fresh
  <2>4. ASSUME q0.kind \in Kinds \ unclean PROVE Progress(q)'
    <3>1. \A r \in Repositories : Whole(r, q0.kind)'  BY <1>3, <1>6, <2>4 DEF Whole
    <3>2. Open(q)' = AppliesTo(q) \cap Repositories  BY <1>5, <1>7 DEF Open, AppliesTo
    <3>3. \A r \in Repositories \ AppliesTo(q) : Matches(r, q0.kind)'  BY <1>6, <1>7, <2>4
    <3> QED  BY <1>5, <1>7, <2>4, <3>1, <3>2, <3>3 DEF Progress
  <2>5. AllSteady'
    <3>1. PICK own : own = q0.kind  OBVIOUS
    <3>2. own \in Kinds \ unclean' =>
            IF q.kind = "none" THEN \A r \in Repositories : Whole(r, own)' /\ Matches(r, own)' ELSE Progress(q)'
      BY <1>3, <1>7, <2>4, <3>1 DEF Kinds
    <3> QED  BY <1>1, <1>2, <1>3, <1>7, <3>1, <3>2, SteadyNext
  <2>6. ~ silent'  BY <1>3 DEF AdminInv
  <2> QED  BY <1>7, <2>1, <2>2, <2>3, <2>5, <2>6 DEF AdminInv
<1>8. CASE /\ \/ q0.op = "request" /\ Approve(h, q0.waiver, IF RequireApproval THEN "pending" ELSE "active")
              \/ q0.op = "decide" /\ Approve(h, q0.waiver, q0.status)
           /\ Go(h, "audit") /\ UNCHANGED <<version, role>>
  <2>1. Go(h, "audit") /\ UNCHANGED <<version, role>>
    BY <1>8
  <2>2. PICK s \in Status \ {"none"} :
          /\ waiver' = [waiver EXCEPT ![q0.waiver] = s]
          /\ s = "active" => approved' = approved \cup {q0.waiver}
          /\ s # "active" => approved' = approved
    <3>1. CASE q0.op = "request" /\ Approve(h, q0.waiver, IF RequireApproval THEN "pending" ELSE "active")
      BY <3>1 DEF Approve, Status
    <3>2. CASE q0.op = "decide" /\ Approve(h, q0.waiver, q0.status)
      BY <1>2, <1>4, <3>2 DEF Approve, Formed
    <3> QED  BY <1>8, <3>1, <3>2
  <2>3. q0.waiver \in Waivers /\ q0.kind = "waivers"  BY <1>4, <1>8 DEF Formed, KindOf
  <2>4. PICK q : q = [q0 EXCEPT !.at = "audit"]  OBVIOUS
  <2>5. q \in Request /\ request' = [request EXCEPT ![h] = q]
    BY <1>2, <2>1, <2>4 DEF Request, Stages, Go
  <2>6. /\ q.at = "audit" /\ q.op = q0.op /\ q.kind = q0.kind /\ q.waiver = q0.waiver
        /\ q.may = q0.may /\ q.status = q0.status
    BY <2>4 DEF Request
  <2>7. /\ approved \subseteq approved' /\ approved' \subseteq Waivers
        /\ waiver' \in [Waivers -> Status] /\ version' = version
        /\ \A w \in Waivers \ {q0.waiver} : waiver'[w] = waiver[w]
        /\ waiver'[q0.waiver] = s
    BY <1>1, <2>1, <2>2, <2>3 DEF Types
  <2>8. Approved'
    <3> SUFFICES ASSUME NEW w \in Waivers
                 PROVE  (waiver'[w] = "active" => w \in approved') /\ (w \in approved' => waiver'[w] # "none")
      BY DEF Approved
    <3>1. CASE w = q0.waiver
      <4>1. waiver'[w] = s /\ s # "none"  BY <2>7, <3>1
      <4>2. s = "active" => w \in approved'  BY <2>2, <3>1
      <4> QED  BY <4>1, <4>2
    <3>2. CASE w # q0.waiver
      <4>1. approved' = approved \cup {q0.waiver} \/ approved' = approved  BY <2>2
      <4>2. w \in approved' <=> w \in approved  BY <3>2, <4>1
      <4>3. waiver'[w] = waiver[w]  BY <2>7, <3>2
      <4>4. (waiver[w] = "active" => w \in approved) /\ (w \in approved => waiver[w] # "none")  BY <1>1 DEF Approved
      <4> QED  BY <4>2, <4>3, <4>4
    <3> QED  BY <3>1, <3>2
  <2>9. Framed(q0.kind)  BY <1>3, <2>3, <2>7 DEF Framed
  <2>10. ASSUME NEW r \in Repositories \ AppliesTo(q)
         PROVE  Matches(r, q0.kind)' <=> Matches(r, q0.kind)
    <3>1. r \notin WaiverScope[q0.waiver]  BY <2>3, <2>6 DEF AppliesTo
    <3>2. Managed(r, waiver)' = Managed(r, waiver)  BY <2>7, <3>1 DEF Managed
    <3> QED  BY <1>3, <2>3, <3>2 DEF Matches
  <2>11. Current(q)'  BY <1>5, <2>3, <2>6 DEF Current
  <2>12. q.kind \notin {"policy", "scanners"} /\ version' \in [{"policy", "scanners"} -> Nat]
    BY <1>1, <2>3, <2>6, <2>7 DEF Types
  <2> QED  BY <1>7, <2>5, <2>6, <2>7, <2>8, <2>9, <2>10, <2>11, <2>12
<1>9. CASE /\ q0.kind \in {"policy", "scanners"} /\ version' = [version EXCEPT ![q0.kind] = @ + 1]
           /\ request' = [request EXCEPT ![h].at = "audit", ![h].value = version[q0.kind] + 1]
           /\ UNCHANGED <<waiver, role, approved>>
  <2>1. version[q0.kind] + 1 \in Nat /\ version' \in [{"policy", "scanners"} -> Nat]
    BY <1>1, <1>9 DEF Types
  <2>2. PICK value \in Nat : value = version[q0.kind] + 1  BY <2>1
  <2>3. PICK q : q = [q0 EXCEPT !.at = "audit", !.value = value]  OBVIOUS
  <2>4. q \in Request /\ request' = [request EXCEPT ![h] = q]
    <3>1. value \in Values  BY DEF Values
    <3>2. q \in Request  BY <2>3, <3>1 DEF Request, Stages
    <3> QED  BY <1>2, <1>9, <2>2, <2>3, <3>2
  <2>5. /\ q.at = "audit" /\ q.op = q0.op /\ q.kind = q0.kind /\ q.waiver = q0.waiver
        /\ q.may = q0.may /\ q.status = q0.status /\ q.value = value
    BY <2>3 DEF Request
  <2>6. version'[q0.kind] = value /\ \A k \in {"policy", "scanners"} \ {q0.kind} : version'[k] = version[k]
    BY <1>1, <1>9, <2>2 DEF Types
  <2>7. Framed(q0.kind)  BY <1>3, <1>9, <2>6 DEF Framed, Kinds
  <2>8. Current(q)'  BY <1>5, <1>9, <2>5, <2>6 DEF Current
  <2>9. ASSUME NEW r \in Repositories \ AppliesTo(q)
        PROVE  Matches(r, q0.kind)' <=> Matches(r, q0.kind)
    BY <1>3, <1>9, <2>5 DEF Matches, AppliesTo
  <2>10. Approved' /\ waiver' \in [Waivers -> Status] /\ approved' \subseteq Waivers
    BY <1>1, <1>9 DEF Approved, Types
  <2> QED  BY <1>7, <1>9, <2>1, <2>4, <2>5, <2>7, <2>8, <2>9, <2>10
<1>10. CASE q0.op = "principal" /\ Go(h, "audit") /\ UNCHANGED <<waiver, version, approved>>
  <2>1. q0.kind = "none"  BY <1>4, <1>10 DEF Formed, KindOf
  <2>2. PICK q : q = [q0 EXCEPT !.at = "audit"]  OBVIOUS
  <2>3. q \in Request /\ request' = [request EXCEPT ![h] = q]
    BY <1>2, <1>10, <2>2 DEF Request, Stages, Go
  <2>4. /\ q.at = "audit" /\ q.op = q0.op /\ q.kind = q0.kind /\ q.waiver = q0.waiver
        /\ q.may = q0.may /\ q.status = q0.status
    BY <2>2 DEF Request
  <2>5. Framed(q0.kind)  BY <1>3, <1>10 DEF Framed, Kinds
  <2>6. Approved' /\ waiver' \in [Waivers -> Status] /\ approved' \subseteq Waivers
        /\ version' \in [{"policy", "scanners"} -> Nat]
    BY <1>1, <1>10 DEF Approved, Types
  <2>7. q0.kind \notin Kinds /\ q.kind \notin {"policy", "scanners"}  BY <2>1, <2>4 DEF Kinds
  <2> QED  BY <1>7, <1>10, <2>3, <2>4, <2>5, <2>6, <2>7
<1> QED  BY <1>2, <1>8, <1>9, <1>10, Zenon DEF Change

\* A file is emptied, then written.
LEMMA WriteNext ==
  ASSUME AdministrationAssumption, AdminInv, NEW h \in Handlers, WriteFile(h) PROVE AdminInv'
<1>1. Types /\ Requests /\ AllSteady /\ Approved /\ FilesGoverned  BY DEF AdminInv
<1>2. PICK q0 \in Request : q0 = request[h]  BY <1>1 DEF Types
<1>3. PICK r \in Repositories : r = q0.at  BY <1>2 DEF WriteFile
<1>4. UNCHANGED <<signed, waiver, due, version, approved, unclean, silent>>
  BY DEF WriteFile, database
<1>5. Formed(q0) /\ Logged(q0) /\ Carries(q0, approved) /\ ~ signed
  BY <1>1, <1>2, <1>3 DEF Requests
<1>6. PICK kind \in Kinds : kind = q0.kind  BY <1>3, <1>5 DEF Formed, Writing
<1>7. r \notin Stages /\ q0.logs = {"application", "governed"} /\ q0.op # "none"
  BY <1>3, <1>5, Apart DEF Logged, Writing, Formed, Stages
<1>8. PICK old \in File : old = file[r][kind]  BY <1>1 DEF Types
<1>9. \/ /\ ~ old.torn /\ file' = [file EXCEPT ![r][kind] = [old EXCEPT !.torn = TRUE]]
         /\ request' = request
      \/ /\ old.torn /\ request' = [request EXCEPT ![h].at = "read"]
         /\ file' = [file EXCEPT ![r][kind] =
                       [torn |-> FALSE, own |-> q0.own,
                        managed |-> IF kind = "waivers" THEN q0.kept \cup Managed(r, q0.value) ELSE q0.value]]
  BY <1>2, <1>3, <1>6, <1>8, Zenon DEF WriteFile, Put, Go
\* Whatever was put into the file: only the file has changed.
<1>10. ASSUME NEW q \in Request, request' = [request EXCEPT ![h] = q], q.kind = kind, Formed(q), Logged(q),
              Carries(q, approved),
              NEW content \in File, file' = [file EXCEPT ![r][kind] = content],
              kind = "waivers" => content.managed \subseteq approved,
              kind \in Kinds \ unclean => Progress(q)'
       PROVE  AdminInv'
  <2>1. Types'
    <3>1. request' \in [Handlers -> Request]  BY <1>1, <1>10, Turn
    <3>2. file' \in [Repositories -> [Kinds -> File]]  BY <1>1, <1>10 DEF Types
    <3> QED  BY <1>1, <1>4, <3>1, <3>2, Zenon DEF Types
  <2>2. Requests'  BY <1>1, <1>4, <1>5, <1>10, RequestsNext
  <2>3. FilesGoverned'
    <3> SUFFICES ASSUME NEW t \in Repositories PROVE file'[t]["waivers"].managed \subseteq approved
      BY <1>4, <1>5, Zenon DEF FilesGoverned
    <3>1. "waivers" \in Kinds  BY DEF Kinds
    <3>2. CASE t = r /\ kind = "waivers"  BY <1>1, <1>10, <3>2 DEF Types
    <3>3. CASE ~ (t = r /\ kind = "waivers")
      <4>1. file'[t]["waivers"] = file[t]["waivers"]  BY <1>1, <1>10, <3>1, <3>3 DEF Types
      <4> QED  BY <1>1, <4>1 DEF FilesGoverned
    <3> QED  BY <3>2, <3>3
  <2>4. Framed(kind)  BY <1>1, <1>4, <1>10 DEF Framed, Types
  <2>5. AllSteady'
    <3>1. kind # "none" /\ request[h].kind = kind  BY <1>2, <1>6 DEF Kinds
    <3> QED  BY <1>1, <1>4, <1>10, <2>4, <3>1, SteadyNext
  <2>6. ~ silent' /\ Approved'  BY <1>1, <1>4 DEF AdminInv, Approved
  <2> QED  BY <2>1, <2>2, <2>3, <2>5, <2>6 DEF AdminInv
<1>11. ASSUME kind \in Kinds \ unclean PROVE Progress(q0)
  BY <1>1, <1>2, <1>6, <1>11, OwnProgress
<1>12. ASSUME NEW content, file' = [file EXCEPT ![r][kind] = content]
       PROVE  /\ \A t \in Repositories \ {r} : Whole(t, kind)' <=> Whole(t, kind)
              /\ \A t \in Repositories \ {r} : Matches(t, kind)' <=> Matches(t, kind)
              /\ file'[r][kind] = content
  <2>1. \A t \in Repositories \ {r} : file'[t][kind] = file[t][kind]  BY <1>1, <1>12 DEF Types
  <2>2. file'[r][kind] = content  BY <1>1, <1>12 DEF Types
  <2>3. \A t \in Repositories \ {r} : Matches(t, kind)' <=> Matches(t, kind)
    BY <1>4, <2>1 DEF Matches, Managed
  <2> QED  BY <2>1, <2>2, <2>3 DEF Whole
<1>13. CASE request' = request /\ file' = [file EXCEPT ![r][kind] = [old EXCEPT !.torn = TRUE]]
  <2>1. PICK content : content = [old EXCEPT !.torn = TRUE]  OBVIOUS
  <2>2. content \in File /\ content.managed = old.managed  BY <2>1 DEF File
  <2>3. kind = "waivers" => content.managed \subseteq approved  BY <1>1, <1>8, <2>2 DEF FilesGoverned
  <2>4. request' = [request EXCEPT ![h] = q0]  BY <1>1, <1>2, <1>13 DEF Types
  <2>5. ASSUME kind \in Kinds \ unclean PROVE Progress(q0)'
    <3>1. Progress(q0)  BY <1>11, <2>5
    <3>2. r \in Open(q0) /\ Open(q0)' = Open(q0)  BY <1>3 DEF Open, AppliesTo
    <3>3. \A t \in Repositories \ {r} : Whole(t, kind)'  BY <1>3, <1>6, <1>12, <1>13, <3>1 DEF Progress
    <3>4. \A t \in Repositories \ Open(q0) : Matches(t, kind)'
      BY <1>6, <1>12, <1>13, <3>1, <3>2 DEF Progress
    <3>5. Current(q0)'  BY <1>4, <3>1 DEF Current, Progress
    <3>6. q0.at \in Repositories => q0.own /\ (q0.kind = "waivers" => q0.kept = {})  BY <3>1 DEF Progress
    <3> QED  BY <1>3, <1>6, <3>2, <3>3, <3>4, <3>5, <3>6 DEF Progress
  <2> QED  BY <1>5, <1>6, <1>10, <1>13, <2>1, <2>2, <2>3, <2>4, <2>5
<1>14. CASE /\ request' = [request EXCEPT ![h].at = "read"]
            /\ file' = [file EXCEPT ![r][kind] =
                          [torn |-> FALSE, own |-> q0.own,
                           managed |-> IF kind = "waivers" THEN q0.kept \cup Managed(r, q0.value) ELSE q0.value]]
  <2>1. PICK managed : managed = IF kind = "waivers" THEN q0.kept \cup Managed(r, q0.value) ELSE q0.value  OBVIOUS
  <2>2. PICK content : content = [torn |-> FALSE, own |-> q0.own, managed |-> managed]  OBVIOUS
  <2>3. kind = "waivers" => managed \subseteq approved
    BY <1>3, <1>5, <1>6, <2>1 DEF Carries, Managed
  <2>4. managed \in Content
    <3>1. CASE kind = "waivers"  BY <1>1, <2>3, <3>1 DEF Content, Types
    <3>2. CASE kind # "waivers"  BY <1>5, <1>6, <2>1, <3>2 DEF Content, Formed, Kinds
    <3> QED  BY <3>1, <3>2
  <2>5. content \in File /\ content.managed = managed /\ content.own = q0.own /\ content.torn = FALSE
    <3>1. q0.own \in BOOLEAN  BY DEF Request
    <3> QED  BY <2>2, <2>4, <3>1 DEF File
  <2>6. PICK q : q = [q0 EXCEPT !.at = "read"]  OBVIOUS
  <2>7. q \in Request /\ request' = [request EXCEPT ![h] = q]
    BY <1>2, <1>14, <2>6 DEF Request, Stages
  <2>8. /\ q.at = "read" /\ q.todo = q0.todo /\ q.logs = q0.logs /\ q.op = q0.op /\ q.kind = q0.kind
        /\ q.waiver = q0.waiver /\ q.may = q0.may /\ q.status = q0.status /\ q.value = q0.value
    BY <2>6 DEF Request
  <2>9. "read" \notin Repositories  BY Apart DEF Stages
  <2>10. Formed(q) /\ Logged(q)
    <3>1. Formed(q)  BY <1>5, <1>6, <1>7, <2>8 DEF Formed
    <3> QED  BY <1>7, <2>8, <3>1 DEF Logged
  <2>11. Carries(q, approved)  BY <1>3, <1>5, <2>8, <2>9 DEF Carries
  <2>12. file' = [file EXCEPT ![r][kind] = content]  BY <1>14, <2>1, <2>2
  <2>13. ASSUME kind \in Kinds \ unclean PROVE Progress(q)'
    <3>1. Progress(q0)  BY <1>11, <2>13
    <3>2. q0.own = TRUE /\ (kind = "waivers" => q0.kept = {})  BY <1>3, <1>6, <3>1 DEF Progress, Request
    <3>3. Whole(r, kind)'  BY <1>12, <2>5, <2>12, <3>2 DEF Whole
    <3>4. \A t \in Repositories : Whole(t, kind)'
      BY <1>3, <1>6, <1>12, <2>12, <3>1, <3>3 DEF Progress
    <3>5. Current(q)'
      BY <1>3, <1>4, <2>8, <3>1 DEF Current, Progress, Writing
    <3>6. Matches(r, kind)'
      <4>1. file'[r][kind].managed = managed  BY <1>12, <2>5, <2>12
      <4>2. kind = "waivers" => Managed(r, q0.value) \ due = Managed(r, waiver) \ due
        BY <1>3, <1>6, <3>1 DEF Managed, Current, Progress
      <4>3. (kind = "policy" => q0.value = version["policy"]) /\ (kind = "scanners" => q0.value = version["scanners"])
        BY <1>3, <1>6, <3>1 DEF Current, Progress, Writing
      <4>4. kind = "waivers" => file'[r][kind].managed \ due' = Managed(r, waiver)' \ due'
        BY <1>4, <2>1, <3>2, <4>1, <4>2 DEF Managed
      <4> QED  BY <1>4, <2>1, <4>1, <4>3, <4>4 DEF Matches
    <3>7. Open(q)' = q.todo /\ \A t \in Repositories \ q.todo : t # r => t \notin Open(q0)
      BY <1>3, <1>7, <2>8, <2>9 DEF Open, Request, Stages
    <3>8. \A t \in Repositories \ Open(q)' : Matches(t, kind)'
      BY <1>6, <1>12, <2>12, <3>1, <3>6, <3>7 DEF Progress
    <3> QED  BY <1>6, <2>8, <2>9, <3>4, <3>5, <3>8 DEF Progress
  <2> QED  BY <1>6, <1>10, <2>3, <2>5, <2>7, <2>8, <2>10, <2>11, <2>12, <2>13
<1> QED  BY <1>9, <1>13, <1>14

\* The date of a waiver comes, or nothing happens: files and database need not
\* agree on a waiver whose date has come.
LEMMA TimePasses ==
  ASSUME AdminInv, due \subseteq due', due' \subseteq Waivers,
         UNCHANGED <<signed, waiver, version, file, request, approved, unclean, silent>>
  PROVE  AdminInv'
<1>1. Types /\ Requests /\ AllSteady /\ Approved /\ FilesGoverned  BY DEF AdminInv
<1>2. /\ due \subseteq due' /\ due' \subseteq Waivers
      /\ UNCHANGED <<signed, waiver, version, file, request, approved, unclean, silent>>
  OBVIOUS
<1>3. Types'  BY <1>1, <1>2, Zenon DEF Types
<1>4. Requests' /\ Approved' /\ FilesGoverned'
  BY <1>1, <1>2 DEF Requests, Formed, Logged, Carries, Approved, FilesGoverned, Fresh
<1>5. ASSUME NEW k \in Kinds, Steady(k) PROVE Steady(k)'
  <2>1. At(k)' = At(k)  BY <1>2 DEF At
  <2>2. \A r \in Repositories : Whole(r, k)' <=> Whole(r, k)  BY <1>2 DEF Whole
  <2>3. ASSUME NEW r \in Repositories, Matches(r, k) PROVE Matches(r, k)'
    <3>1. k = "waivers" => file'[r][k].managed \ due' = Managed(r, waiver)' \ due'
      BY <1>2, <2>3 DEF Matches, Managed
    <3> QED  BY <1>2, <2>3, <3>1 DEF Matches
  <2>4. ASSUME NEW g \in At(k) PROVE Progress(request[g])'
    <3>1. Progress(request[g]) /\ request[g].kind = k  BY <1>5 DEF Steady, At
    <3>2. Current(request[g])'  BY <1>2, <3>1 DEF Progress, Current
    <3>3. Open(request[g])' = Open(request[g])  BY <1>2 DEF Open, AppliesTo
    <3> QED  BY <1>2, <2>2, <2>3, <3>1, <3>2, <3>3 DEF Progress
  <2> QED  BY <1>5, <2>1, <2>2, <2>3, <2>4 DEF Steady
<1>6. AllSteady'  BY <1>1, <1>2, <1>5, Zenon DEF AllSteady
<1>7. ~ silent'  BY <1>2 DEF AdminInv
<1> QED  BY <1>3, <1>4, <1>6, <1>7 DEF AdminInv

\* A request comes in; its kind is as it was if nobody else is at it.
LEMMA AdmitNext ==
  ASSUME AdministrationAssumption, AdminInv, NEW h \in Handlers, Admit(h) PROVE AdminInv'
<1>1. Types /\ Requests /\ AllSteady /\ Approved /\ FilesGoverned  BY DEF AdminInv
<1>2. UNCHANGED <<signed, waiver, due, version, file, approved, silent>> /\ request[h].at = "idle"
  BY DEF Admit, database
<1>3. request[h].op = "none" /\ request[h].kind = "none"
  <2>1. Formed(request[h])  BY <1>1 DEF Requests
  <2> QED  BY <1>2, <2>1 DEF Formed, KindOf
<1>4. PICK p \in Principals, op \in {"request", "decide", "policy", "scanners", "principal"} :
        /\ role[p] # "none" /\ RoleAllows(role[p], RequiredRole(op))
        /\ \E w \in IF op = "request" THEN New ELSE IF op = "decide" THEN Waivers \ New ELSE {"none"},
              s \in IF op = "decide" THEN {"active", "rejected", "revoked"}
                    ELSE IF op = "principal" THEN {"none", "security_admin"} ELSE {"none"} :
             request' = [request EXCEPT ![h] =
               [NoRequest EXCEPT !.at = IF op = "decide" THEN "find" ELSE "change", !.op = op, !.kind = KindOf(op),
                                 !.waiver = w, !.status = s, !.may = RoleAllows(role[p], "security_admin")]]
        /\ unclean' = unclean \cup {k \in {KindOf(op)} : \E g \in Handlers : request[g].kind = k /\ k # "none"}
  BY Zenon DEF Admit
<1>5. PICK w \in IF op = "request" THEN New ELSE IF op = "decide" THEN Waivers \ New ELSE {"none"},
           s \in IF op = "decide" THEN {"active", "rejected", "revoked"}
                 ELSE IF op = "principal" THEN {"none", "security_admin"} ELSE {"none"} :
        request' = [request EXCEPT ![h] =
          [NoRequest EXCEPT !.at = IF op = "decide" THEN "find" ELSE "change", !.op = op, !.kind = KindOf(op),
                            !.waiver = w, !.status = s, !.may = RoleAllows(role[p], "security_admin")]]
  BY <1>4
<1>6. PICK may \in BOOLEAN : may = RoleAllows(role[p], "security_admin")
  <2>1. RoleAllows(role[p], "security_admin") \in BOOLEAN  BY SMT DEF RoleAllows
  <2> QED  BY <2>1
<1>7. op = "decide" => may
  <2>1. op = "decide" => RoleAllows(role[p], "security_admin")
    <3>1. op = "decide" => RequiredRole(op) = "security_admin"  BY DEF RequiredRole
    <3> QED  BY <1>4, <3>1
  <2>2. may = TRUE \/ op # "decide"  BY <1>6, <2>1, Zenon
  <2> QED  BY <2>2
<1>8. PICK at \in {"find", "change"} : at = IF op = "decide" THEN "find" ELSE "change"  OBVIOUS
<1>9. PICK own \in Kinds \cup {"none"} : own = KindOf(op)  BY DEF KindOf, Kinds
<1>10. /\ w \in Waivers \cup {"none"} /\ (op \in {"request", "decide"} => w \in Waivers)
       /\ s \in Status \cup {"security_admin"} /\ (op = "decide" => s \in Status)
  BY DEF New, Status
<1>11. PICK q : q = [NoRequest EXCEPT !.at = at, !.op = op, !.kind = own, !.waiver = w, !.status = s, !.may = may]
  OBVIOUS
<1>12. NoRequest \in Request /\ NoRequest.value = 0  BY Ended DEF NoRequest
<1>13. q \in Request
  <2>1. op \in Operations /\ at \in Stages  BY DEF Operations, Stages
  <2> QED  BY <1>10, <1>11, <1>12, <2>1 DEF Request
<1>14. /\ q.at = at /\ q.op = op /\ q.kind = own /\ q.waiver = w /\ q.status = s /\ q.may = may
       /\ q.value = 0
  BY <1>11, <1>12 DEF Request
<1>15. request' = [request EXCEPT ![h] = q]
  BY <1>5, <1>6, <1>8, <1>9, <1>11, Zenon
<1>16. at \notin {"idle", "governed"} \cup Writing \cup {"read", "reply"} \cup Repositories
  BY Apart DEF Stages, Writing
<1>17. Formed(q) /\ Logged(q) /\ Carries(q, approved')
  <2>1. Formed(q)  BY <1>7, <1>8, <1>9, <1>10, <1>14, <1>16 DEF Formed
  <2>2. Logged(q)  BY <1>14, <1>16 DEF Logged
  <2>3. Carries(q, approved')  BY <1>14, <1>16 DEF Carries
  <2> QED  BY <2>1, <2>2, <2>3
<1>18. Types'
  <2>1. request' \in [Handlers -> Request]  BY <1>1, <1>13, <1>15, Turn
  <2>2. unclean' \subseteq Kinds \cup {"none"}  BY <1>1, <1>4, <1>9 DEF Types
  <2> QED  BY <1>1, <1>2, <2>1, <2>2, Zenon DEF Types
<1>19. Requests'
  <2>1. approved \subseteq approved' /\ signed' = signed /\ q.at \notin {"read"} \cup Repositories
    BY <1>2, <1>14, <1>16
  <2> QED  BY <1>1, <1>13, <1>15, <1>17, <2>1, RequestsNext
<1>20. Approved' /\ FilesGoverned' /\ ~ silent'
  BY <1>1, <1>2 DEF Approved, FilesGoverned, Fresh, AdminInv
<1>21. AllSteady'
  <2> SUFFICES ASSUME NEW k \in Kinds \ unclean' PROVE Steady(k)'
    BY Zenon DEF AllSteady
  <2>1. Steady(k)  BY <1>1, <1>4 DEF AllSteady
  <2>2. CASE k # own
    <3>1. Framed(own)  BY <1>2 DEF Framed
    <3>2. request[h].kind \in {own, "none"} /\ q.kind \in {own, "none"} /\ due' = due
      BY <1>2, <1>3, <1>14
    <3> QED  BY <1>1, <1>13, <1>15, <2>1, <2>2, <3>1, <3>2, SteadyElsewhere
  <2>3. CASE k = own
    <3>1. At(k) = {}  BY <1>4, <1>9, <2>3 DEF At, Kinds
    <3>2. request'[h] = q /\ \A g \in Handlers \ {h} : request'[g] = request[g]  BY <1>1, <1>13, <1>15, Turn
    <3>3. At(k)' = {h}  BY <1>14, <2>3, <3>1, <3>2 DEF At
    <3>4. \A r \in Repositories : Whole(r, k) /\ Matches(r, k)  BY <2>1, <3>1 DEF Steady
    <3>5. \A r \in Repositories : Whole(r, k)'  BY <1>2, <3>4 DEF Whole
    <3>6. \A r \in Repositories : Matches(r, k)'  BY <1>2, <3>4 DEF Matches, Managed
    <3>7. request'[h].kind = k /\ request'[h].at \notin Repositories  BY <1>14, <1>16, <2>3, <3>2
    <3>8. Current(request[h])'
      BY <1>14, <1>16, <3>2 DEF Current
    <3>9. Progress(request[h])'  BY <3>5, <3>6, <3>7, <3>8 DEF Progress
    <3> QED  BY <3>3, <3>9 DEF Steady
  <2> QED  BY <2>2, <2>3
<1> QED  BY <1>18, <1>19, <1>20, <1>21 DEF AdminInv

-----------------------------------------------------------------------------
(* Theorems.                                                               *)

\* The invariant holds in every reachable state.
LEMMA AdminInvariant == Spec => []AdminInv
<1> USE AdministrationAssumption
<1>1. Init => AdminInv  BY InitAdmin
<1>2. AdminInv /\ [Next]_vars => AdminInv'
  <2> SUFFICES ASSUME AdminInv, [Next]_vars PROVE AdminInv'
    OBVIOUS
  <2>1. CASE Expire
    <3>1. due \subseteq due' /\ due' \subseteq Waivers
      BY <2>1 DEF Expire, AdminInv, Types
    <3> QED  BY <2>1, <3>1, TimePasses DEF Expire
  <2>2. ASSUME NEW h \in Handlers, Handle(h) PROVE AdminInv'
    <3>1. CASE Admit(h)  BY <3>1, AdmitNext
    <3>2. CASE Find(h)  BY <3>2, FindNext
    <3>3. CASE Change(h)  BY <3>3, ChangeNext
    <3>4. CASE AppendAudit(h) \/ GovernedAudit(h)  BY <3>4, AuditNext
    <3>5. CASE List(h)  BY <3>5, ListNext
    <3>6. CASE ReadFile(h)  BY <3>6, ReadNext
    <3>7. CASE WriteFile(h)  BY <3>7, WriteNext
    <3>8. CASE Reply(h)  BY <3>8, ReplyNext
    <3>9. CASE Fail(h)  BY <3>9, FailNext
    <3> QED
      BY <2>2, <3>1, <3>2, <3>3, <3>4, <3>5, <3>6, <3>7, <3>8, <3>9, Zenon DEF Handle
  <2>3. CASE UNCHANGED vars
    <3>1. due \subseteq due' /\ due' \subseteq Waivers
      BY <2>3 DEF vars, AdminInv, Types
    <3> QED  BY <2>3, <3>1, TimePasses DEF vars
  <2> QED  BY <2>1, <2>2, <2>3, Zenon DEF Next
<1> QED  BY <1>1, <1>2, PTL DEF Spec

\* However requests, decisions and changes of roles overlap: a scan finds in a
\* repository's file no waiver that nobody entitled to it has ever approved, and
\* signed configuration is not touched (requiredRole, materializeWaivers).
THEOREM ScansFindApproved == Spec => []FilesGoverned
<1>1. AdminInv => FilesGoverned  BY DEF AdminInv
<1> QED  BY <1>1, AdminInvariant, PTL

\* When no request is at work, the files of every kind that has seen neither an
\* overlap of its own requests nor a failure have what the database has, and
\* still have what others wrote into them.
THEOREM FilesCatchUp == Spec => []FilesCurrent
<1>1. AdminInv => FilesCurrent
  <2> SUFFICES ASSUME AdminInv, NEW kind \in Kinds \ unclean, At(kind) = {}, NEW r \in Repositories
               PROVE  Whole(r, kind) /\ Matches(r, kind)
    BY DEF FilesCurrent, Whole, Matches
  <2> QED  BY DEF AdminInv, AllSteady, Steady
<1> QED  BY <1>1, AdminInvariant, PTL

\* No success is answered for a change that one of the two audit logs misses
\* (governedAudit).
THEOREM AnswersAreLogged == Spec => []AnsweredIsLogged
<1>1. AdminInv => AnsweredIsLogged  BY DEF AdminInv, AnsweredIsLogged
<1> QED  BY <1>1, AdminInvariant, PTL
=============================================================================
