----------------------------- MODULE Accounts_proofs -----------------------------
(***************************************************************************)
(* Theorems of Migrations and Accounts, for any files, processes' attempts,*)
(* people, logins and bounds.                                              *)
(***************************************************************************)
EXTENDS Accounts, WellFoundedInduction, TLAPS

\* Where a process has every file behind it, and where it has all of migrate() behind it.
Done == {"members", "bootstrap", "ready", "ending"}
Seeding == {"seed"} \cup Done
Adopting == {"adopt"} \cup Seeding
Filed == {"views"} \cup Adopting
Steps == {"down", "read", "apply", "record", "failed"} \cup Filed

ProcTypeOK ==
    /\ proc \in [Processes -> [pc : Steps, attempt : Nat, left : SUBSET Versions]]
    /\ parked \in BOOLEAN /\ organization \in BOOLEAN

\* What is recorded has been applied.
LedgerInv == schema_migrations \subseteq schema /\ schema \subseteq Versions

\* What process p has seen to is so, whoever else is at it: what it has not left is recorded, the file
\* it is about to record is applied, and from then on nothing is undone.
ProcInv(p) ==
    /\ proc[p].pc \in {"apply", "record"} =>
           proc[p].left # {} /\ Versions \ proc[p].left \subseteq schema_migrations
    /\ proc[p].pc = "record" => Min(proc[p].left) \in schema
    /\ proc[p].pc \in Filed => schema_migrations = Versions
    /\ proc[p].pc \in Adopting => views = Versions
    /\ proc[p].pc \in Seeding => ~parked
    /\ proc[p].pc \in Done => organization

MigrationInv == ProcTypeOK /\ LedgerInv /\ \A p \in Processes : ProcInv(p)

\* What no step ever takes back.
Keeps ==
    /\ schema_migrations \subseteq schema_migrations'
    /\ schema \subseteq schema'
    /\ schema = Versions /\ views = Versions => views' = Versions
    /\ schema = Versions /\ ~parked => ~parked'
    /\ organization => organization'

-----------------------------------------------------------------------------
(* One process                                                             *)

\* Versions are numbers, so a set of them has a first one.
LEMMA MinIsIn ==
  ASSUME NEW S \in SUBSET Versions, S # {}
  PROVE  Min(S) \in S
<1>1. S \subseteq Nat
  BY MigrationAssumption
<1>2. PICK x \in S : \A y \in S : ~ (<<y, x>> \in OpToRel(<, Nat))
  BY <1>1, NatLessThanWellFounded, WFMin, Zenon
<1>3. \A y \in S : x =< y
  <2> TAKE y \in S
  <2>1. x \in Nat /\ y \in Nat
    BY <1>1
  <2>2. ~ (y < x)
    BY <1>2, <2>1, Zenon DEF OpToRel
  <2> QED
    BY <2>1, <2>2
<1> QED
  BY <1>3 DEF Min

\* A process that a step leaves alone still finds what it has seen to.
LEMMA OthersKeep ==
  ASSUME MigrationInv, LedgerInv', Keeps, NEW q \in Processes, UNCHANGED proc[q]
  PROVE  ProcInv(q)'
<1>1. proc[q].pc \in Filed => schema = Versions
  BY DEF MigrationInv, LedgerInv, ProcInv
<1>2. schema_migrations' \subseteq Versions
  BY DEF LedgerInv
<1>3. Seeding \subseteq Filed /\ Adopting \subseteq Filed
  BY DEF Adopting, Filed
<1> QED
  BY <1>1, <1>2, <1>3 DEF MigrationInv, ProcInv, Keeps

\* A step of p that leaves the database alone, and p where it has seen to nothing more.
LEMMA Aside ==
  ASSUME MigrationInv, NEW p \in Processes, UNCHANGED databaseVars, ProcTypeOK',
         \A q \in Processes \ {p} : UNCHANGED proc[q],
         \/ proc'[p].pc \in {"down", "read", "failed"}
         \/ proc[p].pc \in Done /\ proc'[p].pc \in Done
  PROVE  MigrationInv'
<1>1. LedgerInv' /\ Keeps
  BY DEF MigrationInv, LedgerInv, Keeps, databaseVars
<1>2. \A q \in Processes \ {p} : ProcInv(q)'
  BY <1>1, OthersKeep
<1>3. ProcInv(p)'
  <2>1. CASE proc'[p].pc \in {"down", "read", "failed"}
    BY <2>1 DEF ProcInv, Filed, Adopting, Seeding, Done
  <2>2. CASE proc[p].pc \in Done /\ proc'[p].pc \in Done
    BY <2>2 DEF MigrationInv, ProcInv, Filed, Adopting, Seeding, Done, databaseVars
  <2> QED
    BY <2>1, <2>2
<1> QED
  BY <1>1, <1>2, <1>3 DEF MigrationInv

\* The same of a step that leaves everybody alone.
LEMMA Still ==
  ASSUME MigrationInv, UNCHANGED databaseVars, UNCHANGED proc
  PROVE  MigrationInv'
BY DEF MigrationInv, ProcTypeOK, LedgerInv, ProcInv, databaseVars

LEMMA RestsType ==
  ASSUME ProcTypeOK, NEW p \in Processes, NEW pc \in Steps, Rests(p, pc),
         UNCHANGED <<parked, organization>>
  PROVE  /\ ProcTypeOK' /\ proc'[p].pc = pc
         /\ \A q \in Processes \ {p} : UNCHANGED proc[q]
BY DEF ProcTypeOK, Rests, Before

LEMMA GoesType ==
  ASSUME ProcTypeOK, NEW p \in Processes, NEW pc \in Steps, Goes(p, pc),
         parked' \in BOOLEAN, organization' \in BOOLEAN
  PROVE  /\ ProcTypeOK' /\ proc'[p].pc = pc /\ proc'[p].left = proc[p].left
         /\ \A q \in Processes \ {p} : UNCHANGED proc[q]
BY DEF ProcTypeOK, Goes

LEMMA RetryType ==
  ASSUME ProcTypeOK, NEW p \in Processes, Retry(p), UNCHANGED <<parked, organization>>
  PROVE  /\ ProcTypeOK' /\ proc'[p].pc \in {"read", "failed"}
         /\ \A q \in Processes \ {p} : UNCHANGED proc[q]
<1>1. CASE proc[p].attempt = attempts
  BY <1>1, GoesType DEF Retry, Steps, ProcTypeOK
<1>2. CASE proc[p].attempt # attempts
  BY <1>2 DEF Retry, ProcTypeOK, Steps
<1> QED
  BY <1>1, <1>2

\* A step of p of which the others notice nothing that they have not seen to themselves.
LEMMA Ours ==
  ASSUME MigrationInv, NEW p \in Processes, ProcTypeOK', LedgerInv', Keeps, ProcInv(p)',
         \A q \in Processes \ {p} : UNCHANGED proc[q]
  PROVE  MigrationInv'
<1>1. \A q \in Processes \ {p} : ProcInv(q)'
  BY OthersKeep
<1> QED
  BY <1>1 DEF MigrationInv

-----------------------------------------------------------------------------
(* The statements of migrate()                                             *)

LEMMA ReadLedgerStep ==
  ASSUME MigrationInv, NEW p \in Processes, ReadLedger(p)
  PROVE  MigrationInv'
<1> DEFINE left == Versions \ schema_migrations
           next == IF left = {} THEN "views" ELSE "apply"
<1>1. next \in Steps /\ left \in SUBSET Versions
  BY DEF Steps, Filed
<1>2. /\ proc' = [proc EXCEPT ![p].left = left, ![p].pc = next]
      /\ UNCHANGED <<schema, schema_migrations, views, parked, organization>>
  BY DEF ReadLedger, databaseVars
<1>3. /\ ProcTypeOK' /\ proc'[p].pc = next /\ proc'[p].left = left
      /\ \A q \in Processes \ {p} : UNCHANGED proc[q]
  <2> HIDE DEF left, next
  <2> QED
    BY <1>1, <1>2 DEF MigrationInv, ProcTypeOK
<1>4. LedgerInv' /\ Keeps
  BY <1>2 DEF MigrationInv, LedgerInv, Keeps
<1>5. /\ Versions \ left \subseteq schema_migrations'
      /\ left = {} => schema_migrations' = Versions
  BY <1>2, <1>4 DEF LedgerInv
<1>6. ProcInv(p)'
  <2> HIDE DEF left
  <2> QED
    BY <1>3, <1>5 DEF ProcInv, Filed, Adopting, Seeding, Done
<1> QED
  BY <1>3, <1>4, <1>6, Ours

LEMMA ApplyBodyStep ==
  ASSUME MigrationInv, NEW p \in Processes, ApplyBody(p)
  PROVE  MigrationInv'
<1> DEFINE v == Min(proc[p].left)
<1>1. proc[p].left \in SUBSET Versions /\ proc[p].left # {}
  BY DEF MigrationInv, ProcTypeOK, ProcInv, ApplyBody, At
<1>2. v \in proc[p].left
  BY <1>1, MinIsIn
<1>3. CASE v \in Rekeys \cap schema
  <2>1. Retry(p) /\ UNCHANGED databaseVars
    BY <1>3 DEF ApplyBody
  <2> QED
    BY <2>1, RetryType, Aside DEF MigrationInv, databaseVars
<1>4. CASE v \notin Rekeys \cap schema
  <2>1. /\ schema' = schema \cup {v}
        /\ parked' = (parked \/ (v \in Parks /\ Old # {}))
        /\ Goes(p, "record")
        /\ UNCHANGED <<schema_migrations, views, organization>>
    BY <1>4 DEF ApplyBody
  <2>2. parked \in BOOLEAN /\ organization \in BOOLEAN /\ "record" \in Steps
    BY DEF MigrationInv, ProcTypeOK, Steps
  <2>3. parked' \in BOOLEAN /\ organization' \in BOOLEAN
    BY <2>1, <2>2
  <2>4. /\ ProcTypeOK' /\ proc'[p].pc = "record" /\ proc'[p].left = proc[p].left
        /\ \A q \in Processes \ {p} : UNCHANGED proc[q]
    BY <2>1, <2>2, <2>3, GoesType DEF MigrationInv
  <2>5. LedgerInv'
    BY <1>1, <1>2, <2>1 DEF MigrationInv, LedgerInv
  <2>6. Keeps
    <3>1. schema = Versions /\ ~parked => ~parked'
      BY <1>1, <1>2, <1>4, <2>1 DEF Parks
    <3> QED
      BY <2>1, <3>1 DEF Keeps
  <2>7. Versions \ proc[p].left \subseteq schema_migrations
    BY DEF MigrationInv, ProcInv, ApplyBody, At
  <2>8. ProcInv(p)'
    BY <1>1, <2>1, <2>4, <2>7 DEF ProcInv, Filed, Adopting, Seeding, Done
  <2> QED
    BY <2>4, <2>5, <2>6, <2>8, Ours
<1> QED
  BY <1>3, <1>4

LEMMA RecordStep ==
  ASSUME MigrationInv, NEW p \in Processes, Record(p)
  PROVE  MigrationInv'
<1> DEFINE v == Min(proc[p].left)
           left == proc[p].left \ {v}
           next == IF left = {} THEN "views" ELSE "apply"
<1>1. /\ proc[p].left \in SUBSET Versions /\ v \in schema
      /\ Versions \ proc[p].left \subseteq schema_migrations
  BY DEF MigrationInv, ProcTypeOK, ProcInv, Record, At
<1>2. next \in Steps /\ left \in SUBSET Versions
  BY <1>1 DEF Steps, Filed
<1>3. /\ schema_migrations' = schema_migrations \cup {v}
      /\ proc' = [proc EXCEPT ![p].left = left, ![p].pc = next]
      /\ UNCHANGED <<schema, views, parked, organization>>
  BY DEF Record
<1>4. /\ ProcTypeOK' /\ proc'[p].pc = next /\ proc'[p].left = left
      /\ \A q \in Processes \ {p} : UNCHANGED proc[q]
  <2> HIDE DEF left, next
  <2> QED
    BY <1>2, <1>3 DEF MigrationInv, ProcTypeOK
<1>5. LedgerInv' /\ Keeps
  BY <1>1, <1>3 DEF MigrationInv, LedgerInv, Keeps
<1>6. Versions \ left \subseteq schema_migrations'
  BY <1>1, <1>3
<1>7. left = {} => schema_migrations' = Versions
  BY <1>5, <1>6 DEF LedgerInv
<1>8. ProcInv(p)'
  <2> HIDE DEF left
  <2> QED
    BY <1>4, <1>6, <1>7 DEF ProcInv, Filed, Adopting, Seeding, Done
<1> QED
  BY <1>4, <1>5, <1>8, Ours

LEMMA MakeViewsStep ==
  ASSUME MigrationInv, NEW p \in Processes, MakeViews(p)
  PROVE  MigrationInv'
<1>1. schema = Versions /\ schema_migrations = Versions
  BY DEF MigrationInv, LedgerInv, ProcInv, MakeViews, At, Filed
<1>2. parked' \in BOOLEAN /\ organization' \in BOOLEAN /\ "adopt" \in Steps
  BY DEF MigrationInv, ProcTypeOK, MakeViews, Steps, Filed, Adopting
<1>3. /\ ProcTypeOK' /\ proc'[p].pc = "adopt"
      /\ \A q \in Processes \ {p} : UNCHANGED proc[q]
  BY <1>2, GoesType DEF MakeViews, MigrationInv
<1>4. LedgerInv' /\ Keeps
  BY <1>1 DEF MigrationInv, LedgerInv, Keeps, MakeViews
<1>5. ProcInv(p)'
  BY <1>1, <1>3 DEF ProcInv, MakeViews, Seeding, Done
<1> QED
  BY <1>3, <1>4, <1>5, Ours

LEMMA AdoptOrgStep ==
  ASSUME MigrationInv, NEW p \in Processes, AdoptOrg(p)
  PROVE  MigrationInv'
<1>1. schema_migrations = Versions /\ views = Versions
  BY DEF MigrationInv, ProcInv, AdoptOrg, At, Filed, Adopting
<1>2. parked' \in BOOLEAN /\ organization' \in BOOLEAN /\ "seed" \in Steps
  BY DEF MigrationInv, ProcTypeOK, AdoptOrg, Steps, Filed, Adopting, Seeding
<1>3. /\ ProcTypeOK' /\ proc'[p].pc = "seed"
      /\ \A q \in Processes \ {p} : UNCHANGED proc[q]
  BY <1>2, GoesType DEF AdoptOrg, MigrationInv
<1>4. LedgerInv' /\ Keeps
  BY DEF MigrationInv, LedgerInv, Keeps, AdoptOrg
<1>5. ProcInv(p)'
  BY <1>1, <1>3 DEF ProcInv, AdoptOrg, Done
<1> QED
  BY <1>3, <1>4, <1>5, Ours

LEMMA SeedOrganizationStep ==
  ASSUME MigrationInv, NEW p \in Processes, NEW then \in {"members", "ready"},
         SeedOrganization(p, then)
  PROVE  MigrationInv'
<1>1. schema_migrations = Versions /\ views = Versions /\ ~parked
  BY DEF MigrationInv, ProcInv, SeedOrganization, At, Filed, Adopting, Seeding
<1>2. parked' \in BOOLEAN /\ organization' = TRUE /\ then \in Done /\ then \in Steps
  BY DEF MigrationInv, ProcTypeOK, SeedOrganization, Steps, Filed, Adopting, Seeding, Done
<1>3. /\ ProcTypeOK' /\ proc'[p].pc = then
      /\ \A q \in Processes \ {p} : UNCHANGED proc[q]
  <2>1. CASE then = "ready"
    BY <2>1, <1>2 DEF SeedOrganization, MigrationInv, ProcTypeOK, Rests, Before
  <2>2. CASE then # "ready"
    BY <2>2, <1>2, GoesType DEF SeedOrganization, MigrationInv
  <2> QED
    BY <2>1, <2>2
<1>4. LedgerInv' /\ Keeps
  BY DEF MigrationInv, LedgerInv, Keeps, SeedOrganization
<1>5. ProcInv(p)'
  BY <1>1, <1>2, <1>3 DEF ProcInv, SeedOrganization, Done
<1> QED
  BY <1>3, <1>4, <1>5, Ours

-----------------------------------------------------------------------------
(* The processes and the people                                            *)

\* A process that ends, or begins to, wherever it was.
LEMMA RestStep ==
  ASSUME MigrationInv, NEW p \in Processes, NEW pc \in Steps, Rests(p, pc), UNCHANGED databaseVars,
         pc = "down" \/ (proc[p].pc \in Done /\ pc \in Done)
  PROVE  MigrationInv'
<1>1. ProcTypeOK /\ UNCHANGED <<parked, organization>>
  BY DEF MigrationInv, databaseVars
<1>2. /\ ProcTypeOK' /\ proc'[p].pc = pc
      /\ \A q \in Processes \ {p} : UNCHANGED proc[q]
  BY <1>1, RestsType
<1> QED
  BY <1>2, Aside

LEMMA GoStep ==
  ASSUME MigrationInv, NEW p \in Processes, NEW pc \in Steps, Goes(p, pc), UNCHANGED databaseVars,
         pc = "down" \/ (proc[p].pc \in Done /\ pc \in Done)
  PROVE  MigrationInv'
<1>1. ProcTypeOK /\ parked' \in BOOLEAN /\ organization' \in BOOLEAN
  BY DEF MigrationInv, databaseVars, ProcTypeOK
<1>2. /\ ProcTypeOK' /\ proc'[p].pc = pc
      /\ \A q \in Processes \ {p} : UNCHANGED proc[q]
  BY <1>1, GoesType
<1> QED
  BY <1>2, Aside

LEMMA StartStep ==
  ASSUME MigrationInv, NEW p \in Processes, Start(p)
  PROVE  MigrationInv'
<1>1. "read" \in Steps
  BY DEF Steps
<1>2. /\ ProcTypeOK' /\ proc'[p].pc = "read"
      /\ \A q \in Processes \ {p} : UNCHANGED proc[q]
  BY <1>1 DEF MigrationInv, ProcTypeOK, Start, databaseVars
<1> QED
  BY <1>2, Aside DEF Start

LEMMA FaultStep ==
  ASSUME MigrationInv, NEW p \in Processes, Fault(p)
  PROVE  MigrationInv'
BY RetryType, Aside DEF MigrationInv, Fault, databaseVars

LEMMA MigrateStep ==
  ASSUME MigrationInv, NEW p \in Processes, MigrateSchema(p)
  PROVE  MigrationInv'
<1> DEFINE then == IF p = Cli THEN "ready" ELSE "members"
<1>1. then \in {"members", "ready"}
  OBVIOUS
<1>2. Migrate(p, then)
  BY DEF MigrateSchema
<1> HIDE DEF then
<1> QED
  BY <1>1, <1>2, ReadLedgerStep, ApplyBodyStep, RecordStep, MakeViewsStep, AdoptOrgStep,
     SeedOrganizationStep DEF Migrate

\* Two processes, and the places where they are done with the schema.
LEMMA Places ==
  /\ Server \in Processes /\ Cli \in Processes
  /\ {"down", "failed"} \cup Done \subseteq Steps
BY AccountsAssumption DEF Steps, Filed, Adopting, Seeding

LEMMA MigrationInitially == AccountsInit => MigrationInv
<1> SUFFICES ASSUME AccountsInit PROVE MigrationInv
  OBVIOUS
<1>1. ProcTypeOK
  BY DEF AccountsInit, Init, ProcTypeOK, Before, Steps
<1>2. LedgerInv
  BY MigrationAssumption DEF AccountsInit, Init, LedgerInv
<1>3. \A p \in Processes : ProcInv(p)
  BY DEF AccountsInit, Init, ProcInv, Before, Filed, Adopting, Seeding, Done
<1> QED
  BY <1>1, <1>2, <1>3 DEF MigrationInv

LEMMA ServerStep ==
  ASSUME MigrationInv, ensureLocalUser \/ CountMembers \/ bootstrapAdmin
  PROVE  MigrationInv'
<1>1. CASE ensureLocalUser
  BY <1>1, Places, RestStep DEF ensureLocalUser, At, Done
<1>2. CASE CountMembers
  <2>1. UNCHANGED databaseVars /\ proc[Server].pc \in Done
    BY <1>2 DEF CountMembers, At, Done
  <2>2. Goes(Server, "bootstrap") \/ Rests(Server, "ready")
    BY <1>2 DEF CountMembers
  <2> QED
    BY <2>1, <2>2, Places, RestStep, GoStep DEF Done
<1>3. CASE bootstrapAdmin
  BY <1>3, Places, RestStep DEF bootstrapAdmin, At, Done
<1> QED
  BY <1>1, <1>2, <1>3

LEMMA CommandStep ==
  ASSUME MigrationInv, EndSessions \/ \E l \in Logins : invite(l) \/ removeMember(l)
  PROVE  MigrationInv'
<1>1. CASE EndSessions
  BY <1>1, Places, RestStep DEF EndSessions
<1>2. ASSUME NEW l \in Logins, invite(l)
      PROVE  MigrationInv'
  BY <1>2, Places, RestStep DEF invite
<1>3. ASSUME NEW l \in Logins, removeMember(l)
      PROVE  MigrationInv'
  <2>1. UNCHANGED databaseVars /\ proc[Cli].pc \in Done
    BY <1>3 DEF removeMember, At, Done
  <2>2. Goes(Cli, "down") \/ Goes(Cli, "ending")
    BY <1>3 DEF removeMember
  <2> QED
    BY <2>1, <2>2, Places, GoStep DEF Done
<1> QED
  BY <1>1, <1>2, <1>3

\* Nothing of a sign-in, and no rename, is about the database's schema or a process.
LEMMA PeopleStep ==
  ASSUME \/ \E u \in People, l \in Logins : Rename(u, l)
         \/ \E f \in Flows : SignIn(f)
         \/ \E t \in Tokens : logout(t)
  PROVE  UNCHANGED databaseVars /\ UNCHANGED proc
BY DEF Rename, SignIn, Callback, Claim, Lookup, Join, Relookup, createSession, Fails, logout

LEMMA ProcessStep ==
  ASSUME MigrationInv,
         \/ \E m \in {"none", "github"}, k \in {None, Bootstrap} : StartServer(m, k)
         \/ StartCommand
         \/ \E p \in Processes : MigrateSchema(p) \/ Outage(p) \/ Stop(p)
  PROVE  MigrationInv'
<1>1. ASSUME NEW m \in {"none", "github"}, NEW l \in {None, Bootstrap}, StartServer(m, l)
      PROVE  MigrationInv'
  BY <1>1, Places, StartStep DEF StartServer
<1>2. CASE StartCommand
  BY <1>2, Places, StartStep DEF StartCommand
<1>3. ASSUME NEW p \in Processes, MigrateSchema(p)
      PROVE  MigrationInv'
  BY <1>3, MigrateStep
<1>4. ASSUME NEW p \in Processes, Outage(p)
      PROVE  MigrationInv'
  BY <1>4, FaultStep DEF Outage
<1>5. ASSUME NEW p \in Processes, Stop(p)
      PROVE  MigrationInv'
  BY <1>5, Places, RestStep DEF Stop
<1> QED
  BY <1>1, <1>2, <1>3, <1>4, <1>5

LEMMA MigrationStep ==
  ASSUME MigrationInv, [Next]_vars
  PROVE  MigrationInv'
<1>1. CASE UNCHANGED vars
  BY <1>1, Still DEF vars
<1>2. CASE Next
  BY <1>2, ProcessStep, ServerStep, CommandStep, PeopleStep, Still DEF Next, Step
<1> QED
  BY <1>1, <1>2

LEMMA MigrationInvariant == Spec => []MigrationInv
<1>1. AccountsInit => MigrationInv
  BY MigrationInitially
<1>2. MigrationInv /\ [Next]_vars => MigrationInv'
  BY MigrationStep
<1> QED
  BY <1>1, <1>2, PTL DEF Spec

\* A process that has gone through migrate() finds every file applied and recorded, the views made over
\* all of them, and nothing parked (migrate.ts:252-284), whatever the files, however many attempts,
\* and whoever else ran it, or died in it, before or at the same time.
THEOREM ReadyIsMigrated == Spec => []ReadyMeansMigrated
<1>1. MigrationInv => ReadyMeansMigrated
  BY DEF MigrationInv, ProcInv, LedgerInv, ReadyMeansMigrated, Migrated, At,
         Filed, Adopting, Seeding, Done
<1> QED
  BY <1>1, MigrationInvariant, PTL

-----------------------------------------------------------------------------
(* The members and their sessions                                          *)

FlowSteps == {"idle", "refused", "claim", "lookup", "join", "relookup", "session"}
Flow == [pc : FlowSteps, who : People \cup {None}, login : Logins \cup {None}, joins : BOOLEAN]

MembersTypeOK ==
    /\ github \in [People -> Logins]
    /\ org_membership \in [Labels -> People \cup {None, Unclaimed, LocalUser}]
    /\ session \in [Tokens -> People \cup {None}]
    /\ flow \in [Flows -> Flow]
    /\ ended \subseteq Tokens

\* A cookie that was out at a removal is nobody's, until it goes out again.
MembersInv == MembersTypeOK /\ \A t \in ended : session[t] = None

\* What a callback may become.
LEMMA FlowFacts ==
  /\ Idle \in Flow /\ Refused \in Flow
  /\ \A x \in Flow, pc \in FlowSteps, j \in BOOLEAN :
        [x EXCEPT !.pc = pc] \in Flow /\ [x EXCEPT !.pc = pc, !.joins = j] \in Flow
BY DEF Flow, FlowSteps, Idle, Refused

LEMMA DoesType ==
  ASSUME flow \in [Flows -> Flow], NEW f \in Flows, NEW pc \in FlowSteps, Does(f, pc)
  PROVE  flow' \in [Flows -> Flow]
BY DEF Does, Flow

LEMMA EndsType ==
  ASSUME flow \in [Flows -> Flow], NEW f \in Flows, NEW as \in {Idle, Refused}, Ends(f, as)
  PROVE  flow' \in [Flows -> Flow]
BY FlowFacts DEF Ends

LEMMA SignInStep ==
  ASSUME MembersInv, NEW f \in Flows, SignIn(f)
  PROVE  MembersInv'
<1> USE DEF MembersInv, MembersTypeOK
<1>0. flow[f] \in Flow /\ {"claim", "lookup", "join", "relookup", "session"} \subseteq FlowSteps
  BY DEF FlowSteps
<1>1. ASSUME NEW u \in People, Callback(f, u)
      PROVE  MembersInv'
  <2>1. [pc |-> "claim", who |-> u, login |-> github[u], joins |-> FALSE] \in Flow
    BY DEF Flow, FlowSteps
  <2> QED
    BY <1>1, <2>1 DEF Callback, memberVars
<1>2. CASE Claim(f)
  <2>1. flow' \in [Flows -> Flow]
    BY <1>0, <1>2, DoesType DEF Claim
  <2>2. org_membership' \in [Labels -> People \cup {None, Unclaimed, LocalUser}]
    BY <1>0, <1>2 DEF Claim, Flow
  <2> QED
    BY <1>2, <2>1, <2>2 DEF Claim
<1>3. CASE Lookup(f)
  <2>1. flow' \in [Flows -> Flow]
    <3>1. ASSUME flow' = [flow EXCEPT ![f].pc = "claim", ![f].joins = TRUE]
          PROVE  flow' \in [Flows -> Flow]
      BY <1>0, <3>1 DEF Flow
    <3> QED
      BY <1>0, <1>3, <3>1, DoesType, EndsType DEF Lookup
  <2> QED
    BY <1>3, <2>1 DEF Lookup, memberVars
<1>4. CASE Join(f)
  <2>1. flow' \in [Flows -> Flow]
    BY <1>0, <1>4, DoesType, EndsType DEF Join
  <2>2. org_membership' \in [Labels -> People \cup {None, Unclaimed, LocalUser}]
    BY <1>0, <1>4 DEF Join, Flow
  <2> QED
    BY <1>4, <2>1, <2>2 DEF Join
<1>5. CASE Relookup(f)
  <2>1. flow' \in [Flows -> Flow]
    BY <1>0, <1>5, DoesType, EndsType DEF Relookup
  <2> QED
    BY <1>5, <2>1 DEF Relookup, memberVars
<1>6. ASSUME NEW t \in Tokens, createSession(f, t)
      PROVE  MembersInv'
  <2>1. flow' \in [Flows -> Flow]
    BY <1>6, EndsType DEF createSession
  <2>2. session' \in [Tokens -> People \cup {None}]
    BY <1>0, <1>6 DEF createSession, Flow
  <2> QED
    BY <1>6, <2>1, <2>2 DEF createSession
<1>7. CASE Fails(f)
  <2>1. flow' \in [Flows -> Flow]
    BY <1>7, EndsType DEF Fails
  <2> QED
    BY <1>7, <2>1 DEF Fails, memberVars
<1> QED
  BY <1>1, <1>2, <1>3, <1>4, <1>5, <1>6, <1>7 DEF SignIn

LEMMA MembersStep ==
  ASSUME MembersInv, [Next]_vars
  PROVE  MembersInv'
<1> USE DEF MembersInv, MembersTypeOK
<1>1. CASE UNCHANGED vars
  BY <1>1 DEF vars, accountVars, memberVars
<1>2. ASSUME NEW u \in People, NEW l \in Logins, Rename(u, l)
      PROVE  MembersInv'
  BY <1>2 DEF Rename, memberVars
<1>3. ASSUME \/ \E m \in {"none", "github"}, k \in {None, Bootstrap} : StartServer(m, k)
             \/ StartCommand
             \/ \E p \in Processes : MigrateSchema(p) \/ Outage(p)
             \/ CountMembers
      PROVE  MembersInv'
  BY <1>3 DEF StartServer, StartCommand, MigrateSchema, Outage, CountMembers, memberVars
<1>4. ASSUME NEW p \in Processes, Stop(p)
      PROVE  MembersInv'
  BY <1>4, FlowFacts DEF Stop, memberVars
<1>5. CASE ensureLocalUser \/ bootstrapAdmin
  BY <1>5, AccountsAssumption DEF ensureLocalUser, bootstrapAdmin, Labels
<1>6. ASSUME NEW l \in Logins, invite(l) \/ removeMember(l)
      PROVE  MembersInv'
  BY <1>6 DEF invite, removeMember, Labels
<1>7. CASE EndSessions
  BY <1>7 DEF EndSessions, WithoutSessions
<1>8. ASSUME NEW f \in Flows, SignIn(f)
      PROVE  MembersInv'
  BY <1>8, SignInStep
<1>9. ASSUME NEW t \in Tokens, logout(t)
      PROVE  MembersInv'
  BY <1>9 DEF logout
<1> QED
  BY <1>1, <1>2, <1>3, <1>4, <1>5, <1>6, <1>7, <1>8, <1>9 DEF Next, Step

LEMMA MembersInvariant == Spec => []MembersInv
<1>1. AccountsInit => MembersInv
  BY FlowFacts DEF AccountsInit, MembersInv, MembersTypeOK, Labels
<1>2. MembersInv /\ [Next]_vars => MembersInv'
  BY MembersStep
<1> QED
  BY <1>1, <1>2, PTL DEF Spec

\* Once a removal is done, no cookie that was out answers any more, invited again or not: removeMember
\* deletes the sessions for that (store.ts:228-231), for any people, logins, cookies and callbacks.
THEOREM RemovedAreOut == Spec => []RemovalEndsSessions
<1>1. MembersInv => RemovalEndsSessions
  BY DEF MembersInv, RemovalEndsSessions, resolveUser, findSession
<1> QED
  BY <1>1, MembersInvariant, PTL

\* What a step does to the row of a login that an account has claimed.
LEMMA ClaimStep ==
  ASSUME MembersInv, Next, NEW l \in Logins, org_membership[l] \in People
  PROVE  org_membership'[l] \in {org_membership[l], None}
<1> USE DEF MembersInv, MembersTypeOK
<1>1. l \in Labels /\ LOCAL_LOGIN # l
  BY AccountsAssumption DEF Labels
<1>2. org_membership[l] \notin {None, Unclaimed}
  BY AccountsAssumption
<1>3. CASE ensureLocalUser \/ bootstrapAdmin
  BY <1>1, <1>2, <1>3 DEF ensureLocalUser, bootstrapAdmin
<1>4. ASSUME NEW k \in Logins, invite(k) \/ removeMember(k)
      PROVE  org_membership'[l] \in {org_membership[l], None}
  BY <1>1, <1>2, <1>4 DEF invite, removeMember
<1>5. ASSUME NEW f \in Flows, SignIn(f)
      PROVE  org_membership'[l] \in {org_membership[l], None}
  <2>1. CASE Claim(f)
    BY <1>1, <1>2, <2>1 DEF Claim, Claims
  <2>2. CASE Join(f)
    BY <1>1, <1>2, <2>2 DEF Join
  <2>3. CASE ~Claim(f) /\ ~Join(f)
    BY <1>5, <2>3 DEF SignIn, Callback, Lookup, Relookup, createSession, Fails, memberVars
  <2> QED
    BY <2>1, <2>2, <2>3
<1>6. CASE UNCHANGED org_membership
  BY <1>6
<1>7. ASSUME \/ \E u \in People, k \in Logins : Rename(u, k)
             \/ \E m \in {"none", "github"}, k \in {None, Bootstrap} : StartServer(m, k)
             \/ StartCommand
             \/ \E p \in Processes : MigrateSchema(p) \/ Outage(p) \/ Stop(p)
             \/ CountMembers
             \/ EndSessions
             \/ \E t \in Tokens : logout(t)
      PROVE  UNCHANGED org_membership
  BY <1>7 DEF Rename, StartServer, StartCommand, MigrateSchema, Outage, Stop, CountMembers,
              EndSessions, logout, memberVars
<1> QED
  BY <1>3, <1>4, <1>5, <1>6, <1>7 DEF Next, Step

\* A membership stays with the account that claimed it until somebody removes it, whoever is renamed
\* to what and however many sign-ins are under way (store.ts:124-139).
THEOREM MembershipsStay == Spec => ClaimedForGood
<1>1. ASSUME MembersInv, [Next]_vars
      PROVE  [\A l \in Logins : org_membership[l] \in People =>
                  org_membership'[l] \in {org_membership[l], None}]_vars
  BY <1>1, ClaimStep
<1> QED
  BY <1>1, MembersInvariant, PTL DEF Spec, ClaimedForGood

-----------------------------------------------------------------------------
(* A seat for somebody                                                     *)

Asking == {"claim", "lookup", "join", "relookup", "session"}

\* A callback that asks for somebody knows who, and under which login they came.
AskingInv == \A f \in Flows : flow[f].pc \in Asking => flow[f].who \in People /\ flow[f].login \in Logins

\* SomebodyCanSignIn, said of the rows; and who looks for somebody to invite has accounts.
SeatsInv ==
    /\ At(Server, "bootstrap") => mode # "none" /\ admin = Bootstrap
    /\ At(Server, "ready") =>
           IF mode = "none" THEN org_membership[LOCAL_LOGIN] = LocalUser
           ELSE admin # None /\ ~emptied => \E l \in Logins : org_membership[l] # None
    /\ admin \in {None, Bootstrap}

LEMMA AskingStep ==
  ASSUME MembersInv, AskingInv, [Next]_vars
  PROVE  AskingInv'
<1> USE DEF MembersInv, MembersTypeOK, AskingInv
<1>1. CASE UNCHANGED vars
  BY <1>1 DEF vars, accountVars
<1>2. ASSUME NEW f \in Flows, SignIn(f)
      PROVE  AskingInv'
  <2>1. \A g \in Flows \ {f} : flow'[g] = flow[g]
    BY <1>2 DEF SignIn, Callback, Claim, Lookup, Join, Relookup, createSession, Fails, Does, Ends
  <2>2. \/ flow'[f].pc \notin Asking
        \/ \E u \in People : flow'[f].who = u /\ flow'[f].login = github[u]
        \/ flow[f].pc \in Asking /\ flow'[f].who = flow[f].who /\ flow'[f].login = flow[f].login
    <3>1. flow[f] \in Flow
      OBVIOUS
    <3>2. ASSUME NEW u \in People, Callback(f, u)
          PROVE  flow'[f].who = u /\ flow'[f].login = github[u]
      BY <3>2 DEF Callback
    <3>3. CASE Claim(f) \/ Lookup(f) \/ Join(f) \/ Relookup(f)
      BY <3>1, <3>3 DEF Claim, Lookup, Join, Relookup, Does, Ends, Idle, Refused, Asking, Flow
    <3>4. CASE Fails(f) \/ \E t \in Tokens : createSession(f, t)
      BY <3>4 DEF Fails, createSession, Ends, Idle, Asking
    <3> QED
      BY <1>2, <3>2, <3>3, <3>4 DEF SignIn
  <2> QED
    BY <2>1, <2>2
<1>3. ASSUME NEW p \in Processes, Stop(p)
      PROVE  AskingInv'
  BY <1>3 DEF Stop, Idle, Asking
<1>4. CASE UNCHANGED flow
  BY <1>4
<1>5. ASSUME \/ \E u \in People, l \in Logins : Rename(u, l)
             \/ \E m \in {"none", "github"}, k \in {None, Bootstrap} : StartServer(m, k)
             \/ StartCommand
             \/ \E p \in Processes : MigrateSchema(p) \/ Outage(p)
             \/ ensureLocalUser \/ CountMembers \/ bootstrapAdmin
             \/ \E l \in Logins : invite(l) \/ removeMember(l)
             \/ EndSessions
             \/ \E t \in Tokens : logout(t)
      PROVE  UNCHANGED flow
  BY <1>5 DEF Rename, StartServer, StartCommand, MigrateSchema, Outage, ensureLocalUser, CountMembers,
              bootstrapAdmin, invite, removeMember, EndSessions, logout
<1> QED
  BY <1>1, <1>2, <1>3, <1>4, <1>5 DEF Next, Step


\* What a step that is no removal does to the rows: none is emptied, and the stand-in's stays its own.
LEMMA RowsStay ==
  ASSUME MembersInv, AskingInv, SeatsInv, Next, ~ \E l \in Logins : removeMember(l)
  PROVE  /\ \A l \in Logins : org_membership[l] # None => org_membership'[l] # None
         /\ org_membership[LOCAL_LOGIN] = LocalUser => org_membership'[LOCAL_LOGIN] = LocalUser
<1> USE DEF MembersInv, MembersTypeOK
<1>1. /\ LOCAL_LOGIN \in Labels /\ LOCAL_LOGIN \notin Logins /\ Logins \subseteq Labels
      /\ None \notin People /\ None # Unclaimed
  BY AccountsAssumption DEF Labels
<1>2. CASE ensureLocalUser
  BY <1>1, <1>2 DEF ensureLocalUser
<1>3. ASSUME NEW l \in Logins, NEW u \in People \cup {Unclaimed},
             org_membership' = [org_membership EXCEPT ![l] = u]
      PROVE  /\ \A k \in Logins : org_membership[k] # None => org_membership'[k] # None
             /\ UNCHANGED org_membership[LOCAL_LOGIN]
  BY <1>1, <1>3
<1>4. ASSUME NEW l \in Logins, NEW u \in People \cup {Unclaimed},
             org_membership' = [org_membership EXCEPT ![l] = IF @ = None THEN u ELSE @]
      PROVE  /\ \A k \in Logins : org_membership[k] # None => org_membership'[k] # None
             /\ UNCHANGED org_membership[LOCAL_LOGIN]
  BY <1>1, <1>4
<1>5. CASE bootstrapAdmin
  <2>1. admin = Bootstrap
    BY <1>5 DEF bootstrapAdmin, SeatsInv
  <2> QED
    BY <1>4, <1>5, <2>1, AccountsAssumption DEF bootstrapAdmin
<1>6. ASSUME NEW l \in Logins, invite(l)
      PROVE  /\ \A k \in Logins : org_membership[k] # None => org_membership'[k] # None
             /\ UNCHANGED org_membership[LOCAL_LOGIN]
  BY <1>4, <1>6 DEF invite
<1>7. ASSUME NEW f \in Flows, SignIn(f)
      PROVE  /\ \A k \in Logins : org_membership[k] # None => org_membership'[k] # None
             /\ UNCHANGED org_membership[LOCAL_LOGIN]
  <2>1. CASE Claim(f)
    <3>1. flow[f].who \in People /\ flow[f].login \in Logins
      BY <2>1 DEF Claim, AskingInv, Asking
    <3>2. PICK l \in Logins, u \in People : l = flow[f].login /\ u = flow[f].who
      BY <3>1
    <3>3. UNCHANGED org_membership \/ org_membership' = [org_membership EXCEPT ![l] = u]
      BY <2>1, <3>2 DEF Claim
    <3> QED
      BY <1>3, <3>3
  <2>2. CASE Join(f)
    <3>1. flow[f].who \in People /\ flow[f].login \in Logins
      BY <2>2 DEF Join, AskingInv, Asking
    <3>2. PICK l \in Logins, u \in People : l = flow[f].login /\ u = flow[f].who
      BY <3>1
    <3>3. \/ UNCHANGED org_membership
          \/ org_membership' = [org_membership EXCEPT ![l] = IF @ = None THEN u ELSE @]
      BY <2>2, <3>2 DEF Join
    <3> QED
      BY <1>4, <3>3
  <2>3. CASE ~Claim(f) /\ ~Join(f)
    BY <1>7, <2>3 DEF SignIn, Callback, Lookup, Relookup, createSession, Fails, memberVars
  <2> QED
    BY <2>1, <2>2, <2>3
<1>8. CASE UNCHANGED org_membership
  BY <1>8
<1>9. ASSUME \/ \E u \in People, k \in Logins : Rename(u, k)
             \/ \E m \in {"none", "github"}, k \in {None, Bootstrap} : StartServer(m, k)
             \/ StartCommand
             \/ \E p \in Processes : MigrateSchema(p) \/ Outage(p) \/ Stop(p)
             \/ CountMembers
             \/ EndSessions
             \/ \E t \in Tokens : logout(t)
      PROVE  UNCHANGED org_membership
  BY <1>9 DEF Rename, StartServer, StartCommand, MigrateSchema, Outage, Stop, CountMembers,
              EndSessions, logout, memberVars
<1> QED
  BY <1>2, <1>5, <1>6, <1>7, <1>8, <1>9 DEF Next, Step

\* Where the server is once it looked for members.
Last == {"bootstrap", "ready"}

\* It gets there by the last of the statements of its boot only.
LEMMA GetsReady ==
  ASSUME MigrationInv, Next, proc'[Server].pc \in Last, ~ensureLocalUser, ~CountMembers, ~bootstrapAdmin
  PROVE  UNCHANGED proc[Server].pc /\ UNCHANGED settings /\ (emptied => emptied')
<1> USE DEF Last
<1>1. ProcTypeOK /\ Server \in Processes /\ Cli \in Processes /\ Server # Cli
  BY AccountsAssumption DEF MigrationInv
<1>2. ASSUME NEW p \in Processes, NEW pc \in Steps \ Last, Goes(p, pc) \/ Rests(p, pc)
      PROVE  UNCHANGED proc[Server].pc /\ p # Server
  BY <1>1, <1>2 DEF Goes, Rests, Before, ProcTypeOK
<1>3. ASSUME NEW p \in Processes, Retry(p)
      PROVE  UNCHANGED proc[Server].pc /\ p # Server
  BY <1>1, <1>2, <1>3 DEF Retry, ProcTypeOK, Steps
<1>4. ASSUME NEW p \in Processes, Start(p)
      PROVE  UNCHANGED proc[Server].pc /\ p # Server
  BY <1>1, <1>4 DEF Start, ProcTypeOK
<1>5. ASSUME NEW p \in Processes, NEW then, then = IF p = Cli THEN "ready" ELSE "members",
             Migrate(p, then)
      PROVE  UNCHANGED proc[Server].pc
  <2>1. CASE ReadLedger(p)
    BY <1>1, <2>1 DEF ReadLedger, ProcTypeOK
  <2>2. CASE ApplyBody(p)
    BY <1>1, <1>2, <1>3, <2>2 DEF ApplyBody, Steps
  <2>3. CASE Record(p)
    BY <1>1, <2>3 DEF Record, ProcTypeOK
  <2>4. CASE MakeViews(p) \/ AdoptOrg(p)
    BY <1>2, <2>4 DEF MakeViews, AdoptOrg, Steps, Filed, Adopting, Seeding
  <2>5. CASE SeedOrganization(p, then)
    BY <1>1, <1>5, <2>5 DEF SeedOrganization, Goes, Rests, Before, ProcTypeOK
  <2> QED
    BY <1>5, <2>1, <2>2, <2>3, <2>4, <2>5 DEF Migrate
<1>6. ASSUME NEW m \in {"none", "github"}, NEW l \in {None, Bootstrap}, StartServer(m, l)
      PROVE  FALSE
  BY <1>1, <1>4, <1>6 DEF StartServer
<1>7. CASE StartCommand
  BY <1>1, <1>4, <1>7 DEF StartCommand
<1>8. ASSUME NEW p \in Processes, MigrateSchema(p)
      PROVE  UNCHANGED proc[Server].pc /\ UNCHANGED settings /\ (emptied => emptied')
  BY <1>5, <1>8 DEF MigrateSchema
<1>9. ASSUME NEW p \in Processes, Outage(p) \/ Stop(p)
      PROVE  UNCHANGED proc[Server].pc /\ UNCHANGED settings /\ (emptied => emptied')
  BY <1>2, <1>3, <1>9 DEF Outage, Stop, Fault, Steps
<1>10. ASSUME NEW l \in Logins, invite(l) \/ removeMember(l)
       PROVE  UNCHANGED proc[Server].pc /\ UNCHANGED settings /\ (emptied => emptied')
  <2>1. UNCHANGED settings /\ (emptied => emptied')
    <3>1. CASE invite(l)
      BY <3>1 DEF invite
    <3>2. CASE removeMember(l)
      <4>1. UNCHANGED settings
        BY <3>2 DEF removeMember
      <4>2. emptied' = (emptied \/ \A k \in Logins \ {l} : org_membership[k] = None)
        BY <3>2 DEF removeMember
      <4> QED
        BY <4>1, <4>2, Zenon
    <3> QED
      BY <1>10, <3>1, <3>2
  <2>2. UNCHANGED proc[Server].pc
    BY <1>1, <1>10 DEF invite, removeMember, Goes, Rests, ProcTypeOK
  <2> QED
    BY <2>1, <2>2
<1>11. CASE EndSessions
  BY <1>1, <1>2, <1>11 DEF EndSessions, Steps
<1>12. ASSUME \/ \E u \in People, k \in Logins : Rename(u, k)
              \/ \E f \in Flows : SignIn(f)
              \/ \E t \in Tokens : logout(t)
       PROVE  UNCHANGED <<proc, settings, emptied>>
  BY <1>12 DEF Rename, SignIn, Callback, Claim, Lookup, Join, Relookup, createSession, Fails, logout
<1> QED
  BY <1>6, <1>7, <1>8, <1>9, <1>10, <1>11, <1>12 DEF Next, Step

LEMMA SeatsStep ==
  ASSUME MigrationInv, MembersInv, AskingInv, SeatsInv, [Next]_vars
  PROVE  SeatsInv'
<1> USE DEF SeatsInv, At, settings
<1>1. /\ LOCAL_LOGIN \in Labels /\ LOCAL_LOGIN \notin Logins /\ Logins \subseteq Labels
      /\ Bootstrap \in Logins /\ None # Unclaimed
  BY AccountsAssumption DEF Labels
<1>2. org_membership \in [Labels -> People \cup {None, Unclaimed, LocalUser}]
  BY DEF MembersInv, MembersTypeOK
<1>3. Server \in Processes /\ proc \in [Processes -> [pc : Steps, attempt : Nat, left : SUBSET Versions]]
  BY Places DEF MigrationInv, ProcTypeOK
<1>4. CASE UNCHANGED vars
  BY <1>4 DEF vars, accountVars, memberVars
<1>5. CASE ensureLocalUser
  BY <1>1, <1>2, <1>3, <1>5 DEF ensureLocalUser, Rests, Before
<1>6. CASE CountMembers
  <2>1. RealMembers # {} => \E l \in Logins : org_membership[l] # None
    BY DEF RealMembers, Labels
  <2>2. proc'[Server].pc = IF admin # None /\ RealMembers = {} THEN "bootstrap" ELSE "ready"
    BY <1>3, <1>6 DEF CountMembers, Goes, Rests, Before
  <2> QED
    BY <1>6, <2>1, <2>2 DEF CountMembers, memberVars
<1>7. CASE bootstrapAdmin
  <2>1. org_membership'[Bootstrap] # None
    BY <1>1, <1>2, <1>7 DEF bootstrapAdmin
  <2>2. mode' # "none" /\ admin' \in {None, Bootstrap} /\ proc'[Server].pc = "ready"
    BY <1>3, <1>7 DEF bootstrapAdmin, Rests, Before
  <2> QED
    BY <1>1, <2>1, <2>2
<1>8. ASSUME Next, ~ensureLocalUser, ~CountMembers, ~bootstrapAdmin, proc'[Server].pc \in Last
      PROVE  SeatsInv'
  <2>1. UNCHANGED proc[Server].pc /\ UNCHANGED settings /\ (emptied => emptied')
    BY <1>8, GetsReady
  <2>2. ASSUME NEW l \in Logins, removeMember(l) PROVE SeatsInv'
    <3>1. /\ \A k \in Labels \ {l} : UNCHANGED org_membership[k]
          /\ emptied' = (emptied \/ \A k \in Logins \ {l} : org_membership[k] = None)
      BY <1>2, <2>2 DEF removeMember
    <3>2. /\ proc'[Server].pc = proc[Server].pc /\ mode' = mode /\ admin' = admin
          /\ emptied => emptied'
      BY <2>1
    <3>3. UNCHANGED org_membership[LOCAL_LOGIN]
      BY <1>1, <3>1
    <3>4. ~emptied' => \E k \in Logins : org_membership'[k] # None
      BY <1>1, <3>1
    <3>5. proc'[Server].pc = "bootstrap" => mode' # "none" /\ admin' = Bootstrap
      BY <3>2
    <3>6. proc'[Server].pc = "ready" =>
              IF mode' = "none" THEN org_membership'[LOCAL_LOGIN] = LocalUser
              ELSE admin' # None /\ ~emptied' => \E k \in Logins : org_membership'[k] # None
      BY <3>2, <3>3, <3>4
    <3>7. admin' \in {None, Bootstrap}
      BY <3>2
    <3> QED
      BY <3>5, <3>6, <3>7
  <2>3. CASE ~ \E l \in Logins : removeMember(l)
    BY <1>8, <2>1, <2>3, RowsStay
  <2> QED
    BY <2>2, <2>3
<1>9. ASSUME Next PROVE admin' \in {None, Bootstrap}
  <2>1. ASSUME NEW m \in {"none", "github"}, NEW l \in {None, Bootstrap}, StartServer(m, l)
        PROVE  admin' \in {None, Bootstrap}
    BY <2>1 DEF StartServer
  <2>2. \/ \E m \in {"none", "github"}, l \in {None, Bootstrap} : StartServer(m, l)
        \/ UNCHANGED admin
    BY <1>9 DEF Next, Step, SignIn, Rename, StartCommand, MigrateSchema, Outage, Stop, CountMembers,
                ensureLocalUser, bootstrapAdmin, invite, removeMember, EndSessions, Callback, Claim,
                Lookup, Join, Relookup, createSession, Fails, logout
  <2> QED
    BY <2>1, <2>2
<1>10. ASSUME Next, proc'[Server].pc \notin Last PROVE SeatsInv'
  BY <1>9, <1>10 DEF Last
<1> QED
  BY <1>4, <1>5, <1>6, <1>7, <1>8, <1>10

LEMMA SeatsInvariant == Spec => [](MigrationInv /\ MembersInv /\ AskingInv /\ SeatsInv)
<1>1. AccountsInit => AskingInv /\ SeatsInv
  BY Places DEF AccountsInit, Init, AskingInv, Asking, Idle, SeatsInv, At, Before
<1>2. MigrationInv /\ MembersInv /\ AskingInv /\ SeatsInv /\ [Next]_vars => AskingInv' /\ SeatsInv'
  BY AskingStep, SeatsStep
<1> QED
  BY <1>1, <1>2, MigrationInvariant, MembersInvariant, PTL DEF Spec

\* A deployment that has booted has a seat for somebody: its stand-in's row is there if it has no
\* accounts; if it has, and was told of a first admin, a member's or an invitation until the last one
\* is removed (migrate.ts:138-185, 273), however often it was started, in which mode, and whatever
\* sign-ins and commands are under way.
THEOREM ThereIsASeat == Spec => []SomebodyCanSignIn
<1>1. SeatsInv => SomebodyCanSignIn
  BY DEF SeatsInv, SomebodyCanSignIn, resolveUser, localCaller
<1> QED
  BY <1>1, SeatsInvariant, PTL

-----------------------------------------------------------------------------
(* Nobody is turned away in error                                          *)

\* A callback whose person was expected all along has not yet been told no, and has got past the claim
\* as a member.
DueInv ==
    \A f \in due :
        /\ Expected(f)
        /\ flow[f].pc \in {"claim", "lookup", "session"}
        /\ flow[f].pc = "lookup" => Member(f)

\* memberOf ranges over the rows, which are those of the labels.
LEMMA MemberIs ==
  ASSUME MembersInv, NEW f \in Flows
  PROVE  memberOf(flow[f].who) <=> Member(f)
BY DEF MembersInv, MembersTypeOK, memberOf, Member, Range

\* The claim of somebody expected leaves them a member.
LEMMA ClaimsASeat ==
  ASSUME MembersInv, AskingInv, NEW f \in Flows, Expected(f), Claim(f)
  PROVE  Member(f)'
<1>1. flow[f].who \in People /\ flow[f].login \in Labels
  BY DEF AskingInv, Asking, Claim, Labels
<1>2. flow'[f].who = flow[f].who /\ org_membership \in [Labels -> People \cup {None, Unclaimed, LocalUser}]
  BY DEF MembersInv, MembersTypeOK, Claim, Does, Flow
<1>3. CASE Claims(flow[f].who, flow[f].login)
  <2>1. org_membership'[flow[f].login] = flow[f].who
    BY <1>1, <1>2, <1>3 DEF Claim
  <2> QED
    BY <1>1, <1>2, <2>1 DEF Member
<1>4. CASE ~Claims(flow[f].who, flow[f].login)
  <2>1. Member(f)
    BY <1>4, MemberIs DEF Claims, Expected
  <2> QED
    BY <1>2, <1>4, <2>1 DEF Claim, Member
<1> QED
  BY <1>3, <1>4

\* What a sign-in makes of its own callback, whose person is expected.
LEMMA DueFlow ==
  ASSUME MembersInv, AskingInv, NEW f \in due, f \in Flows, DueInv, SignIn(f)
  PROVE  /\ flow'[f].pc # "refused"
         /\ flow'[f] # Idle => flow'[f].pc \in {"claim", "lookup", "session"}
         /\ flow'[f].pc = "lookup" => Member(f)'
<1>1. flow \in [Flows -> Flow] /\ flow[f] \in Flow
  BY DEF MembersInv, MembersTypeOK
<1>2. /\ Expected(f) /\ flow[f].pc \in {"claim", "lookup", "session"}
      /\ flow[f].pc = "lookup" => memberOf(flow[f].who)
  BY MemberIs DEF DueInv
<1>3. ASSUME NEW u \in People, Callback(f, u)
      PROVE  FALSE
  BY <1>2, <1>3 DEF Callback, Expected
<1>4. CASE Claim(f)
  BY <1>1, <1>2, <1>4, ClaimsASeat DEF Claim, Does, Flow
<1>5. CASE Lookup(f)
  BY <1>1, <1>2, <1>5 DEF Lookup, Does, Flow
<1>6. CASE Fails(f) \/ \E t \in Tokens : createSession(f, t)
  <2>1. flow'[f] = Idle
    BY <1>1, <1>6 DEF Fails, createSession, Ends
  <2> QED
    BY <2>1 DEF Idle
<1>7. ~Join(f) /\ ~Relookup(f)
  BY <1>2 DEF Join, Relookup
<1> QED
  BY <1>3, <1>4, <1>5, <1>6, <1>7, <1>2 DEF SignIn

\* A person that no step of their own callback moves stays where they were, if they are expected still.
LEMMA DueStep ==
  ASSUME MembersInv, AskingInv, DueInv, due \subseteq Flows, Next
  PROVE  /\ DueInv' /\ due' \subseteq Flows
         /\ \A f \in due : flow'[f].pc # "refused"
<1>1. flow \in [Flows -> Flow]
  BY DEF MembersInv, MembersTypeOK
<1>2. \A f \in Flows : flow[f].who = None => ~Expected(f)
  BY DEF Expected
<1>3. due' = {f \in Flows : Expected(f)' /\ ((f \in due /\ ~Loses(f)) \/ flow[f].who = None)}
  BY DEF Next
<1>4. ASSUME NEW f \in Flows
      PROVE  \/ UNCHANGED flow[f]
             \/ SignIn(f)
             \/ flow'[f] = Idle
  <2>1. ASSUME NEW g \in Flows, SignIn(g), g # f
        PROVE  UNCHANGED flow[f]
    BY <1>1, <2>1 DEF SignIn, Callback, Claim, Lookup, Join, Relookup, createSession, Fails, Does, Ends
  <2>2. ASSUME NEW p \in Processes, Stop(p)
        PROVE  UNCHANGED flow[f] \/ flow'[f] = Idle
    BY <2>2 DEF Stop
  <2>3. ASSUME \/ \E u \in People, l \in Logins : Rename(u, l)
               \/ \E m \in {"none", "github"}, k \in {None, Bootstrap} : StartServer(m, k)
               \/ StartCommand
               \/ \E p \in Processes : MigrateSchema(p) \/ Outage(p)
               \/ ensureLocalUser \/ CountMembers \/ bootstrapAdmin
               \/ \E l \in Logins : invite(l) \/ removeMember(l)
               \/ EndSessions
               \/ \E t \in Tokens : logout(t)
        PROVE  UNCHANGED flow
    BY <2>3 DEF Rename, StartServer, StartCommand, MigrateSchema, Outage, ensureLocalUser, CountMembers,
                bootstrapAdmin, invite, removeMember, EndSessions, logout
  <2> QED
    BY <2>1, <2>2, <2>3 DEF Next, Step
<1>5. ASSUME NEW f \in due
      PROVE  flow'[f].pc # "refused"
  <2>1. flow[f].pc \in {"claim", "lookup", "session"}
    BY <1>5 DEF DueInv
  <2> QED
    BY <1>4, <1>5, <2>1, DueFlow DEF Idle
<1>6. ASSUME NEW f \in due', f \in due
      PROVE  /\ Expected(f)'
             /\ flow'[f].pc \in {"claim", "lookup", "session"}
             /\ flow'[f].pc = "lookup" => Member(f)'
  <2>1. f \in Flows /\ Expected(f)' /\ ~Loses(f)
    BY <1>2, <1>3, <1>6 DEF DueInv
  <2>2. CASE UNCHANGED flow[f]
    BY <1>6, <2>1, <2>2 DEF DueInv, Loses
  <2>3. flow'[f] # Idle
    BY <2>1 DEF Expected, Idle
  <2>4. CASE SignIn(f)
    BY <1>6, <2>1, <2>3, <2>4, DueFlow
  <2> QED
    BY <1>4, <2>1, <2>2, <2>3, <2>4
<1>7. ASSUME NEW f \in due', f \notin due
      PROVE  /\ Expected(f)'
             /\ flow'[f].pc = "claim"
  <2>1. f \in Flows /\ Expected(f)' /\ flow[f].who = None
    BY <1>3, <1>7
  <2>2. flow'[f].who # None
    BY <2>1 DEF Expected
  <2>3. SignIn(f)
    BY <1>4, <2>1, <2>2 DEF Idle
  <2>4. flow[f].pc \notin Asking
    BY <2>1, AccountsAssumption DEF AskingInv
  <2>5. \E u \in People : Callback(f, u)
    BY <1>1, <2>1, <2>3, <2>4 DEF SignIn, Claim, Lookup, Join, Relookup, createSession, Fails, Asking
  <2> QED
    BY <1>1, <2>1, <2>5 DEF Callback
<1> QED
  BY <1>3, <1>5, <1>6, <1>7 DEF DueInv

\* Nobody is turned away who was a member, or invited under the login they came with, from the moment
\* GitHub named them to the answer, and was not removed meanwhile (store.ts:105-155,
\* routes/auth.ts:97-118), whatever other sign-ins, renames, commands and restarts come between.
THEOREM TheExpectedGetIn == Spec => RefusedMeansUninvited
<1> DEFINE Inv == MembersInv /\ AskingInv /\ DueInv /\ due \subseteq Flows
<1>1. AccountsInit => Inv
  <2>1. AccountsInit => MembersInv
    BY FlowFacts DEF AccountsInit, MembersInv, MembersTypeOK, Labels
  <2>2. AccountsInit => AskingInv /\ DueInv /\ due \subseteq Flows
    BY DEF AccountsInit, AskingInv, Asking, Idle, DueInv
  <2> QED
    BY <2>1, <2>2
<1>2. Inv /\ [Next]_vars => Inv'
  <2>1. CASE UNCHANGED vars
    BY <2>1, MembersStep, AskingStep DEF vars, accountVars, memberVars, DueInv, Expected, Member
  <2>2. CASE Next
    BY <2>2, MembersStep, AskingStep, DueStep
  <2> QED
    BY <2>1, <2>2
<1>3. Inv /\ [Next]_vars => [\A f \in due : flow'[f].pc # "refused"]_vars
  BY DueStep
<1> QED
  BY <1>1, <1>2, <1>3, PTL DEF Spec, RefusedMeansUninvited
=============================================================================
