------------------------------- MODULE Accounts -------------------------------
(***************************************************************************)
(* Who may use the dashboard.  An operator invites a login and removes it  *)
(* (admin/invite.ts); the person who has that login at GitHub claims the   *)
(* invitation when they first sign in (routes/auth.ts, auth/store.ts); and *)
(* their session answers for as long as their account is a member.  The    *)
(* first member of a deployment is planted by its boot (db/migrate.ts).    *)
(* Every statement is a step of its own: a sign-in is several, a removal   *)
(* two, and logins change hands at GitHub while they run.                  *)
(*                                                                         *)
(* Roles are left out: nothing here depends on them.                       *)
(***************************************************************************)
EXTENDS Migrations, Functions

CONSTANTS
    None,
    Server, Cli,          \* the two processes
    People,               \* accounts of GitHub, by their numeric id
    Logins,               \* what GitHub calls them, for now
    LOCAL_LOGIN,          \* the stand-in of AUTH_MODE=none, and its account
    LocalUser,
    Unclaimed,            \* the user_id of an invitation nobody has claimed
    Bootstrap,            \* the login that AUTH_BOOTSTRAP_ADMIN names, where it is set
    Tokens,               \* the session cookies
    Flows,                \* callbacks of GitHub under way
    AutoJoin,             \* AUTH_AUTO_JOIN_GITHUB_ORG is set
    MaxRuns,              \* of the server and of commands, and outages, together
    MaxVisits             \* renames and sign-ins, together
ASSUME AccountsAssumption ==
    /\ Processes = {Server, Cli}
    /\ Bootstrap \in Logins /\ LOCAL_LOGIN \notin Logins /\ LocalUser \notin People
    /\ Server # Cli /\ {None, Unclaimed} \cap People = {} /\ None # Unclaimed
    /\ AutoJoin \in BOOLEAN
    /\ {MaxRuns, MaxVisits} \subseteq Nat

VARIABLES
    github,            \* the login of each person, at GitHub
    org_membership,    \* the account behind each login: None without a row
    session,           \* whose each cookie is: None of one that is not out, or is expired
    flow,              \* what each callback is at, for whom, and under which login
    mode,              \* AUTH_MODE of the server
    admin,             \* its AUTH_BOOTSTRAP_ADMIN, None if that is not set
    ending,            \* the account whose sessions the command has still to end
    count,             \* of the runs, with the outages, and of the visits so far
    \* What the properties remember.
    due,               \* the flows whose person was a member, or invited, all along
    ended,             \* the cookies that were out when the removal of their owner was done
    emptied            \* the last login was removed since a boot last saw or planted one

memberVars == <<org_membership, session>>
settings == <<mode, admin>>
accountVars == <<github, memberVars, flow, settings, ending, count, due, ended, emptied>>
vars == <<databaseVars, proc, accountVars>>

Labels == Logins \cup {LOCAL_LOGIN}
Idle == [pc |-> "idle", who |-> None, login |-> None, joins |-> FALSE]
Refused == [Idle EXCEPT !.pc = "refused"]
Does(f, pc) == flow' = [flow EXCEPT ![f].pc = pc]
Ends(f, as) == flow' = [flow EXCEPT ![f] = as]
Counts(what) == count' = [count EXCEPT ![what] = @ + 1]

AccountsInit ==
    /\ Init
    /\ github \in {g \in [People -> Logins] : IsInjective(g)}
    /\ org_membership = [l \in Labels |-> None]
    /\ session = [t \in Tokens |-> None]
    /\ flow = [f \in Flows |-> Idle]
    /\ mode = "github" /\ admin = None
    /\ ending = None
    /\ count = [runs |-> 0, visits |-> 0]
    /\ due = {} /\ ended = {} /\ emptied = FALSE

MemberByLogin(u) == u \in People /\ org_membership[github[u]] = u   \* seeded bug: joined by the login

\* The account is a member: memberOf, and the join of findSession.
memberOf(u) == u \in Range(org_membership)

\* The account whose cookie t is, if it is a member still.
findSession(t) == session[t] # None /\ memberOf(session[t])

\* The stand-in, which every request is attributed to where there are no accounts.
localCaller == org_membership[LOCAL_LOGIN] = LocalUser

\* A request with cookie t has somebody behind it.
resolveUser(t) == IF mode = "none" THEN localCaller ELSE findSession(t)

-----------------------------------------------------------------------------
(* GitHub                                                                  *)

\* Somebody takes a login that nobody has.
Rename(u, l) ==
    /\ count.visits < MaxVisits
    /\ l \notin Range(github)
    /\ github' = [github EXCEPT ![u] = l]
    /\ Counts("visits")
    /\ UNCHANGED <<databaseVars, proc, memberVars, flow, settings, ending, ended, emptied>>

-----------------------------------------------------------------------------
(* The processes                                                           *)

\* The server starts, with accounts or without, and with accounts it may be told of a first admin;
\* or the operator starts a command.
StartServer(m, l) ==
    /\ count.runs < MaxRuns
    /\ Start(Server)
    /\ mode' = m /\ admin' = l
    /\ m = "none" => l = None
    /\ Counts("runs")
    /\ UNCHANGED <<github, memberVars, flow, ending, ended, emptied>>

StartCommand ==
    /\ count.runs < MaxRuns
    /\ Start(Cli)
    /\ Counts("runs")
    /\ UNCHANGED <<github, memberVars, flow, settings, ending, ended, emptied>>

\* What migrate() does to the schema, in either process: the command plants no member.
MigrateSchema(p) ==
    /\ Migrate(p, IF p = Cli THEN "ready" ELSE "members")
    /\ UNCHANGED <<github, memberVars, flow, settings, ending, count, ended, emptied>>

Outage(p) ==
    /\ count.runs < MaxRuns
    /\ Fault(p)
    /\ Counts("runs")
    /\ UNCHANGED <<github, memberVars, flow, settings, ending, ended, emptied>>

\* The last statements of migrate(): the server plants the stand-in, or looks for a real member.  That
\* reapSessions deletes what is expired changes nothing for anybody.
ensureLocalUser ==
    /\ At(Server, "members") /\ mode = "none"
    /\ org_membership' = [org_membership EXCEPT ![LOCAL_LOGIN] = LocalUser]
    /\ Rests(Server, "ready")
    /\ UNCHANGED <<databaseVars, github, session, flow, settings, ending, count, ended, emptied>>

AnyMembers == {l \in Labels : org_membership[l] # None}   \* seeded bug: counts the stand-in

RealMembers == {l \in Labels : org_membership[l] # None /\ l # LOCAL_LOGIN}

CountMembers ==
    /\ At(Server, "members") /\ mode = "github"
    /\ IF admin # None /\ RealMembers = {} THEN Goes(Server, "bootstrap") ELSE Rests(Server, "ready")
    /\ emptied' = FALSE
    /\ UNCHANGED <<databaseVars, github, memberVars, flow, settings, ending, count, ended>>

bootstrapAdmin ==
    /\ At(Server, "bootstrap")
    /\ org_membership' = [org_membership EXCEPT ![admin] = IF @ = None THEN Unclaimed ELSE @]
    /\ Rests(Server, "ready")
    /\ emptied' = FALSE
    /\ UNCHANGED <<databaseVars, github, session, flow, settings, ending, count, ended>>

\* A process ends or dies, wherever it is: the callbacks under way die with the server.
Stop(p) ==
    /\ ~At(p, "down")
    /\ Rests(p, "down")
    /\ flow' = IF p = Server THEN [f \in Flows |-> Idle] ELSE flow
    /\ ending' = IF p = Cli THEN None ELSE ending
    /\ UNCHANGED <<databaseVars, github, memberVars, settings, count, ended, emptied>>

-----------------------------------------------------------------------------
(* The commands                                                            *)

\* Invites a login; one that has a row already keeps what the row says.
invite(l) ==
    /\ At(Cli, "ready")
    /\ org_membership' = [org_membership EXCEPT ![l] = IF @ = None THEN Unclaimed ELSE @]
    /\ Rests(Cli, "down")
    /\ UNCHANGED <<databaseVars, github, session, flow, settings, ending, count, ended, emptied>>

\* Removes what a login stands for, the one the row was made with.  The sessions of the account go
\* in a second statement.
removeMember(l) ==
    /\ At(Cli, "ready")
    /\ org_membership[l] # None
    /\ org_membership' = [org_membership EXCEPT ![l] = None]
    /\ ending' = IF org_membership[l] = Unclaimed THEN None ELSE org_membership[l]
    /\ Goes(Cli, IF org_membership[l] = Unclaimed THEN "down" ELSE "ending")
    /\ emptied' = (emptied \/ \A k \in Logins \ {l} : org_membership[k] = None)
    /\ UNCHANGED <<databaseVars, github, session, flow, settings, count, ended>>

EndsOne(u) ==   \* seeded bug: ends the latest session only
    LET own == {t \in Tokens : session[t] = u}
    IN IF own = {} THEN session ELSE [session EXCEPT ![CHOOSE t \in own : TRUE] = None]

\* Every cookie of account u is deleted.
WithoutSessions(u) == [t \in Tokens |-> IF session[t] = u THEN None ELSE session[t]]

EndSessions ==
    /\ At(Cli, "ending")
    /\ session' = WithoutSessions(ending)
    /\ ended' = ended \cup {t \in Tokens : session[t] = ending}
    /\ ending' = None
    /\ Rests(Cli, "down")
    /\ UNCHANGED <<databaseVars, github, org_membership, flow, settings, count, emptied>>

-----------------------------------------------------------------------------
(* Signing in and out                                                      *)

\* The server can serve: `ready` has come, and accounts are real.
Serves == At(Server, "ready") /\ mode = "github"

\* GitHub has said who it is that came back, and what they are called; their account is made, or found
\* by its number.  The label it keeps is for people to read.
Callback(f, u) ==
    /\ Serves
    /\ flow[f].who = None
    /\ count.visits < MaxVisits
    /\ flow' = [flow EXCEPT ![f] = [pc |-> "claim", who |-> u, login |-> github[u], joins |-> FALSE]]
    /\ Counts("visits")
    /\ UNCHANGED <<databaseVars, proc, github, memberVars, settings, ending, ended, emptied>>

ClaimsAny(u, l) == org_membership[l] # None /\ ~memberOf(u)   \* seeded bug: without user_id is null

\* The row of login l waits for account u, which is not a member under another one.
Claims(u, l) == org_membership[l] = Unclaimed /\ ~memberOf(u)

Claim(f) ==
    /\ flow[f].pc = "claim"
    /\ org_membership' = IF Claims(flow[f].who, flow[f].login)
                         THEN [org_membership EXCEPT ![flow[f].login] = flow[f].who]
                         ELSE org_membership
    /\ Does(f, "lookup")
    /\ UNCHANGED <<databaseVars, proc, github, session, settings, ending, count, ended, emptied>>

\* Who is a member gets a session.  Who is not may still be one of the GitHub organization, as far as
\* GitHub says: it is asked once.
Lookup(f) ==
    /\ flow[f].pc = "lookup"
    /\ \/ memberOf(flow[f].who) /\ Does(f, "session")
       \/ ~memberOf(flow[f].who) /\ flow[f].joins /\ Does(f, "join")
       \/ ~memberOf(flow[f].who) /\ ~flow[f].joins /\ Ends(f, Refused)
       \/ /\ ~memberOf(flow[f].who) /\ AutoJoin /\ ~flow[f].joins
          /\ flow' = [flow EXCEPT ![f].pc = "claim", ![f].joins = TRUE]
    /\ UNCHANGED <<databaseVars, proc, github, memberVars, settings, ending, count, ended, emptied>>

\* Joins under the login, unless the login has a row; the account must not have one.
Join(f) ==
    /\ flow[f].pc = "join"
    /\ LET u == flow[f].who
           l == flow[f].login
       IN IF org_membership[l] = None /\ memberOf(u)
          THEN Ends(f, Idle) /\ UNCHANGED org_membership
          ELSE /\ org_membership' = [org_membership EXCEPT ![l] = IF @ = None THEN u ELSE @]
               /\ Does(f, "relookup")
    /\ UNCHANGED <<databaseVars, proc, github, session, settings, ending, count, ended, emptied>>

Relookup(f) ==
    /\ flow[f].pc = "relookup"
    /\ IF memberOf(flow[f].who) THEN Does(f, "session") ELSE Ends(f, Refused)
    /\ UNCHANGED <<databaseVars, proc, github, memberVars, settings, ending, count, ended, emptied>>

\* The cookie goes out.
createSession(f, t) ==
    /\ flow[f].pc = "session"
    /\ session[t] = None
    /\ session' = [session EXCEPT ![t] = flow[f].who]
    /\ ended' = ended \ {t}
    /\ Ends(f, Idle)
    /\ UNCHANGED <<databaseVars, proc, github, org_membership, settings, ending, count, emptied>>

\* A statement of a sign-in fails.
Fails(f) ==
    /\ flow[f].who # None
    /\ Ends(f, Idle)
    /\ UNCHANGED <<databaseVars, proc, github, memberVars, settings, ending, count, ended, emptied>>

\* Somebody signs out, or the two weeks of their cookie are over: to every reader the row is gone,
\* and reapSessions deletes an expired one at the next boot.
logout(t) ==
    /\ session[t] # None
    /\ session' = [session EXCEPT ![t] = None]
    /\ UNCHANGED <<databaseVars, proc, github, org_membership, flow, settings, ending, count, ended, emptied>>

-----------------------------------------------------------------------------
\* The person of callback f is a member, or is waited for under the login that they came with.
Member(f) == \E l \in Labels : org_membership[l] = flow[f].who
Expected(f) == flow[f].who # None /\ (Member(f) \/ org_membership[flow[f].login] = Unclaimed)
Loses(f) == Member(f) /\ ~Member(f)'

SignIn(f) ==
    \/ \E u \in People : Callback(f, u)
    \/ Claim(f)
    \/ Lookup(f)
    \/ Join(f)
    \/ Relookup(f)
    \/ \E t \in Tokens : createSession(f, t)
    \/ Fails(f)

Step ==
    \/ \E u \in People, l \in Logins : Rename(u, l)
    \/ \E m \in {"none", "github"}, l \in {None, Bootstrap} : StartServer(m, l)
    \/ StartCommand
    \/ \E p \in Processes : MigrateSchema(p) \/ Outage(p) \/ Stop(p)
    \/ ensureLocalUser
    \/ CountMembers
    \/ bootstrapAdmin
    \/ \E l \in Logins : invite(l) \/ removeMember(l)
    \/ EndSessions
    \/ \E f \in Flows : SignIn(f)
    \/ \E t \in Tokens : logout(t)

Next ==
    /\ Step
    /\ due' = {f \in Flows : Expected(f)' /\ ((f \in due /\ ~Loses(f)) \/ flow[f].who = None)}

Spec == AccountsInit /\ [][Next]_vars

-----------------------------------------------------------------------------
\* A membership stays with the account that claimed it until somebody removes it, whatever its person
\* and others are called by now: the predicate of signIn's claim, store.ts:124-139.
ClaimedForGood ==
    [][\A l \in Logins : org_membership[l] \in People => org_membership'[l] \in {org_membership[l], None}]_vars

\* Nobody is turned away who was a member, or invited under the login they came with, from the moment
\* GitHub named them to the answer, and was not removed meanwhile: no statement of a sign-in looks at
\* the wrong row, and nothing done by others comes between them (store.ts:105-155, routes/auth.ts:97-118).
RefusedMeansUninvited == [][\A f \in due : flow'[f].pc # "refused"]_vars

\* Once a removal is done, no cookie that was out answers any more, not even when its owner is invited
\* and signs in again: removeMember deletes the sessions for that (store.ts:228-231).
RemovalEndsSessions == \A t \in ended : mode = "github" => ~resolveUser(t)

\* A deployment that has booted can be used: by the stand-in if it has no accounts; if it has, and
\* was told of a first admin, by a member or somebody invited, until the operator removes the last
\* one.  What an earlier life without accounts left behind does not count (migrate.ts:138-185).  With
\* accounts and no first admin named, the boot plants nobody and promises nothing (migrate.ts:273).
SomebodyCanSignIn ==
    At(Server, "ready") =>
        IF mode = "none" THEN \A t \in Tokens : resolveUser(t)
        ELSE admin # None /\ ~emptied => \E l \in Logins : org_membership[l] # None
=============================================================================
