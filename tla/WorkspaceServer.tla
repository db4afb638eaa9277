---------------------------- MODULE WorkspaceServer ----------------------------
(***************************************************************************)
(* What the server holds for the workspace page of one member: the rows of *)
(* routes/workspace.ts, the list of repositories of github/repo-source.ts, *)
(* and the facts of workspace/facts.ts.  The clone queue is here only as   *)
(* what happens to a row: see CloneQueue.                                  *)
(***************************************************************************)
EXTENDS LoginGate, Naturals, FiniteSets

CONSTANTS
    Repos,
    Selections,   \* what the member may have selected before
    Grants,       \* the sets of repositories that the installation of the App may see
    MaxRepos,     \* MAX_REPOS_PER_USER
    MaxFaults     \* requests that fail, answers that are lost, restarts of the server,
                  \* sessions that end
ASSUME WorkspaceServerAssumption ==
    /\ Selections \cup Grants \subseteq SUBSET Repos
    /\ {MaxRepos, MaxFaults} \subseteq Nat

VARIABLES
    user_repo,        \* the status of each repository, "absent" without a row
    selected,         \* the rows that are not deselected
    clones,           \* how many clones of each are running
    twice,            \* what the properties remember: two of one checkout did
    user_executor,    \* the names of the member's executors
    facts,            \* of each checkout: "unknown", "pending" or "measured"
    listed,           \* the list of repositories that the server keeps, None before the first
    hitches

cloneVars == <<clones, twice>>
rowVars == <<user_repo, selected, cloneVars, user_executor>>
serverVars == <<rowVars, facts, listed, hitches>>

\* The page is opened at any time: by a member whose selection may be in whatever state.
ServerInit ==
    /\ selected \in Selections
    /\ \E was \in [selected -> {"queued", "cloning", "ready", "failed"}] :
        user_repo = [r \in Repos |-> IF r \in selected THEN was[r] ELSE "absent"]
    /\ clones = [r \in Repos |-> IF user_repo[r] = "cloning" THEN 1 ELSE 0]
    /\ twice = FALSE
    /\ user_executor = {}
    /\ facts = [r \in Repos |-> "unknown"]
    /\ listed = None
    /\ hitches = 0

\* One more of what may go wrong.
Hitch == hitches < MaxFaults /\ hitches' = hitches + 1

-----------------------------------------------------------------------------
(* The list of repositories                                                *)

\* All pages of what the installation sees, which its owner may change at any time.
listRepositories == Grants

\* A list serves for ten minutes as it is.  After that it is fetched again, and serves all the same if
\* that fails.
load ==
    \/ listed # None /\ UNCHANGED <<listed, hitches>>
    \/ listed' \in listRepositories /\ UNCHANGED hitches
    \/ Hitch /\ UNCHANGED listed

Available == IF listed' = None THEN {} ELSE listed'

-----------------------------------------------------------------------------
(* The rows                                                                *)

\* What the three statements of GET /api/workspace would read now.
Rows == [repos |-> {[repo |-> r, status |-> user_repo[r]] : r \in selected},
         orphaned |-> {r \in Repos \ selected : user_repo[r] # "absent"},
         executors |-> user_executor]

\* The facts are not waited for.  What is ready and was never measured is measured from now on.
describe(repos) ==
    facts' = [r \in Repos |-> IF [repo |-> r, status |-> "ready"] \in repos /\ facts[r] = "unknown"
                              THEN "pending" ELSE facts[r]]

\* The whole selection is replaced: what is in it is queued, unless it is ready; what is not is
\* deselected and keeps its row.
select(sel) ==
    /\ user_repo' = [r \in Repos |-> IF r \in sel /\ user_repo[r] # "ready" THEN "queued"
                                     ELSE user_repo[r]]
    /\ selected' = sel
    /\ UNCHANGED <<cloneVars, user_executor>>

replace(list) ==
    /\ user_executor' = list
    /\ UNCHANGED <<user_repo, selected, cloneVars>>

-----------------------------------------------------------------------------
(* What goes on by itself                                                  *)

Measured(r) ==
    /\ facts[r] = "pending"
    /\ facts' = [facts EXCEPT ![r] = "measured"]
    /\ UNCHANGED <<rowVars, listed, hitches>>

claimPending(r) ==
    /\ user_repo[r] = "queued" /\ r \in selected
    /\ user_repo' = [user_repo EXCEPT ![r] = "cloning"]
    /\ clones' = [clones EXCEPT ![r] = @ + 1]
    /\ twice' = (twice \/ clones[r] > 0)
    /\ UNCHANGED <<selected, user_executor, facts, listed, hitches>>

\* A clone ends, and says so in its row whatever that says.
Cloned(r, end) ==
    /\ clones[r] > 0
    /\ clones' = [clones EXCEPT ![r] = @ - 1]
    /\ user_repo' = [user_repo EXCEPT ![r] = end]
    /\ UNCHANGED <<twice, selected, user_executor, facts, listed, hitches>>

CloneStep(r) == claimPending(r) \/ \E end \in {"ready", "failed"} : Cloned(r, end)

\* The server starts again, and with it every clone; what it kept in memory is gone.
Restarts ==
    /\ Hitch
    /\ user_repo' = [r \in Repos |-> IF user_repo[r] = "cloning" THEN "queued" ELSE user_repo[r]]
    /\ facts' = [r \in Repos |-> "unknown"]
    /\ clones' = [r \in Repos |-> 0]
    /\ listed' = None
    /\ UNCHANGED <<selected, twice, user_executor>>

ServerNext ==
    \/ \E r \in Repos : Measured(r) \/ CloneStep(r)
    \/ Restarts
=============================================================================
