----------------------------- MODULE WorkspacePage -----------------------------
(***************************************************************************)
(* The workspace page of a tab: the hook useWorkspace with its one chain   *)
(* of polls, which stops when every clone has settled and which a save     *)
(* starts again, the picker of repositories with its list from useRepos,   *)
(* and the dialog that adds an executor.                                   *)
(***************************************************************************)
EXTENDS WorkspaceServer

CONSTANTS
    Executors,    \* the names that the member may give
    MaxSaves
ASSUME WorkspacePageAssumption == MaxSaves \in Nat

VARIABLES
    page,             \* what is on the screen, None before there is anything
    measured,         \* the repositories on it whose facts are
    chain,            \* the chain of polls: what it is doing, and what the server has read for it
    workspaceError,
    picker,           \* whether it is open, what is ticked, and whether it waits for its list
    options,          \* the list of the picker, None before there is one
    dismissed,
    put,              \* the save under way
    failure,          \* what the dialog said of the last save
    saves

pollVars == <<page, measured, chain, workspaceError>>
pickerVars == <<picker, options, dismissed>>
pageVars == <<pollVars, pickerVars, put, failure, saves>>
workspaceVars == <<serverVars, pageVars>>

Unread == [repos |-> None, orphaned |-> None, executors |-> None]
NoChain == [at |-> "off", reply |-> Unread]
Asking == [at |-> "asked", reply |-> Unread]
NoPut == [at |-> "off", of |-> None, what |-> {}]
Shut == [open |-> FALSE, chosen |-> {}, loading |-> FALSE]

WorkspaceInit ==
    /\ ServerInit
    /\ page = None /\ measured = {}
    /\ chain = Asking
    /\ workspaceError = FALSE
    /\ picker = Shut /\ options = None /\ dismissed = FALSE
    /\ put = NoPut /\ failure = FALSE
    /\ saves = 0

Selection(p) == IF p = None THEN {} ELSE {row.repo : row \in p.repos}

-----------------------------------------------------------------------------
(* The polls                                                               *)

\* The statements are sent together, once the session is known, and run in any order.
Read(part) ==
    /\ chain.at = "asked" /\ (session \/ chain # Asking)
    /\ chain.reply[part] = None
    /\ chain' = [chain EXCEPT !.reply[part] = Rows[part]]
    /\ UNCHANGED <<gateVars, serverVars, page, measured, workspaceError, pickerVars, put, failure, saves>>

\* The picker opens with what the page shows ticked, and is ticked anew when that changes.
Seeded(opens, before, after) ==
    IF ~picker.open /\ opens THEN [open |-> TRUE, chosen |-> Selection(after), loading |-> TRUE]
    ELSE IF picker.open /\ Selection(before) # Selection(after)
         THEN [picker EXCEPT !.chosen = Selection(after)]
    ELSE picker

SettledOrQueued(reply) ==   \* seeded bug: a clone that has not begun counts as settled
    \A row \in reply.repos : row.status # "cloning"

settled(reply) == \A row \in reply.repos : row.status \in {"ready", "failed"}

\* A member without repositories is offered the picker, once.
Offers(reply) == reply.repos = {} /\ ~dismissed

\* The answer is shown.  If all is settled that was the last poll.
Shows ==
    /\ chain.at = "asked" /\ \A part \in DOMAIN Unread : chain.reply[part] # None
    /\ page' = chain.reply
    /\ measured' = {r \in Repos : facts[r] = "measured" /\ [repo |-> r, status |-> "ready"] \in page'.repos}
    /\ describe(chain.reply.repos)
    /\ workspaceError' = FALSE
    /\ chain' = IF settled(chain.reply) THEN NoChain ELSE [at |-> "waits", reply |-> Unread]
    /\ picker' = Seeded(Offers(page'), page, page')
    /\ UNCHANGED <<gateVars, rowVars, listed, hitches, options, dismissed, put, failure, saves>>

\* It fails, and with it the chain: nothing asks again.
PollFails ==
    /\ chain.at = "asked"
    /\ Hitch
    /\ workspaceError' = TRUE
    /\ chain' = NoChain
    /\ UNCHANGED <<gateVars, rowVars, facts, listed, page, measured, pickerVars, put, failure, saves>>

PollUnauthorized ==
    /\ chain = Asking /\ ~session
    /\ reportUnauthenticated
    /\ chain' = NoChain
    /\ UNCHANGED <<serverVars, page, measured, workspaceError, pickerVars, put, failure, saves>>

PollAgain ==
    /\ chain.at = "waits"
    /\ chain' = Asking
    /\ UNCHANGED <<gateVars, serverVars, page, measured, workspaceError, pickerVars, put, failure, saves>>

PollStep == (\E part \in DOMAIN Unread : Read(part)) \/ Shows \/ PollUnauthorized \/ PollAgain

-----------------------------------------------------------------------------
(* The picker                                                              *)

\* The page is there, if only with an error on it.
Rendered == page # None \/ workspaceError

OpenPicker ==
    /\ Rendered /\ ~picker.open
    /\ picker' = Seeded(TRUE, page, page)
    /\ UNCHANGED <<gateVars, serverVars, pollVars, options, dismissed, put, failure, saves>>

ClosePicker ==
    /\ picker.open
    /\ picker' = Shut
    /\ dismissed' = TRUE
    /\ UNCHANGED <<gateVars, serverVars, pollVars, options, put, failure, saves>>

\* GET /api/repos answers.
Options ==
    /\ picker.loading /\ session
    /\ load
    /\ options' = Available
    /\ picker' = [picker EXCEPT !.loading = FALSE]
    /\ UNCHANGED <<gateVars, rowVars, facts, pollVars, dismissed, put, failure, saves>>

OptionsFail ==
    /\ picker.loading
    /\ Hitch
    /\ picker' = [picker EXCEPT !.loading = FALSE]
    /\ UNCHANGED <<gateVars, rowVars, facts, listed, pollVars, options, dismissed, put, failure, saves>>

OptionsUnauthorized ==
    /\ picker.loading /\ ~session
    /\ reportUnauthenticated
    /\ picker' = [picker EXCEPT !.loading = FALSE]
    /\ UNCHANGED <<serverVars, pollVars, options, dismissed, put, failure, saves>>

Toggle(r) ==
    /\ picker.open /\ options # None /\ r \in options
    /\ picker' = [picker EXCEPT !.chosen = (@ \cup {r}) \ (@ \cap {r})]
    /\ UNCHANGED <<gateVars, serverVars, pollVars, options, dismissed, put, failure, saves>>

-----------------------------------------------------------------------------
(* PUT /api/workspace/repos and /api/workspace/executors                   *)

\* One save at a time: the buttons of both dialogs wait for it.
Saves(of, what) ==
    /\ put = NoPut
    /\ saves < MaxSaves
    /\ saves' = saves + 1
    /\ put' = [at |-> "sent", of |-> of, what |-> what]
    /\ UNCHANGED <<gateVars, serverVars, pollVars, pickerVars, failure>>

SaveRepos == picker.open /\ ~picker.loading /\ options # None /\ Saves("repos", picker.chosen)

\* The dialog adds one, and sends it as the list.
SaveExecutors(name) == Rendered /\ ~picker.open /\ Saves("executors", {name})

Sent(of) == put.at = "sent" /\ put.of = of /\ session

\* Every name is one that can be a directory, and no two are the same.
parseSelection(sel) == Cardinality(sel) <= MaxRepos

\* The route asks what the installation sees, and refuses what it does not.
Checked ==
    /\ Sent("repos")
    /\ parseSelection(put.what)
    /\ load
    /\ put.what \subseteq Available
    /\ put' = [put EXCEPT !.at = "checked"]
    /\ UNCHANGED <<gateVars, rowVars, facts, pollVars, pickerVars, failure, saves>>

Refused ==
    /\ Sent("repos")
    /\ \/ ~parseSelection(put.what) /\ UNCHANGED <<listed, hitches>>
       \/ parseSelection(put.what) /\ load /\ ~(put.what \subseteq Available)
    /\ put' = NoPut
    /\ failure' = TRUE
    /\ UNCHANGED <<gateVars, rowVars, facts, pollVars, pickerVars, saves>>

\* The rows are written, and the answer is on its way.
Written ==
    /\ put' = [put EXCEPT !.at = "saved"]
    /\ UNCHANGED <<gateVars, facts, listed, hitches, pollVars, pickerVars, failure, saves>>

SelectionWritten == put.at = "checked" /\ select(put.what) /\ Written
ExecutorsWritten == Sent("executors") /\ replace(put.what) /\ Written

\* The request is lost, or its answer is.
SaveFails ==
    /\ put # NoPut
    /\ Hitch
    /\ put' = NoPut
    /\ failure' = TRUE
    /\ UNCHANGED <<gateVars, rowVars, facts, listed, pollVars, pickerVars, saves>>

SaveUnauthorized ==
    /\ put.at = "sent" /\ ~session
    /\ reportUnauthenticated
    /\ put' = NoPut
    /\ failure' = TRUE
    /\ UNCHANGED <<serverVars, pollVars, pickerVars, saves>>

\* A new chain, in the place of the one there was: that is aborted, and its timeout cleared.
start(c) == Asking

Saved ==
    /\ put.at = "saved"
    /\ put' = NoPut
    /\ failure' = FALSE
    /\ chain' = start(chain)
    /\ IF put.of = "repos" THEN picker' = Shut /\ dismissed' = TRUE ELSE UNCHANGED <<picker, dismissed>>
    /\ UNCHANGED <<gateVars, serverVars, page, measured, workspaceError, options, saves>>

PutStep == Checked \/ Refused \/ SelectionWritten \/ ExecutorsWritten \/ SaveUnauthorized \/ Saved

-----------------------------------------------------------------------------
WorkspaceNext ==
    \/ ServerNext /\ UNCHANGED <<gateVars, pageVars>>
    \/ PollStep \/ PollFails
    \/ OpenPicker \/ ClosePicker
    \/ Options \/ OptionsFail \/ OptionsUnauthorized
    \/ \E r \in Repos : Toggle(r)
    \/ SaveRepos
    \/ \E name \in Executors : SaveExecutors(name)
    \/ PutStep \/ SaveFails

\* Requests are answered and timeouts fire, and clones are begun and end.
WorkspaceFairness ==
    /\ WF_<<gateVars, workspaceVars>>(PollStep)
    /\ WF_<<gateVars, workspaceVars>>(PutStep)
    /\ \A r \in Repos : WF_workspaceVars(CloneStep(r) /\ UNCHANGED pageVars)

\* Once the member has done with it, and the clones too, the page shows what the rows say, for good, or
\* it says that something failed: it does not stop asking before everything has settled, and no answer
\* that was read before a save is shown after it (useWorkspace.ts:77-139).  A checkout that was cloned
\* twice at once may fail after it was ready, and after the last poll: see CloneQueue's
\* OneClonePerCheckout.
PageCatchesUp == <>[](gate => page = Rows \/ workspaceError \/ failure \/ lapsed \/ twice)

\* A save deselects only what the member has unticked: the picker was opened with it ticked.  The code
\* does not keep this, which is why no run checks it: a page whose first poll failed is rendered all the
\* same, its picker opens with nothing ticked, and what it saves replaces a selection that nobody has
\* seen, which is what RepoPickerDialog.tsx:98-103 is there to prevent.  So does one that is opened
\* between a save and the poll after it.
NothingDroppedUnseen == [][selected \subseteq selected' \/ selected \ selected' \subseteq Selection(page)]_workspaceVars

\* Adding an executor keeps the others ("Add executor", ExecutorDialog.tsx:70).  The code does not: the
\* dialog sends what was added as the whole list, and the route replaces the list.
AddingKeepsTheOthers == [][user_executor \subseteq user_executor']_workspaceVars

\* The facts of a checkout that is ready are on the page in the end ("This list only changes when the
\* member acts", useWorkspace.ts:105).  The code does not keep this either: they are measured from the
\* first poll on that finds the clone ready, which is the last poll if it was the last clone.
FactsAreShown == <>[](gate => \/ \A r \in Selection(page) : user_repo[r] = "ready" => r \in measured
                              \/ workspaceError \/ failure \/ lapsed \/ twice)
=============================================================================
