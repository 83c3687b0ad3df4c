-------------------------- MODULE ApplicationUpdate -------------------------
(***************************************************************************)
(* The update of the program itself from its git checkout                  *)
(* (application-update-service.ts), next to the checks that the settings   *)
(* page asks for and to what the owner and the publisher do meanwhile.     *)
(*                                                                         *)
(* The revisions of the remote branch are the numbers 1, 2, ... in their   *)
(* order; the checkout is at one of them, plus `ahead' commits of its own. *)
(* Every git command is a step of its own, since the program waits for it. *)
(***************************************************************************)
EXTENDS Integers, FiniteSets

CONSTANTS
    MaxRevision,  \* bound: revisions published
    Buildable,    \* the revisions that install and build
    MaxMeddles    \* bound: what the owner and failures do to the checkout

ASSUME UpdateAssumption ==
    /\ MaxRevision \in Nat \ {0} /\ MaxMeddles \in Nat
    /\ Buildable \subseteq 1 .. MaxRevision

VARIABLES
    published,    \* the newest revision of the remote
    tracking,     \* what origin/main is here
    checkout,     \* the revision of HEAD, its commits on top, whether it is dirty
    looking,      \* a check asked for by the page: nothing, or at its fetch
    applying,     \* the flag of the service
    update,       \* the update under way
    worktrees,    \* the worktrees that exist
    merged,       \* the merges made: what was merged and what had been verified
    page,         \* what the settings page shows
    meddles       \* failures and interferences so far

updateVars == <<published, tracking, checkout, looking, applying, update, worktrees, merged, page, meddles>>

Revisions == 1 .. MaxRevision
UpdatePlaces == {"idle", "fetch", "read", "worktree", "verify", "recheck", "backup", "merge", "prove", "report"}
NoUpdate == [at |-> "idle", head |-> 0, target |-> 0, candidate |-> 0, fetched |-> FALSE]
Unsupported == [supported |-> FALSE, head |-> 0, target |-> 0]
NoPage == [pending |-> "none", approved |-> FALSE, behind |-> FALSE, restart |-> FALSE]

UpdateTypes ==
    /\ published \in Revisions /\ tracking \in Revisions
    /\ checkout \in [base : Revisions, ahead : 0 .. MaxMeddles, dirty : BOOLEAN]
    /\ looking \in {"none", "fetch", "read"}
    /\ applying \in BOOLEAN
    /\ update.at \in UpdatePlaces
    /\ {update.head, update.target, update.candidate} \subseteq 0 .. MaxRevision
    /\ worktrees \subseteq Revisions
    /\ page.pending \in {"none", "check", "apply"}
    /\ meddles \in 0 .. MaxMeddles

UpdateInit ==
    /\ published = 1 /\ tracking = 1
    /\ checkout = [base |-> 1, ahead |-> 0, dirty |-> FALSE]
    /\ looking = "none"
    /\ applying = FALSE
    /\ update = NoUpdate
    /\ worktrees = {}
    /\ merged = {}
    /\ page = NoPage
    /\ meddles = 0

-----------------------------------------------------------------------------
(***************************************************************************)
(* Checking                                                                *)
(***************************************************************************)

\* Uncommitted changes are refused before anything is fetched.
Clean == ~checkout.dirty

Fetch ==
    /\ tracking' = published
    /\ update' = [update EXCEPT !.fetched = @ \/ tracking # published]

\* What the check answers; commits of its own are not fast-forwarded.
Status ==
    IF checkout.ahead > 0 THEN Unsupported
    ELSE [supported |-> TRUE, head |-> checkout.base, target |-> tracking]

Behind(status) == status.supported /\ status.target > status.head

Look ==
    /\ page.pending = "none"
    /\ looking = "none"
    /\ page' = [NoPage EXCEPT !.pending = "check"]
    /\ looking' = "fetch"
    /\ UNCHANGED <<published, tracking, checkout, applying, update, worktrees, merged, meddles>>

\* Another window, or the command line, may ask at any time.
LookAside ==
    /\ looking = "none"
    /\ looking' = "fetch"
    /\ UNCHANGED <<published, tracking, checkout, applying, update, worktrees, merged, page, meddles>>

Shown(status) ==
    page' = IF page.pending = "check"
            THEN [page EXCEPT !.pending = "none", !.behind = Behind(status)] ELSE page

LookFetch ==
    /\ looking = "fetch"
    /\ IF Clean
       THEN Fetch /\ looking' = "read" /\ UNCHANGED page
       ELSE looking' = "none" /\ Shown(Unsupported) /\ UNCHANGED <<tracking, update>>
    /\ UNCHANGED <<published, checkout, applying, worktrees, merged, meddles>>

LookRead ==
    /\ looking = "read"
    /\ looking' = "none"
    /\ Shown(Status)
    /\ UNCHANGED <<published, tracking, checkout, applying, update, worktrees, merged, meddles>>

-----------------------------------------------------------------------------
(***************************************************************************)
(* Applying                                                                *)
(***************************************************************************)

asideVars == <<published, checkout, looking, meddles>>

\* The update has ended: the worktree is removed and the page answered; it
\* shows nothing of an update that failed.
Concluded(restart) ==
    /\ update' = NoUpdate
    /\ applying' = FALSE
    /\ page' = [page EXCEPT !.pending = "none", !.restart = restart,
                            !.behind = restart /\ Clean /\ Behind(Status)]
    /\ worktrees' = worktrees \ {update.candidate}

Approve ==
    /\ page.behind /\ page.pending = "none" /\ ~page.approved
    /\ page' = [page EXCEPT !.approved = TRUE]
    /\ UNCHANGED <<asideVars, tracking, applying, update, worktrees, merged>>

Apply ==
    /\ page.behind /\ page.approved /\ page.pending = "none"
    /\ ~applying
    /\ applying' = TRUE
    /\ update' = [NoUpdate EXCEPT !.at = "fetch"]
    /\ page' = [page EXCEPT !.pending = "apply", !.behind = FALSE, !.restart = FALSE]
    /\ UNCHANGED <<asideVars, tracking, worktrees, merged>>

ApplyFetch ==
    /\ update.at = "fetch"
    /\ IF Clean
       THEN /\ tracking' = published
            /\ update' = [update EXCEPT !.at = "read"]
            /\ UNCHANGED <<applying, page, worktrees>>
       ELSE Concluded(FALSE) /\ UNCHANGED tracking
    /\ UNCHANGED <<asideVars, merged>>

ApplyRead ==
    /\ update.at = "read"
    /\ IF Behind(Status)
       THEN /\ update' = [update EXCEPT !.at = "worktree", !.head = Status.head, !.target = Status.target]
            /\ UNCHANGED <<applying, page, worktrees>>
       ELSE Concluded(FALSE)
    /\ UNCHANGED <<asideVars, tracking, merged>>

\* The worktree is made from what origin/main is by then.
AddWorktree ==
    /\ update.at = "worktree"
    /\ update' = [update EXCEPT !.at = "verify", !.candidate = tracking]
    /\ worktrees' = worktrees \cup {tracking}
    /\ UNCHANGED <<asideVars, tracking, applying, page, merged>>

VerifyCandidate ==
    /\ update.at = "verify"
    /\ IF update.candidate \in Buildable
       THEN update' = [update EXCEPT !.at = "recheck"] /\ UNCHANGED <<applying, page, worktrees>>
       ELSE Concluded(FALSE)
    /\ UNCHANGED <<asideVars, tracking, merged>>

MutUnchanged(status) == status.supported /\ status.head = update.head
Unchanged(status) ==
    /\ status.supported
    /\ status.head = update.head
    /\ status.target = update.target

Recheck ==
    /\ update.at = "recheck"
    /\ IF Clean /\ Unchanged(Status)
       THEN /\ update' = [update EXCEPT !.at = "backup", !.fetched = FALSE]
            /\ UNCHANGED <<applying, page, worktrees>>
       ELSE Concluded(FALSE)
    /\ UNCHANGED <<asideVars, tracking, merged>>

\* The whole state root is copied: it takes a while.
BackUp ==
    /\ update.at = "backup"
    /\ update' = [update EXCEPT !.at = "merge"]
    /\ UNCHANGED <<asideVars, tracking, applying, page, worktrees, merged>>

\* A branch with commits of its own is not merged, unless there is nothing to
\* merge; uncommitted changes stop a merge that touches their files.
Merge ==
    /\ update.at = "merge"
    /\ \/ /\ checkout.ahead = 0
          /\ checkout' = [checkout EXCEPT !.base = tracking]
          /\ merged' = merged \cup {[of |-> tracking, verified |-> update.candidate,
                                     fetched |-> update.fetched]}
          /\ update' = [update EXCEPT !.at = "prove"]
          /\ UNCHANGED <<applying, page, worktrees>>
       \/ /\ checkout.ahead > 0 /\ tracking = checkout.base
          /\ update' = [update EXCEPT !.at = "prove"]
          /\ UNCHANGED <<applying, page, worktrees, checkout, merged>>
       \/ /\ checkout.dirty \/ (checkout.ahead > 0 /\ tracking # checkout.base)
          /\ Concluded(FALSE)
          /\ UNCHANGED <<checkout, merged>>
    /\ UNCHANGED <<published, looking, meddles, tracking>>

\* Nothing is taken back when the merged program does not build.
ProveInPlace ==
    /\ update.at = "prove"
    /\ IF checkout.base \in Buildable
       THEN update' = [update EXCEPT !.at = "report"] /\ UNCHANGED <<applying, page, worktrees>>
       ELSE Concluded(FALSE)
    /\ UNCHANGED <<asideVars, tracking, merged>>

Report ==
    /\ update.at = "report"
    /\ Concluded(TRUE)
    /\ UNCHANGED <<asideVars, tracking, merged>>

-----------------------------------------------------------------------------
(***************************************************************************)
(* What goes on meanwhile                                                  *)
(***************************************************************************)

Publish ==
    /\ published < MaxRevision
    /\ published' = published + 1
    /\ UNCHANGED <<tracking, checkout, looking, applying, update, worktrees, merged, page, meddles>>

\* The owner edits, commits, discards or pulls.
Meddle ==
    /\ meddles < MaxMeddles
    /\ meddles' = meddles + 1
    /\ \/ checkout' = [checkout EXCEPT !.dirty = ~@] /\ UNCHANGED <<tracking, update>>
       \/ checkout.dirty /\ checkout' = [checkout EXCEPT !.dirty = FALSE, !.ahead = @ + 1]
          /\ UNCHANGED <<tracking, update>>
       \/ /\ checkout.ahead = 0 /\ Clean
          /\ Fetch
          /\ checkout' = [checkout EXCEPT !.base = published]
    /\ UNCHANGED <<published, looking, applying, worktrees, merged, page>>

\* A command, the backup or the build fails.
BreakUpdate ==
    /\ update.at # "idle"
    /\ meddles < MaxMeddles
    /\ meddles' = meddles + 1
    /\ Concluded(FALSE)
    /\ UNCHANGED <<published, tracking, checkout, looking, merged>>

\* The process dies: the worktree stays.
DieUpdating ==
    /\ meddles < MaxMeddles
    /\ meddles' = meddles + 1
    /\ update' = NoUpdate
    /\ applying' = FALSE
    /\ looking' = "none"
    /\ page' = NoPage
    /\ UNCHANGED <<published, tracking, checkout, worktrees, merged>>

UpdateNext ==
    \/ Look \/ LookAside \/ LookFetch \/ LookRead
    \/ Approve \/ Apply \/ ApplyFetch \/ ApplyRead \/ AddWorktree \/ VerifyCandidate \/ Recheck
    \/ BackUp \/ Merge \/ ProveInPlace \/ Report
    \/ Publish \/ Meddle \/ BreakUpdate \/ DieUpdating

UpdateSpec == UpdateInit /\ [][UpdateNext]_updateVars

-----------------------------------------------------------------------------
(***************************************************************************)
(* Properties                                                              *)
(***************************************************************************)

\* What is merged into the checkout was built in the worktree, or is a later
\* revision of the branch that was fetched between the last look and the merge
\* (application-update-service.ts): never an earlier one, and never on top of
\* one that did not build, whatever was published, fetched or committed before.
VerifiedIsMerged ==
    \A m \in merged :
        /\ m.verified \in Buildable
        /\ m.verified <= m.of
        /\ m.of # m.verified => m.fetched

\* What is merged is what was built in the worktree: the README says that
\* every installation is built there first.
MergedWasVerified == \A m \in merged : m.of = m.verified
=============================================================================
