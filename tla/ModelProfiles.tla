--------------------------- MODULE ModelProfiles ---------------------------
(***************************************************************************)
(* The model connections of a workspace: their rows and assignments        *)
(* (sqlite-store.ts), the vault of their keys in memory, in the process's  *)
(* environment and on the disk (model-credential-service.ts), the routes   *)
(* that change both (model-routes.ts), the page that shows them (App.tsx)  *)
(* and the turns that ask them (server.ts, harness-adapter profile.ts).    *)
(*                                                                         *)
(* A row is written in one step; the vault is written by a file write and  *)
(* a rename, so a request that changes a key waits in the middle, and      *)
(* other requests, a failing disk or the death of the server come between. *)
(* Profiles are numbered in the order of their names.  The deletion of a   *)
(* row also deletes its assignments (a foreign key of the schema).         *)
(***************************************************************************)
EXTENDS Integers, FiniteSets

CONSTANTS
    Profiles,      \* the model connections, 1 .. n in the order of their names
    ApiKeys,       \* the keys an owner may type in
    Addresses,     \* where a model may be: "public" (https), "device" or "lan" (http)
    Assigned,      \* the scopes whose assignment the owner changes
    Requests,      \* the requests that may be under way together
    MaxRequests,   \* bound: requests and turns in all
    MaxTroubles    \* bound: failed writes and deaths of the server in all

NoKey == "no key"

ASSUME ModelsAssumption ==
    /\ Profiles = 1 .. Cardinality(Profiles)
    /\ Addresses \subseteq {"public", "device", "lan"}
    /\ Assigned \subseteq {"workspace", "world", "employee"}
    /\ NoKey \notin ApiKeys
    /\ MaxRequests \in Nat /\ MaxTroubles \in Nat

VARIABLES
    models,        \* the rows of model_profiles
    routes,        \* the rows of model_assignments
    vault,         \* the keys in memory
    active,        \* the keys in the environment of the process
    vaultFile,     \* the keys in the vault file, and the latest write that was there
    vaultWrites,   \* how many writes of the vault began
    outpaced,      \* the file's text is older than one that was there
    under,         \* the requests under way
    shown,         \* the rows and routes the page shows
    asks,          \* requests and turns so far
    commits,       \* changes of the rows and routes so far
    troubles,      \* failed writes and deaths so far
    broken,        \* the profiles whose key may be missing: see KeysStand
    astray,        \* the page was told out of order, or not at all
    turn           \* what came of the latest turn of a character

modelVars == <<models, routes, vault, active, vaultFile, vaultWrites, outpaced, under, shown, asks,
               commits, troubles, broken, astray, turn>>

NoProfile == 0
Scopes == {"workspace", "world", "employee"}
Credentials == {"managed", "named", "none"}

Absent == [key |-> "absent", first |-> FALSE, at |-> "public"]
ModelRow == [key : Credentials \cup {"absent"}, first : BOOLEAN, at : {"public", "device", "lan"}]
Listing == [rows : [Profiles -> ModelRow], routes : [Scopes -> Profiles \cup {NoProfile}]]
KeyStores == [Profiles -> ApiKeys \cup {NoKey}]

\* A request: where it is, what it carries, the write of the vault it waits
\* for (keys, by), and which change of the rows its answer tells (nth).
NoRequest == [at |-> "free", of |-> NoProfile, key |-> NoKey, had |-> NoKey, row |-> Absent,
              scope |-> "none", keys |-> [p \in Profiles |-> NoKey], by |-> 0, nth |-> 0,
              lists |-> [rows |-> [p \in Profiles |-> Absent],
                         routes |-> [s \in Scopes |-> NoProfile]]]
ModelTypes ==
    /\ models \in [Profiles -> ModelRow]
    /\ routes \in [Scopes -> Profiles \cup {NoProfile}]
    /\ vault \in KeyStores
    /\ active \in KeyStores
    /\ vaultFile \in [keys : KeyStores, by : Nat]
    /\ vaultWrites \in Nat
    /\ outpaced \in BOOLEAN
    /\ \A r \in Requests : under[r].at \in
          {"free", "setting", "restoring", "undoing", "dropping", "closing", "deleting",
           "saved", "deleted", "routed"}
    /\ commits \in Nat
    /\ shown \in Listing
    /\ asks \in 0 .. MaxRequests
    /\ troubles \in 0 .. MaxTroubles
    /\ broken \subseteq Profiles
    /\ astray \in BOOLEAN
    /\ turn \in {"none", "asked", "refused"}

ModelsInit ==
    /\ models = [p \in Profiles |-> Absent]
    /\ routes = [s \in Scopes |-> NoProfile]
    /\ vault = [p \in Profiles |-> NoKey]
    /\ active = [p \in Profiles |-> NoKey]
    /\ vaultFile = [keys |-> [p \in Profiles |-> NoKey], by |-> 0]
    /\ vaultWrites = 0
    /\ outpaced = FALSE
    /\ under = [r \in Requests |-> NoRequest]
    /\ shown = NoRequest.lists
    /\ asks = 0
    /\ commits = 0
    /\ troubles = 0
    /\ broken = {}
    /\ astray = FALSE
    /\ turn = "none"

-----------------------------------------------------------------------------
(***************************************************************************)
(* The store                                                               *)
(***************************************************************************)

Present(rows) == {p \in Profiles : rows[p].key # "absent"}
LeastOf(S) == CHOOSE p \in S : \A q \in S : p <= q

\* A row saved as the default takes the mark from all the others.
MutSaveModelProfile(rows, p, row) == [rows EXCEPT ![p] = row]
SaveModelProfile(rows, p, row) ==
    [q \in Profiles |-> IF q = p THEN row
                        ELSE [rows[q] EXCEPT !.first = @ /\ ~row.first]]

\* When the default goes, the first of the others by name becomes it.
DeleteModelProfile(rows, p) ==
    LET rest == Present(rows) \ {p}
    IN [q \in Profiles |->
          IF q = p THEN Absent
          ELSE [rows[q] EXCEPT !.first = @ \/ (rows[p].first /\ rest # {} /\ q = LeastOf(rest))]]

Unrouted(was, p) == [s \in Scopes |-> IF was[s] = p THEN NoProfile ELSE was[s]]

\* The most particular assignment, else the default, else the first listed.
ResolveModelProfile ==
    LET routed == IF routes["employee"] # NoProfile THEN routes["employee"]
                  ELSE IF routes["world"] # NoProfile THEN routes["world"]
                  ELSE routes["workspace"]
        default == {p \in Profiles : models[p].first}
    IN IF routed # NoProfile THEN routed
       ELSE IF default # {} THEN LeastOf(default)
       ELSE IF Present(models) # {} THEN LeastOf(Present(models)) ELSE NoProfile

-----------------------------------------------------------------------------
(***************************************************************************)
(* The vault                                                               *)
(***************************************************************************)

\* A write of the vault begins: its text is what the memory holds now.
Persisting(r, job, keys) ==
    /\ vault' = keys
    /\ vaultWrites' = vaultWrites + 1
    /\ under' = [under EXCEPT ![r] = [job EXCEPT !.keys = keys, !.by = vaultWrites + 1]]

\* Deleting a key: at once in the environment; then, if the vault has it, in
\* the memory and in the file, which the request waits for.
Forget(r, p, job) ==
    /\ active' = [active EXCEPT ![p] = NoKey]
    /\ IF vault[p] = NoKey
       THEN under' = [under EXCEPT ![r] = job] /\ UNCHANGED <<vault, vaultWrites>>
       ELSE Persisting(r, job, [vault EXCEPT ![p] = NoKey])

Waiting(r) == under[r].by # 0

\* The file is renamed into its place, whatever was renamed there before.
Rename(r) ==
    /\ Waiting(r)
    /\ vaultFile' = [keys |-> under[r].keys,
                      by |-> IF under[r].by < vaultFile.by THEN vaultFile.by ELSE under[r].by]
    /\ outpaced' = (under[r].by < vaultFile.by)
    /\ under' = [under EXCEPT ![r].by = 0, ![r].keys = NoRequest.keys]
    /\ UNCHANGED <<models, routes, vault, active, vaultWrites, shown, asks, commits, troubles,
                   broken, astray, turn>>

\* The write fails: the memory keeps what it was given and the request ends.
\* A key dropped for a deletion that does not happen leaves a row without it,
\* and a row saved by a request that fails is not told to the page.
RenameFails(r) ==
    /\ Waiting(r)
    /\ troubles < MaxTroubles
    /\ troubles' = troubles + 1
    /\ under' = [under EXCEPT ![r] = NoRequest]
    /\ broken' = IF under[r].at = "dropping" THEN broken \cup {under[r].of} ELSE broken
    /\ astray' = (astray \/ under[r].at = "closing")
    /\ UNCHANGED <<outpaced, models, routes, vault, active, vaultFile, vaultWrites, shown, asks, commits, turn>>

-----------------------------------------------------------------------------
(***************************************************************************)
(* The routes                                                              *)
(***************************************************************************)

Changing(p) == \E r \in Requests :
    under[r].at \in {"setting", "restoring", "undoing", "dropping", "closing"} /\ under[r].of = p

Dropped == {p \in Profiles : \E r \in Requests : under[r].at = "dropping" /\ under[r].of = p}

Begin(r) ==
    /\ under[r].at = "free"
    /\ asks < MaxRequests
    /\ asks' = asks + 1

\* Two requests about one profile at a time may leave its row without a key.
Crossed(p) == broken' = IF Changing(p) THEN broken \cup {p} ELSE broken

Row(key, first, at) == [key |-> key, first |-> first, at |-> at]
At(at, p, row) == [NoRequest EXCEPT !.at = at, !.of = p, !.row = row]

\* POST with a key: the key is set first, the row is saved once it is kept.
SaveWithKey(r, p, k, first, at) ==
    /\ Begin(r)
    /\ Crossed(p)
    /\ LET had == IF models[p].key = "managed" /\ vault[p] # NoKey THEN active[p] ELSE NoKey
       IN Persisting(r, [At("setting", p, Row("managed", first, at)) EXCEPT !.key = k, !.had = had],
                     [vault EXCEPT ![p] = k])
    /\ UNCHANGED <<outpaced, models, routes, active, vaultFile, shown, commits, troubles, astray, turn>>

\* POST without a key: the row is saved at once, with the credential it had
\* ("kept"), the name of a variable or none; in the last two cases the key
\* of the profile is deleted afterwards.
SaveWithoutKey(r, p, credential, first, at) ==
    /\ Begin(r)
    /\ Crossed(p)
    /\ LET key == IF credential # "kept" THEN credential
                  ELSE IF models[p].key = "absent" THEN "none" ELSE models[p].key
           row == Row(key, first, at)
       IN /\ models' = SaveModelProfile(models, p, row)
          /\ IF credential = "kept"
             THEN /\ under' = [under EXCEPT ![r] = [At("saved", p, row) EXCEPT !.nth = commits + 1]]
                  /\ UNCHANGED <<vault, active, vaultWrites>>
             ELSE Forget(r, p, [At("closing", p, row) EXCEPT !.nth = commits + 1])
    /\ commits' = commits + 1
    /\ UNCHANGED <<outpaced, routes, vaultFile, shown, troubles, astray, turn>>

\* DELETE: the key first, then the row.
DeleteProfile(r, p) ==
    /\ models[p].key # "absent"
    /\ Begin(r)
    /\ Crossed(p)
    /\ Forget(r, p, At("dropping", p, Absent))
    /\ UNCHANGED <<outpaced, models, routes, vaultFile, shown, commits, troubles, astray, turn>>

\* PUT of an assignment, and its DELETE when p is NoProfile.
Assign(r, s, p) ==
    /\ p # NoProfile => models[p].key # "absent"
    /\ Begin(r)
    /\ routes' = [routes EXCEPT ![s] = p]
    /\ commits' = commits + 1
    /\ under' = [under EXCEPT ![r] = [At("routed", p, Absent) EXCEPT !.scope = s, !.nth = commits + 1]]
    /\ UNCHANGED <<outpaced, models, vault, active, vaultFile, vaultWrites, shown, troubles, broken, astray, turn>>

Kept(r, at) == under[r].at = at /\ ~Waiting(r)

\* The key is on the disk: it becomes active and the row is saved.
SaveKeyed(r) ==
    /\ Kept(r, "setting")
    /\ active' = [active EXCEPT ![under[r].of] = under[r].key]
    /\ models' = SaveModelProfile(models, under[r].of, under[r].row)
    /\ commits' = commits + 1
    /\ under' = [under EXCEPT ![r] = [At("saved", @.of, @.row) EXCEPT !.nth = commits + 1]]
    /\ UNCHANGED <<outpaced, routes, vault, vaultFile, vaultWrites, shown, asks, troubles, broken, astray, turn>>

\* The row is refused: the key that was there before comes back, if there
\* was one, else the new one goes.
MutEarlierKey(r) == NoKey
EarlierKey(r) == under[r].had
RefuseKeyed(r) ==
    /\ Kept(r, "setting")
    /\ LET p == under[r].of
       IN IF EarlierKey(r) # NoKey
          THEN /\ active' = [active EXCEPT ![p] = under[r].key]
               /\ Persisting(r, [At("restoring", p, Absent) EXCEPT !.key = EarlierKey(r)],
                             [vault EXCEPT ![p] = EarlierKey(r)])
          ELSE Forget(r, p, At("undoing", p, Absent))
    /\ UNCHANGED <<outpaced, models, routes, vaultFile, shown, asks, commits, troubles, broken, astray, turn>>

EndRefused(r) ==
    /\ \/ /\ Kept(r, "restoring")
          /\ active' = [active EXCEPT ![under[r].of] = under[r].key]
       \/ Kept(r, "undoing") /\ UNCHANGED active
    /\ under' = [under EXCEPT ![r] = NoRequest]
    /\ UNCHANGED <<outpaced, models, routes, vault, vaultFile, vaultWrites, shown, asks, commits, troubles,
                   broken, astray, turn>>

EndSaved(r) ==
    /\ Kept(r, "closing")
    /\ under' = [under EXCEPT ![r].at = "saved"]
    /\ UNCHANGED <<outpaced, models, routes, vault, active, vaultFile, vaultWrites, shown, asks, commits, troubles,
                   broken, astray, turn>>

\* The row goes; if another request deleted it meanwhile the answer is an error.
DeleteRow(r) ==
    /\ Kept(r, "dropping")
    /\ LET p == under[r].of
       IN IF models[p].key = "absent"
          THEN under' = [under EXCEPT ![r] = NoRequest] /\ UNCHANGED <<models, routes, commits>>
          ELSE /\ models' = DeleteModelProfile(models, p)
               /\ routes' = Unrouted(routes, p)
               /\ commits' = commits + 1
               /\ under' = [under EXCEPT ![r] = [At("deleted", p, Absent) EXCEPT
                     !.nth = commits + 1, !.lists = [rows |-> models', routes |-> routes']]]
    /\ UNCHANGED <<outpaced, vault, active, vaultFile, vaultWrites, shown, asks, troubles, broken, astray, turn>>

-----------------------------------------------------------------------------
(***************************************************************************)
(* The page                                                                *)
(***************************************************************************)

\* What the page makes of the row that was saved.
MutWithSaved(rows, p, row) == [rows EXCEPT ![p] = row]
WithSaved(rows, p, row) ==
    [q \in Profiles |-> IF q = p THEN row
                        ELSE [rows[q] EXCEPT !.first = IF row.first THEN FALSE ELSE @]]

Late(r) == \E q \in Requests \ {r} : under[q].nth # 0 /\ under[q].nth < under[r].nth

ShowSaved(r) ==
    /\ under[r].at \in {"saved", "deleted", "routed"}
    /\ shown' = CASE under[r].at = "saved" ->
                       [shown EXCEPT !.rows = WithSaved(@, under[r].of, under[r].row)]
                  [] under[r].at = "deleted" -> under[r].lists
                  [] under[r].at = "routed" ->
                       [shown EXCEPT !.routes[under[r].scope] = under[r].of]
    /\ astray' = (astray \/ Late(r))
    /\ under' = [under EXCEPT ![r] = NoRequest]
    /\ UNCHANGED <<outpaced, models, routes, vault, active, vaultFile, vaultWrites, asks, commits, troubles, broken, turn>>

\* The page is opened anew.
ReloadModels ==
    /\ astray
    /\ \A r \in Requests : under[r] = NoRequest
    /\ shown' = [rows |-> models, routes |-> routes]
    /\ astray' = FALSE
    /\ UNCHANGED <<models, routes, vault, active, vaultFile, vaultWrites, outpaced, under, asks, commits, troubles,
                   broken, turn>>

-----------------------------------------------------------------------------
(***************************************************************************)
(* The turns, and the death of the server                                  *)
(***************************************************************************)

\* Which addresses the route of the profiles takes ...
ValidAddress(at) == at \in {"public", "device", "lan"}

\* ... and which the profile of a worker takes.
MayAsk(at) == at \in {"public", "device"}

\* A character's turn: a worker is prepared for the model resolved, or for
\* the program's own when there is none.
Ask ==
    /\ asks < MaxRequests
    /\ asks' = asks + 1
    /\ turn' = IF ResolveModelProfile = NoProfile \/ MayAsk(models[ResolveModelProfile].at)
               THEN "asked" ELSE "refused"
    /\ UNCHANGED <<models, routes, vault, active, vaultFile, vaultWrites, outpaced, under, shown, commits,
                   troubles, broken, astray>>

\* The next process reads the file.  What the requests had not done stays
\* undone, and an older text renamed over a newer one is all there is.
DieWithKeys ==
    /\ troubles < MaxTroubles
    /\ troubles' = troubles + 1
    /\ vault' = vaultFile.keys
    /\ active' = vaultFile.keys
    /\ vaultFile' = [vaultFile EXCEPT !.by = 0]
    /\ vaultWrites' = 0
    /\ outpaced' = FALSE
    /\ under' = [r \in Requests |-> NoRequest]
    /\ broken' = broken \cup Dropped \cup (IF outpaced THEN Profiles ELSE {})
    /\ astray' = (astray \/ \E r \in Requests : under[r].nth # 0)
    /\ UNCHANGED <<models, routes, shown, asks, commits, turn>>

ModelsNext ==
    \/ \E r \in Requests, p \in Profiles, first \in BOOLEAN, at \in Addresses :
          /\ ValidAddress(at)
          /\ \/ \E k \in ApiKeys : SaveWithKey(r, p, k, first, at)
             \/ \E credential \in {"kept", "named", "none"} : SaveWithoutKey(r, p, credential, first, at)
    \/ \E r \in Requests, p \in Profiles : DeleteProfile(r, p)
    \/ \E r \in Requests, s \in Assigned, p \in Profiles \cup {NoProfile} : Assign(r, s, p)
    \/ \E r \in Requests :
          \/ Rename(r) \/ RenameFails(r) \/ SaveKeyed(r) \/ RefuseKeyed(r) \/ EndRefused(r)
          \/ EndSaved(r) \/ DeleteRow(r) \/ ShowSaved(r)
    \/ ReloadModels \/ Ask \/ DieWithKeys

ModelsSpec == ModelsInit /\ [][ModelsNext]_modelVars

-----------------------------------------------------------------------------
(***************************************************************************)
(* Properties                                                              *)
(***************************************************************************)

\* A row that refers to a key of the vault has one, whatever requests about
\* other profiles, refused rows, failed writes and restarts come between.
\* The exceptions are those the code has: a deletion, whose key goes first,
\* under way or (broken) ended there; two requests about one profile
\* together; and a restart after an older text of the vault was renamed
\* over a newer one.
KeysStand ==
    \A p \in Profiles \ (broken \cup Dropped) :
        models[p].key = "managed" => vault[p] # NoKey /\ active[p] # NoKey

\* A page that was told everything in its order shows the rows and routes as
\* they are: what it does to its list when a row is saved is what the store
\* did to the others.
PageAgrees ==
    (~astray /\ \A r \in Requests : under[r].nth = 0)
        => shown = [rows |-> models, routes |-> routes]

\* "Connect a cloud service, a model of this device or of the local network"
\* (SettingsDialog.tsx): a connection the route took can be asked.
TakenCanBeAsked == turn # "refused"

=============================================================================
