-------------------------- MODULE DeskRecordsProofs --------------------------
(***************************************************************************)
(* Theorems about what the owner's pages edit and show besides the         *)
(* conversations, for all values of the constants: model profiles,         *)
(* integrations, the trace panel, world settings and attachments.          *)
(***************************************************************************)
EXTENDS ModelProfiles, Integrations, WorldTrace, WorldSettings, Attachments,
        FiniteSetTheorems, WellFoundedInduction, TLAPS

-----------------------------------------------------------------------------
(* The model profiles *)

KeyOrNone      == ApiKeys \cup {NoKey}
ChangingPlaces == {"setting", "restoring", "undoing", "dropping", "closing"}
ToldPlaces     == {"saved", "closing", "deleted", "routed"}
ModelJobs ==
  [at : {"free", "deleting", "saved", "deleted", "routed"} \cup ChangingPlaces,
   of : Profiles \cup {NoProfile}, key : KeyOrNone, had : KeyOrNone, row : ModelRow,
   scope : Scopes \cup {"none"}, keys : KeyStores, by : Nat, nth : Nat, lists : Listing]

ModelRowsTyped ==
  /\ models \in [Profiles -> ModelRow]
  /\ routes \in [Scopes -> Profiles \cup {NoProfile}]
  /\ vault \in KeyStores /\ active \in KeyStores
  /\ vaultFile \in [keys : KeyStores, by : Nat] /\ vaultWrites \in Nat /\ outpaced \in BOOLEAN
  /\ under \in [Requests -> ModelJobs]
  /\ shown \in Listing /\ commits \in Nat
  /\ asks \in 0 .. MaxRequests /\ troubles \in 0 .. MaxTroubles
  /\ broken \subseteq Profiles /\ astray \in BOOLEAN /\ turn \in {"none", "asked", "refused"}

\* What a request is about, and which writes are under way
JobsAreOrdered ==
  /\ \A r \in Requests :
       /\ under[r].at \in ChangingPlaces => under[r].of \in Profiles
       /\ under[r].at \in {"setting", "restoring"} => under[r].key \in ApiKeys
       /\ under[r].at \notin ChangingPlaces => under[r].by = 0
       /\ under[r].by <= vaultWrites
       /\ under[r].nth # 0 <=> under[r].at \in ToldPlaces
  /\ vaultFile.by <= vaultWrites
  /\ \A q, r \in Requests : under[q].by = under[r].by /\ under[r].by # 0 => q = r

Changes(r, p) == under[r].at \in ChangingPlaces /\ under[r].of = p

\* One request at a time is about a profile whose key is not given up.
OneChange ==
  \A p \in Profiles \ broken : \A q, r \in Requests : Changes(q, p) /\ Changes(r, p) => q = r

\* Every text of the vault from this write on, on its way or in the file, has a
\* key of the profile.
HasSince(jobs, held, prior, p, n) ==
  /\ \A w \in Requests : jobs[w].by # 0 /\ n <= jobs[w].by => jobs[w].keys[p] # NoKey
  /\ n <= held.by /\ ~prior => held.keys[p] # NoKey

Managed(p) == models[p].key = "managed"

\* What a request that changes the key of a profile may rely on
ChangesStand ==
  \A p \in Profiles \ broken : \A r \in Requests : Changes(r, p) =>
    /\ under[r].at = "setting" =>
         /\ vault[p] # NoKey
         /\ Managed(p) => under[r].had # NoKey
         /\ under[r].by # 0 => HasSince(under, vaultFile, outpaced, p, under[r].by)
         /\ under[r].by = 0 => HasSince(under, vaultFile, outpaced, p, vaultFile.by)
    /\ under[r].at \in {"undoing", "closing"} => ~Managed(p)

FileHasKeys == \A p \in Profiles \ (broken \cup Dropped) : Managed(p) => HasSince(under, vaultFile, outpaced, p, vaultFile.by)

\* What the page makes of the answer to a request
Answered(job, list) ==
  CASE job.at \in {"saved", "closing"} -> [list EXCEPT !.rows = WithSaved(@, job.of, job.row)]
    [] job.at = "deleted" -> job.lists
    [] job.at = "routed"  -> [list EXCEPT !.routes[job.scope] = job.of]

\* Unless it has gone astray the page is some changes behind: the answers on
\* their way lead from one listing to the next, and the last is the store's.
PageFollows ==
  ~astray => \E n \in 0 .. commits, past \in [Nat -> Listing] :
    /\ past[n] = shown
    /\ past[commits] = [rows |-> models, routes |-> routes]
    /\ \A m \in n + 1 .. commits :
         \E r \in Requests : under[r].nth = m /\ past[m] = Answered(under[r], past[m - 1])
    /\ \A r \in Requests : under[r].nth # 0 => under[r].nth \in n + 1 .. commits
    /\ \A q, r \in Requests : under[q].nth = under[r].nth /\ under[r].nth # 0 => q = r

KeysInv == ModelRowsTyped /\ JobsAreOrdered /\ OneChange /\ ChangesStand /\ KeysStand /\ FileHasKeys

LEMMA KeyBounds ==
  /\ NoKey \notin ApiKeys /\ ApiKeys \subseteq KeyOrNone /\ NoKey \in KeyOrNone
  /\ 0 \in 0 .. MaxRequests /\ 0 \in 0 .. MaxTroubles
  /\ NoProfile \in Profiles \cup {NoProfile}
  BY ModelsAssumption DEF KeyOrNone

LEMMA EmptyJob ==
  /\ NoRequest \in ModelJobs
  /\ NoRequest.at = "free" /\ NoRequest.by = 0 /\ NoRequest.nth = 0
  /\ [p \in Profiles |-> NoKey] \in KeyStores /\ NoRequest.lists \in Listing
  /\ Absent \in ModelRow
<1>1. /\ [p \in Profiles |-> NoKey] \in KeyStores /\ Absent \in ModelRow
  BY DEF KeyStores, Absent, ModelRow, Credentials
<1>2. [rows |-> [p \in Profiles |-> Absent], routes |-> [s \in Scopes |-> NoProfile]] \in Listing
  BY <1>1 DEF Listing
<1> QED
  BY <1>1, <1>2 DEF NoRequest, ModelJobs, KeyOrNone

LEMMA KeysStart == ModelsInit => KeysInv /\ PageFollows
<1> SUFFICES ASSUME ModelsInit PROVE KeysInv /\ PageFollows
  OBVIOUS
<1>1. \A r \in Requests : under[r] = NoRequest
  BY DEF ModelsInit
<1>2. ModelRowsTyped
  BY EmptyJob, KeyBounds DEF ModelsInit, ModelRowsTyped
<1>3. JobsAreOrdered
  BY <1>1, EmptyJob DEF ModelsInit, JobsAreOrdered, ChangingPlaces, ToldPlaces
<1>4. \A r \in Requests, p \in Profiles : ~Changes(r, p)
  BY <1>1, EmptyJob DEF Changes, ChangingPlaces
<1>5. OneChange /\ ChangesStand
  BY <1>4 DEF OneChange, ChangesStand
<1>6. \A p \in Profiles : ~Managed(p)
  BY DEF ModelsInit, Managed, Absent
<1>7. KeysStand /\ FileHasKeys
  BY <1>6 DEF KeysStand, FileHasKeys, Managed
<1>8. PageFollows
  <2> DEFINE past == [n \in Nat |-> shown]
  <2>1. past \in [Nat -> Listing] /\ past[0] = shown
    BY <1>2 DEF ModelRowsTyped
  <2>2. shown = [rows |-> models, routes |-> routes] /\ commits = 0
    BY DEF ModelsInit, NoRequest
  <2>3. \A r \in Requests : under[r].nth = 0
    BY <1>1, EmptyJob
  <2> HIDE DEF past
  <2> QED
    BY <2>1, <2>2, <2>3 DEF PageFollows
<1> QED
  BY <1>2, <1>3, <1>5, <1>7, <1>8 DEF KeysInv

\* The order of the requests, when one of them moves
LEMMA JobsMove ==
  ASSUME KeysInv, NEW r \in Requests, under' \in [Requests -> ModelJobs],
         \A q \in Requests \ {r} : under'[q] = under[q],
         vaultWrites' \in Nat, vaultWrites <= vaultWrites', vaultFile'.by <= vaultWrites',
         under'[r].at \in ChangingPlaces => under'[r].of \in Profiles,
         under'[r].at \in {"setting", "restoring"} => under'[r].key \in ApiKeys,
         under'[r].at \notin ChangingPlaces => under'[r].by = 0,
         \/ under'[r].by \in {0, under[r].by}
         \/ under'[r].by = vaultWrites + 1 /\ vaultWrites' = vaultWrites + 1,
         under'[r].nth # 0 <=> under'[r].at \in ToldPlaces
  PROVE  JobsAreOrdered'
<1>t. /\ under \in [Requests -> ModelJobs] /\ vaultWrites \in Nat /\ JobsAreOrdered
      /\ \A q \in Requests : under[q].by \in Nat
  <2>1. under \in [Requests -> ModelJobs] /\ vaultWrites \in Nat /\ JobsAreOrdered
    BY DEF KeysInv, ModelRowsTyped
  <2> QED
    BY <2>1 DEF ModelJobs
<1>1. \A q \in Requests : under[q].by <= vaultWrites
  BY <1>t DEF JobsAreOrdered
<1>2. \A q \in Requests : under'[q].by \in Nat /\ under'[q].by <= vaultWrites'
  BY <1>1, <1>t
<1>3. \A p, q \in Requests : under'[p].by = under'[q].by /\ under'[q].by # 0 => p = q
  BY <1>1, <1>t DEF JobsAreOrdered
<1>4. \A q \in Requests :
        /\ under'[q].at \in ChangingPlaces => under'[q].of \in Profiles
        /\ under'[q].at \in {"setting", "restoring"} => under'[q].key \in ApiKeys
        /\ under'[q].at \notin ChangingPlaces => under'[q].by = 0
        /\ under'[q].nth # 0 <=> under'[q].at \in ToldPlaces
  BY <1>t DEF JobsAreOrdered
<1> QED
  BY <1>2, <1>3, <1>4 DEF JobsAreOrdered

\* The keys, when one request moves and what it touches is of its own profile
LEMMA KeysMove ==
  ASSUME KeysInv, NEW r \in Requests, ModelRowsTyped', JobsAreOrdered',
         \A q \in Requests \ {r} : under'[q] = under[q],
         UNCHANGED <<vaultFile, outpaced>>, broken \subseteq broken',
         \A p \in Profiles \ broken' :
           Changes(r, p)' => Changes(r, p) \/ \A q \in Requests : ~Changes(q, p),
         \/ under'[r].by = 0
         \/ under'[r].by = under[r].by /\ under'[r].keys = under[r].keys
         \/ under'[r].keys = vault',
         \A p \in Profiles \ broken' : ~Changes(r, p) /\ ~Changes(r, p)' =>
           vault'[p] = vault[p] /\ active'[p] = active[p] /\ (Managed(p)' => Managed(p)),
         \A p \in Profiles \ broken' : Changes(r, p)' =>
           /\ under'[r].at = "setting" =>
                /\ vault'[p] # NoKey
                /\ Managed(p)' => under'[r].had # NoKey
                /\ under'[r].by # 0 => HasSince(under', vaultFile', outpaced', p, under'[r].by)
                /\ under'[r].by = 0 => HasSince(under', vaultFile', outpaced', p, vaultFile'.by)
           /\ under'[r].at \in {"undoing", "closing"} => ~Managed(p)',
         \A p \in Profiles \ (broken' \cup Dropped') :
           (Changes(r, p) \/ Changes(r, p)') /\ Managed(p)' =>
             vault'[p] # NoKey /\ active'[p] # NoKey /\ HasSince(under', vaultFile', outpaced', p, vaultFile'.by)
  PROVE  KeysInv'
<1>t. /\ under \in [Requests -> ModelJobs] /\ under' \in [Requests -> ModelJobs]
      /\ vault' \in KeyStores /\ models \in [Profiles -> ModelRow]
      /\ OneChange /\ ChangesStand /\ KeysStand /\ FileHasKeys /\ JobsAreOrdered
  BY DEF KeysInv, ModelRowsTyped
<1>1. OneChange'
  <2> SUFFICES ASSUME NEW p \in Profiles, p \notin broken', NEW q \in Requests, NEW s \in Requests,
                      Changes(q, p)', Changes(s, p)'
               PROVE  q = s
    BY DEF OneChange
  <2>1. \A u \in Requests \ {r} : Changes(u, p)' => Changes(u, p)
    BY DEF Changes
  <2> QED
    BY <1>t, <2>1 DEF OneChange
\* The texts keep a key that the vault has.
<1>2. ASSUME NEW p \in Profiles, vault'[p] # NoKey, NEW n, HasSince(under, vaultFile, outpaced, p, n)
      PROVE  HasSince(under', vaultFile', outpaced', p, n)
  <2>1. \A w \in Requests \ {r} : under'[w] = under[w]
    OBVIOUS
  <2>2. n <= under'[r].by /\ under'[r].by # 0 => under'[r].keys[p] # NoKey
    BY <1>2 DEF HasSince
  <2> QED
    BY <1>2, <2>1, <2>2 DEF HasSince
<1>3. ChangesStand'
  <2> SUFFICES ASSUME NEW p \in Profiles, p \notin broken', NEW q \in Requests, Changes(q, p)'
               PROVE  /\ under'[q].at = "setting" =>
                           /\ vault'[p] # NoKey
                           /\ Managed(p)' => under'[q].had # NoKey
                           /\ under'[q].by # 0 => HasSince(under', vaultFile', outpaced', p, under'[q].by)
                           /\ under'[q].by = 0 => HasSince(under', vaultFile', outpaced', p, vaultFile'.by)
                      /\ under'[q].at \in {"undoing", "closing"} => ~Managed(p)'
    BY DEF ChangesStand, HasSince
  <2>1. CASE q = r
    BY <2>1
  <2>2. CASE q # r
    <3>1. Changes(q, p) /\ under'[q] = under[q]
      BY <2>2 DEF Changes
    <3>2. ~Changes(r, p) /\ ~Changes(r, p)'
      BY <1>1, <1>t, <2>2, <3>1 DEF OneChange
    <3>3. vault'[p] = vault[p] /\ (Managed(p)' => Managed(p))
      BY <3>2
    <3>4. /\ under[q].at = "setting" =>
               /\ vault[p] # NoKey
               /\ Managed(p) => under[q].had # NoKey
               /\ under[q].by # 0 => HasSince(under, vaultFile, outpaced, p, under[q].by)
               /\ under[q].by = 0 => HasSince(under, vaultFile, outpaced, p, vaultFile.by)
          /\ under[q].at \in {"undoing", "closing"} => ~Managed(p)
      BY <1>t, <3>1 DEF ChangesStand
    <3>6. ASSUME under[q].at = "setting", under[q].by # 0
          PROVE  HasSince(under', vaultFile', outpaced', p, under'[q].by)
      BY <1>2, <3>1, <3>3, <3>4, <3>6
    <3>7. ASSUME under[q].at = "setting", under[q].by = 0
          PROVE  HasSince(under', vaultFile', outpaced', p, vaultFile'.by)
      BY <1>2, <3>1, <3>3, <3>4, <3>7
    <3> QED
      BY <3>1, <3>3, <3>4, <3>6, <3>7
  <2> QED
    BY <2>1, <2>2
<1>4. ASSUME NEW p \in Profiles, p \notin broken' \cup Dropped', Managed(p)'
      PROVE  vault'[p] # NoKey /\ active'[p] # NoKey /\ HasSince(under', vaultFile', outpaced', p, vaultFile'.by)
  <2>1. CASE Changes(r, p) \/ Changes(r, p)'
    BY <1>4, <2>1
  <2>2. CASE ~Changes(r, p) /\ ~Changes(r, p)'
    <3>1. vault'[p] = vault[p] /\ active'[p] = active[p] /\ (Managed(p)' => Managed(p))
      BY <1>4, <2>2
    <3>2. p \notin Dropped
      BY <1>4, <2>2 DEF Dropped, Changes, ChangingPlaces
    <3>3. Managed(p) /\ vault[p] # NoKey /\ active[p] # NoKey /\ HasSince(under, vaultFile, outpaced, p, vaultFile.by)
      BY <1>4, <1>t, <3>1, <3>2 DEF KeysStand, FileHasKeys, Managed
    <3> QED
      BY <1>2, <3>1, <3>3
  <2> QED
    BY <2>1, <2>2
<1>5. KeysStand' /\ FileHasKeys'
  BY <1>4 DEF KeysStand, FileHasKeys, Managed, HasSince
<1> QED
  BY <1>1, <1>3, <1>5 DEF KeysInv

-----------------------------------------------------------------------------
LEMMA TextsKeep ==
  ASSUME NEW r \in Requests, \A q \in Requests \ {r} : under'[q] = under[q],
         UNCHANGED <<vaultFile, outpaced>>, NEW p \in Profiles,
         \/ under'[r].by = 0
         \/ under'[r].by = under[r].by /\ under'[r].keys = under[r].keys
         \/ under'[r].keys = vault' /\ vault'[p] # NoKey,
         NEW n, HasSince(under, vaultFile, outpaced, p, n)
  PROVE  HasSince(under', vaultFile', outpaced', p, n)
<1>1. \A w \in Requests \ {r} : under'[w] = under[w]
  OBVIOUS
<1>2. n <= under'[r].by /\ under'[r].by # 0 => under'[r].keys[p] # NoKey
  BY DEF HasSince
<1> QED
  BY <1>1, <1>2 DEF HasSince

LEMMA PlainJob ==
  ASSUME NEW at \in {"free", "deleting", "saved", "deleted", "routed"} \cup ChangingPlaces,
         NEW p \in Profiles \cup {NoProfile}, NEW row \in ModelRow
  PROVE  /\ At(at, p, row) \in ModelJobs
         /\ At(at, p, row).at = at /\ At(at, p, row).of = p /\ At(at, p, row).row = row
         /\ At(at, p, row).by = 0 /\ At(at, p, row).nth = 0 /\ At(at, p, row).key = NoKey
  BY EmptyJob DEF At, ModelJobs, NoRequest

LEMMA SavedRows ==
  ASSUME NEW rows \in [Profiles -> ModelRow], NEW p \in Profiles, NEW row \in ModelRow
  PROVE  /\ SaveModelProfile(rows, p, row) \in [Profiles -> ModelRow]
         /\ \A q \in Profiles : SaveModelProfile(rows, p, row)[q].key =
                                  IF q = p THEN row.key ELSE rows[q].key
<1>1. \A q \in Profiles : /\ [rows[q] EXCEPT !.first = @ /\ ~row.first] \in ModelRow
                          /\ [rows[q] EXCEPT !.first = @ /\ ~row.first].key = rows[q].key
  BY DEF ModelRow
<1> QED
  BY <1>1 DEF SaveModelProfile

LEMMA DeletedRows ==
  ASSUME NEW rows \in [Profiles -> ModelRow], NEW p \in Profiles
  PROVE  /\ DeleteModelProfile(rows, p) \in [Profiles -> ModelRow]
         /\ \A q \in Profiles : DeleteModelProfile(rows, p)[q].key =
                                  IF q = p THEN "absent" ELSE rows[q].key
<1>1. \A q \in Profiles, b \in BOOLEAN : /\ [rows[q] EXCEPT !.first = b] \in ModelRow
                                         /\ [rows[q] EXCEPT !.first = b].key = rows[q].key
  BY DEF ModelRow
<1>2. Absent \in ModelRow /\ Absent.key = "absent"
  BY EmptyJob DEF Absent
<1>3. ASSUME NEW q \in Profiles, NEW rest
      PROVE  (rows[q].first \/ (rows[p].first /\ rest # {} /\ q = LeastOf(rest))) \in BOOLEAN
  OBVIOUS
<1> QED
  BY <1>1, <1>2, <1>3 DEF DeleteModelProfile

\* A write begins, with a job that has no write yet.
LEMMA WriteBegins ==
  ASSUME ModelRowsTyped, NEW r \in Requests, NEW job \in ModelJobs, NEW keys \in KeyStores,
         Persisting(r, job, keys)
  PROVE  /\ under' \in [Requests -> ModelJobs] /\ vault' \in KeyStores /\ vaultWrites' \in Nat
         /\ \A q \in Requests \ {r} : under'[q] = under[q]
         /\ vault' = keys /\ vaultWrites' = vaultWrites + 1
         /\ under'[r].by = vaultWrites + 1 /\ under'[r].keys = vault'
         /\ under'[r].at = job.at /\ under'[r].of = job.of /\ under'[r].key = job.key
         /\ under'[r].had = job.had /\ under'[r].row = job.row /\ under'[r].nth = job.nth
         /\ under'[r].lists = job.lists
<1>1. under \in [Requests -> ModelJobs] /\ vaultWrites \in Nat
  BY DEF ModelRowsTyped
<1> DEFINE new == [job EXCEPT !.keys = keys, !.by = vaultWrites + 1]
<1>w. vaultWrites + 1 \in Nat
  BY <1>1
<1> DEFINE mid == [job EXCEPT !.keys = keys]
<1>m. mid \in ModelJobs /\ mid.keys = keys /\ mid.at = job.at
      /\ mid.of = job.of /\ mid.key = job.key /\ mid.had = job.had /\ mid.row = job.row
      /\ mid.nth = job.nth /\ mid.lists = job.lists
  BY DEF ModelJobs
<1>n. new = [mid EXCEPT !.by = vaultWrites + 1]
  BY DEF ModelJobs
<1> HIDE DEF new, mid
<1>2. new \in ModelJobs /\ new.keys = keys /\ new.by = vaultWrites + 1 /\ new.at = job.at
      /\ new.of = job.of /\ new.key = job.key /\ new.had = job.had /\ new.row = job.row
      /\ new.nth = job.nth /\ new.lists = job.lists
  <2>1. new \in ModelJobs
    BY <1>m, <1>n, <1>w DEF ModelJobs
  <2>2. new.keys = mid.keys /\ new.by = vaultWrites + 1 /\ new.at = mid.at
      /\ new.of = mid.of /\ new.key = mid.key /\ new.had = mid.had /\ new.row = mid.row
      /\ new.nth = mid.nth /\ new.lists = mid.lists
    BY <1>m, <1>n DEF ModelJobs
  <2> QED
    BY <2>1, <2>2, <1>m
<1>3. vault' = keys /\ vaultWrites' = vaultWrites + 1 /\ under' = [under EXCEPT ![r] = new]
  BY DEF Persisting, new
<1> QED
  BY <1>1, <1>2, <1>3

\* The key of a profile is forgotten.
LEMMA KeyForgotten ==
  ASSUME ModelRowsTyped, NEW r \in Requests, NEW p \in Profiles, NEW job \in ModelJobs,
         Forget(r, p, job), job.by = 0
  PROVE  /\ under' \in [Requests -> ModelJobs] /\ vault' \in KeyStores /\ active' \in KeyStores
         /\ vaultWrites' \in Nat /\ vaultWrites <= vaultWrites'
         /\ \A q \in Requests \ {r} : under'[q] = under[q]
         /\ \A q \in Profiles \ {p} : vault'[q] = vault[q] /\ active'[q] = active[q]
         /\ \/ under'[r].by = 0
            \/ /\ under'[r].by = vaultWrites + 1 /\ under'[r].keys = vault'
               /\ vaultWrites' = vaultWrites + 1
         /\ under'[r].at = job.at /\ under'[r].of = job.of /\ under'[r].key = job.key
         /\ under'[r].row = job.row /\ under'[r].nth = job.nth /\ under'[r].lists = job.lists
<1>1. /\ under \in [Requests -> ModelJobs] /\ vaultWrites \in Nat
      /\ vault \in KeyStores /\ active \in KeyStores
  BY DEF ModelRowsTyped
<1>2. active' = [active EXCEPT ![p] = NoKey] /\ active' \in KeyStores
  BY <1>1 DEF Forget, KeyStores
<1>3. CASE vault[p] = NoKey
  <2>1. under' = [under EXCEPT ![r] = job] /\ UNCHANGED <<vault, vaultWrites>>
    BY <1>3 DEF Forget
  <2> QED
    BY <1>1, <1>2, <2>1 DEF KeyStores
<1>4. CASE vault[p] # NoKey
  <2> DEFINE keys == [vault EXCEPT ![p] = NoKey]
  <2>1. keys \in KeyStores /\ \A q \in Profiles \ {p} : keys[q] = vault[q]
    BY <1>1 DEF KeyStores
  <2>2. Persisting(r, job, keys)
    BY <1>4 DEF Forget
  <2> HIDE DEF keys
  <2>3. /\ under' \in [Requests -> ModelJobs] /\ vault' \in KeyStores /\ vaultWrites' \in Nat
        /\ \A q \in Requests \ {r} : under'[q] = under[q]
        /\ vault' = keys /\ vaultWrites' = vaultWrites + 1
        /\ under'[r].by = vaultWrites + 1 /\ under'[r].keys = vault'
        /\ under'[r].at = job.at /\ under'[r].of = job.of /\ under'[r].key = job.key
        /\ under'[r].row = job.row /\ under'[r].nth = job.nth /\ under'[r].lists = job.lists
    BY <2>1, <2>2, WriteBegins
  <2>4. \A q \in Profiles \ {p} : vault'[q] = vault[q] /\ active'[q] = active[q]
    BY <1>1, <1>2, <2>1, <2>3 DEF KeyStores
  <2>5. vaultWrites <= vaultWrites'
    BY <1>1, <2>3
  <2> QED
    BY <1>2, <2>3, <2>4, <2>5
<1> QED
  BY <1>3, <1>4

\* The jobs that the handlers make
LEMMA JobWithKey ==
  ASSUME NEW job \in ModelJobs, NEW k \in KeyOrNone, NEW new, new = [job EXCEPT !.key = k]
  PROVE  /\ new \in ModelJobs /\ new.key = k /\ new.at = job.at /\ new.of = job.of
         /\ new.had = job.had /\ new.row = job.row /\ new.by = job.by /\ new.nth = job.nth
         /\ new.scope = job.scope /\ new.lists = job.lists
  BY DEF ModelJobs

LEMMA JobWithNth ==
  ASSUME NEW job \in ModelJobs, NEW n \in Nat, NEW new, new = [job EXCEPT !.nth = n]
  PROVE  /\ new \in ModelJobs /\ new.nth = n /\ new.at = job.at /\ new.of = job.of
         /\ new.key = job.key /\ new.row = job.row /\ new.by = job.by
         /\ new.scope = job.scope /\ new.lists = job.lists
  BY DEF ModelJobs

LEMMA JobWithHad ==
  ASSUME NEW job \in ModelJobs, NEW h \in KeyOrNone, NEW new, new = [job EXCEPT !.had = h]
  PROVE  /\ new \in ModelJobs /\ new.had = h /\ new.key = job.key /\ new.at = job.at
         /\ new.of = job.of /\ new.row = job.row /\ new.by = job.by /\ new.nth = job.nth
  BY DEF ModelJobs

LEMMA JobWithScope ==
  ASSUME NEW job \in ModelJobs, NEW s \in Scopes, NEW new, new = [job EXCEPT !.scope = s]
  PROVE  /\ new \in ModelJobs /\ new.scope = s /\ new.at = job.at /\ new.of = job.of
         /\ new.by = job.by
  BY DEF ModelJobs

LEMMA JobWithLists ==
  ASSUME NEW job \in ModelJobs, NEW lists \in Listing, NEW new, new = [job EXCEPT !.lists = lists]
  PROVE  /\ new \in ModelJobs /\ new.lists = lists /\ new.nth = job.nth /\ new.at = job.at
         /\ new.of = job.of /\ new.by = job.by
  BY DEF ModelJobs

LEMMA KeysTyped ==
  ASSUME KeysInv
  PROVE  /\ ModelRowsTyped /\ JobsAreOrdered /\ KeysStand /\ FileHasKeys /\ OneChange /\ ChangesStand
         /\ models \in [Profiles -> ModelRow] /\ routes \in [Scopes -> Profiles \cup {NoProfile}]
         /\ vault \in KeyStores /\ active \in KeyStores /\ vaultWrites \in Nat
         /\ broken \subseteq Profiles /\ commits \in Nat
         /\ vaultFile \in [keys : KeyStores, by : Nat] /\ vaultFile.by \in Nat
         /\ vaultFile.by <= vaultWrites
         /\ under \in [Requests -> ModelJobs] /\ asks \in 0 .. MaxRequests /\ MaxRequests \in Nat
         /\ troubles \in 0 .. MaxTroubles /\ MaxTroubles \in Nat
         /\ \A q \in Requests : under[q].by \in Nat /\ under[q].by <= vaultWrites
<1>1. ModelRowsTyped /\ JobsAreOrdered /\ KeysStand /\ FileHasKeys /\ OneChange /\ ChangesStand
  BY DEF KeysInv
<1>2. under \in [Requests -> ModelJobs] /\ vaultFile \in [keys : KeyStores, by : Nat]
  BY <1>1 DEF ModelRowsTyped
<1>3. \A q \in Requests : under[q].by \in Nat
  BY <1>2 DEF ModelJobs
<1>4. vaultFile.by \in Nat
  BY <1>2
<1> QED
  BY <1>1, <1>2, <1>3, <1>4, ModelsAssumption DEF ModelRowsTyped, JobsAreOrdered

LEMMA CrossedOnes ==
  ASSUME NEW p \in Profiles, Crossed(p), broken \subseteq Profiles
  PROVE  /\ broken \subseteq broken' /\ broken' \subseteq Profiles
         /\ p \notin broken' => \A q \in Requests : ~Changes(q, p)
  BY DEF Crossed, Changing, Changes, ChangingPlaces

LEMMA SaveWithKeyHolds ==
  ASSUME KeysInv, NEW r \in Requests, NEW p \in Profiles, NEW k \in ApiKeys,
         NEW first \in BOOLEAN, NEW at \in Addresses, SaveWithKey(r, p, k, first, at)
  PROVE  KeysInv' /\ under'[r].nth = 0 /\ \A q \in Requests \ {r} : under'[q] = under[q]
<1>t. ModelRowsTyped /\ JobsAreOrdered /\ KeysStand /\ FileHasKeys
  BY KeysTyped
<1>u. /\ vault \in KeyStores /\ active \in KeyStores /\ vaultWrites \in Nat /\ broken \subseteq Profiles
      /\ vaultFile.by \in Nat /\ vaultFile.by <= vaultWrites
      /\ under \in [Requests -> ModelJobs] /\ asks \in 0 .. MaxRequests /\ MaxRequests \in Nat
      /\ \A q \in Requests : under[q].by \in Nat /\ under[q].by <= vaultWrites
  BY KeysTyped
<1>k. k # NoKey /\ k \in KeyOrNone
  BY KeyBounds
<1> DEFINE had  == IF models[p].key = "managed" /\ vault[p] # NoKey THEN active[p] ELSE NoKey
           plain == At("setting", p, Row("managed", first, at))
           job  == [plain EXCEPT !.key = k, !.had = had]
           keys == [vault EXCEPT ![p] = k]
<1>h. had \in KeyOrNone
  BY <1>u, KeyBounds DEF KeyStores, KeyOrNone
<1>r. Row("managed", first, at) \in ModelRow
  BY ModelsAssumption DEF Row, ModelRow, Credentials
<1>j. job \in ModelJobs /\ job.at = "setting" /\ job.of = p /\ job.key = k /\ job.had = had
      /\ job.nth = 0
  <2>1. plain \in ModelJobs /\ plain.at = "setting" /\ plain.of = p /\ plain.nth = 0
    BY PlainJob, <1>r DEF ChangingPlaces
  <2> HIDE DEF plain, had
  <2> DEFINE mid == [plain EXCEPT !.key = k]
  <2>2. job = [mid EXCEPT !.had = had]
    BY <2>1 DEF ModelJobs
  <2>3. mid \in ModelJobs /\ mid.at = "setting" /\ mid.of = p /\ mid.nth = 0 /\ mid.key = k
    BY <2>1, <1>k, JobWithKey
  <2> HIDE DEF mid, job
  <2> QED
    BY <2>2, <2>3, <1>h, JobWithHad
<1>e. keys \in KeyStores /\ keys[p] = k /\ \A q \in Profiles \ {p} : keys[q] = vault[q]
  BY <1>u, <1>k DEF KeyStores, KeyOrNone
<1>s. /\ under[r].at = "free" /\ asks < MaxRequests /\ asks' = asks + 1 /\ Crossed(p)
      /\ Persisting(r, job, keys)
      /\ UNCHANGED <<outpaced, models, routes, active, vaultFile, shown, commits, troubles,
                     astray, turn>>
  BY DEF SaveWithKey, Begin
<1> HIDE DEF job, keys, plain
<1>1. /\ under' \in [Requests -> ModelJobs] /\ vault' \in KeyStores /\ vaultWrites' \in Nat
      /\ \A q \in Requests \ {r} : under'[q] = under[q]
      /\ vault' = keys /\ vaultWrites' = vaultWrites + 1
      /\ under'[r].by = vaultWrites + 1 /\ under'[r].keys = vault'
      /\ under'[r].at = "setting" /\ under'[r].of = p /\ under'[r].key = k
      /\ under'[r].had = had /\ under'[r].nth = 0
  BY <1>e, <1>j, <1>s, <1>t, WriteBegins
<1>2. /\ broken \subseteq broken' /\ broken' \subseteq Profiles
      /\ p \notin broken' => \A q \in Requests : ~Changes(q, p)
  BY <1>s, <1>u, CrossedOnes
<1>3. ModelRowsTyped'
  <2>1. asks' \in 0 .. MaxRequests
    BY <1>s, <1>u
  <2> QED
    BY <1>1, <1>2, <1>s, <1>t, <2>1 DEF ModelRowsTyped
<1>4. JobsAreOrdered'
  <2>1. vaultWrites <= vaultWrites' /\ vaultFile'.by <= vaultWrites'
    BY <1>1, <1>s, <1>u
  <2> QED
    BY <1>1, <2>1, JobsMove DEF ChangingPlaces, ToldPlaces
<1>5. \A q \in Profiles : Changes(r, q)' <=> q = p
  BY <1>1 DEF Changes, ChangingPlaces
<1>6. \A q \in Profiles : ~Changes(r, q)
  BY <1>s DEF Changes, ChangingPlaces
<1>7. vault'[p] = k /\ \A q \in Profiles \ {p} : vault'[q] = vault[q]
  BY <1>1, <1>e
<1>8. ASSUME p \notin broken', Managed(p)
      PROVE  had # NoKey /\ active[p] # NoKey /\ HasSince(under', vaultFile', outpaced', p, vaultFile'.by)
  <2>1. p \notin broken \cup Dropped
    BY <1>2, <1>8 DEF Dropped, Changes, ChangingPlaces
  <2>2. vault[p] # NoKey /\ active[p] # NoKey
    BY <1>t, <1>8, <2>1 DEF KeysStand, Managed
  <2>3. HasSince(under, vaultFile, outpaced, p, vaultFile.by)
    BY <1>t, <1>8, <2>1 DEF FileHasKeys
  <2>4. HasSince(under', vaultFile', outpaced', p, vaultFile.by)
    BY <1>1, <1>7, <1>k, <1>s, <2>3, TextsKeep
  <2> QED
    BY <1>8, <1>s, <2>2, <2>4 DEF Managed
<1>9. HasSince(under', vaultFile', outpaced', p, under'[r].by)
  BY <1>1, <1>7, <1>k, <1>s, <1>u DEF HasSince
<1>10. \A q \in Profiles : Managed(q)' <=> Managed(q)
  BY <1>s DEF Managed
<1>11. under'[r].by # 0
  BY <1>1, <1>u
<1> HIDE DEF had
<1>12. KeysInv'
  BY <1>1, <1>2, <1>3, <1>4, <1>5, <1>6, <1>7, <1>8, <1>9, <1>10, <1>11, <1>k, <1>s, KeysMove
<1> QED
  BY <1>1, <1>12

\* Where no key of a profile, no text of the vault and no row changes
LEMMA KeptKeys ==
  ASSUME KeysInv, NEW r \in Requests, \A q \in Requests \ {r} : under'[q] = under[q],
         UNCHANGED <<vaultFile, outpaced, vault>>, NEW p \in Profiles \ (broken \cup Dropped), Managed(p),
         under'[r].by = 0
  PROVE  /\ vault'[p] # NoKey /\ active[p] # NoKey
         /\ HasSince(under', vaultFile', outpaced', p, vaultFile'.by)
<1>1. vault[p] # NoKey /\ active[p] # NoKey /\ HasSince(under, vaultFile, outpaced, p, vaultFile.by)
  BY KeysTyped DEF KeysStand, FileHasKeys, Managed
<1>2. HasSince(under', vaultFile', outpaced', p, vaultFile.by)
  BY <1>1, TextsKeep
<1> QED
  BY <1>1, <1>2

LEMMA NotDropped ==
  ASSUME OneChange, NEW r \in Requests, NEW p \in Profiles \ broken, Changes(r, p),
         under[r].at # "dropping"
  PROVE  p \notin Dropped
  BY DEF OneChange, Changes, ChangingPlaces, Dropped

\* A request that ends, or whose answer is read
LEMMA EndsHold ==
  ASSUME KeysInv, NEW r \in Requests, ModelRowsTyped',
         under' = [under EXCEPT ![r] = NoRequest],
         UNCHANGED <<vaultFile, outpaced, vault, active, models, vaultWrites>>,
         broken \subseteq broken',
         under[r].at = "dropping" => under[r].of \in broken'
  PROVE  KeysInv'
<1>u. /\ under \in [Requests -> ModelJobs] /\ vaultWrites \in Nat /\ OneChange
      /\ vaultFile.by \in Nat /\ vaultFile.by <= vaultWrites
  BY KeysTyped
<1>1. /\ \A q \in Requests \ {r} : under'[q] = under[q]
      /\ under'[r].at = "free" /\ under'[r].by = 0 /\ under'[r].nth = 0
      /\ under' \in [Requests -> ModelJobs]
  BY <1>u, EmptyJob
<1>2. JobsAreOrdered'
  BY <1>1, <1>u, JobsMove DEF ChangingPlaces, ToldPlaces
<1>3. \A p \in Profiles : ~Changes(r, p)'
  BY <1>1 DEF Changes, ChangingPlaces
<1>4. \A p \in Profiles : Managed(p)' <=> Managed(p)
  BY DEF Managed
<1>5. ASSUME NEW p \in Profiles \ (broken' \cup Dropped'), Changes(r, p), Managed(p)'
      PROVE  vault'[p] # NoKey /\ active'[p] # NoKey
             /\ HasSince(under', vaultFile', outpaced', p, vaultFile'.by)
  <2>1. p \notin broken /\ under[r].at # "dropping"
    BY <1>5 DEF Changes
  <2>2. p \notin Dropped
    BY <1>5, <1>u, <2>1, NotDropped
  <2> QED
    BY <1>1, <1>4, <1>5, <2>1, <2>2, KeptKeys
<1> QED
  BY <1>1, <1>2, <1>3, <1>4, <1>5, KeysMove

LEMMA RenameFailsHolds ==
  ASSUME KeysInv, NEW r \in Requests, RenameFails(r)
  PROVE  KeysInv'
<1>1. under[r].at = "dropping" => under[r].of \in Profiles
  BY KeysTyped DEF JobsAreOrdered, ChangingPlaces
<1>2. /\ under' = [under EXCEPT ![r] = NoRequest] /\ broken \subseteq broken'
      /\ under[r].at = "dropping" => under[r].of \in broken'
      /\ UNCHANGED <<outpaced, models, routes, vault, active, vaultFile, vaultWrites, shown, asks,
                     commits, turn>>
  BY DEF RenameFails
<1>3. ModelRowsTyped'
  <2>1. under' \in [Requests -> ModelJobs]
    BY <1>2, KeysTyped, EmptyJob
  <2>2. troubles' \in 0 .. MaxTroubles
    BY KeysTyped DEF RenameFails
  <2>3. broken' \subseteq Profiles /\ astray' \in BOOLEAN
    BY <1>1, KeysTyped DEF RenameFails, ModelRowsTyped
  <2> QED
    BY <1>2, <2>1, <2>2, <2>3, KeysTyped DEF ModelRowsTyped
<1> QED
  BY <1>2, <1>3, EndsHold

LEMMA ShownRows ==
  ASSUME NEW rows \in [Profiles -> ModelRow], NEW p \in Profiles, NEW row \in ModelRow
  PROVE  WithSaved(rows, p, row) \in [Profiles -> ModelRow]
<1>1. \A q \in Profiles, b \in BOOLEAN : [rows[q] EXCEPT !.first = b] \in ModelRow
  BY DEF ModelRow
<1>2. \A q \in Profiles : rows[q].first \in BOOLEAN
  BY DEF ModelRow
<1> QED
  BY <1>1, <1>2 DEF WithSaved

LEMMA ShowSavedHolds ==
  ASSUME KeysInv, NEW r \in Requests, ShowSaved(r)
  PROVE  KeysInv' /\ shown' \in Listing
<1>u. /\ under \in [Requests -> ModelJobs] /\ shown \in Listing /\ under[r] \in ModelJobs
  BY KeysTyped DEF ModelRowsTyped
<1>1. /\ under' = [under EXCEPT ![r] = NoRequest] /\ under[r].at \in {"saved", "deleted", "routed"}
      /\ UNCHANGED <<outpaced, models, routes, vault, active, vaultFile, vaultWrites, asks, commits,
                     troubles, broken, turn>>
      /\ astray' \in BOOLEAN
  BY KeysTyped DEF ShowSaved, ModelRowsTyped
<1>j. /\ under[r].row \in ModelRow /\ under[r].lists \in Listing /\ under[r].of \in Profiles \cup {NoProfile}
      /\ under[r].scope \in Scopes \cup {"none"}
  BY <1>u DEF ModelJobs
<1>2. shown' \in Listing
  <2>1. CASE under[r].at = "saved"
    <3>1. shown' = [shown EXCEPT !.rows = WithSaved(@, under[r].of, under[r].row)]
      BY <2>1 DEF ShowSaved
    <3>2. \A q \in Profiles : WithSaved(shown.rows, under[r].of, under[r].row)[q] \in ModelRow
      <4>1. \A q \in Profiles, b \in BOOLEAN : [shown.rows[q] EXCEPT !.first = b] \in ModelRow
        BY <1>u DEF Listing, ModelRow
      <4>2. \A q \in Profiles : shown.rows[q].first \in BOOLEAN
        BY <1>u DEF Listing, ModelRow
      <4> QED
        BY <1>j, <4>1, <4>2 DEF WithSaved
    <3>3. WithSaved(shown.rows, under[r].of, under[r].row) \in [Profiles -> ModelRow]
      BY <3>2 DEF WithSaved
    <3> QED
      BY <1>u, <3>1, <3>3 DEF Listing
  <2>2. CASE under[r].at = "deleted"
    BY <1>j, <2>2 DEF ShowSaved
  <2>3. CASE under[r].at = "routed"
    <3>1. shown' = [shown EXCEPT !.routes[under[r].scope] = under[r].of]
      BY <2>3 DEF ShowSaved
    <3>2. shown' = [shown EXCEPT !.routes = [@ EXCEPT ![under[r].scope] = under[r].of]]
      BY <1>u, <3>1 DEF Listing
    <3>3. [shown.routes EXCEPT ![under[r].scope] = under[r].of]
            \in [Scopes -> Profiles \cup {NoProfile}]
      BY <1>j, <1>u DEF Listing
    <3> QED
      BY <1>u, <3>2, <3>3 DEF Listing
  <2> QED
    BY <1>1, <2>1, <2>2, <2>3
<1>3. ModelRowsTyped'
  <2>1. under' \in [Requests -> ModelJobs]
    BY <1>1, <1>u, EmptyJob
  <2> QED
    BY <1>1, <1>2, <2>1, KeysTyped DEF ModelRowsTyped
<1> QED
  BY <1>1, <1>2, <1>3, EndsHold

LEMMA EndRefusedHolds ==
  ASSUME KeysInv, NEW r \in Requests, EndRefused(r)
  PROVE  KeysInv'
<1>u. /\ under \in [Requests -> ModelJobs] /\ vaultWrites \in Nat /\ OneChange /\ ModelRowsTyped
      /\ vaultFile.by \in Nat /\ vaultFile.by <= vaultWrites /\ active \in KeyStores
      /\ under[r].of \in Profiles
  BY KeysTyped DEF EndRefused, Kept, JobsAreOrdered, ChangingPlaces
<1>s. /\ under' = [under EXCEPT ![r] = NoRequest]
      /\ UNCHANGED <<outpaced, models, routes, vault, vaultFile, vaultWrites, shown, asks, commits,
                     troubles, broken, astray, turn>>
  BY DEF EndRefused
<1>a. \/ under[r].at = "undoing" /\ UNCHANGED active
      \/ /\ under[r].at = "restoring" /\ under[r].key \in ApiKeys
         /\ active' = [active EXCEPT ![under[r].of] = under[r].key]
  BY KeysTyped DEF EndRefused, Kept, JobsAreOrdered
<1>1. /\ \A q \in Requests \ {r} : under'[q] = under[q]
      /\ under'[r].at = "free" /\ under'[r].by = 0 /\ under'[r].nth = 0
      /\ under' \in [Requests -> ModelJobs]
  BY <1>s, <1>u, EmptyJob
<1>2. active' \in KeyStores
  BY <1>a, <1>u, KeyBounds DEF KeyStores, KeyOrNone
<1>3. ModelRowsTyped'
  BY <1>1, <1>2, <1>s, <1>u DEF ModelRowsTyped
<1>4. JobsAreOrdered'
  BY <1>1, <1>s, <1>u, JobsMove DEF ChangingPlaces, ToldPlaces
<1>5. \A p \in Profiles : ~Changes(r, p)' /\ (Managed(p)' <=> Managed(p))
  BY <1>1, <1>s DEF Changes, ChangingPlaces, Managed
<1>6. \A p \in Profiles : Changes(r, p) <=> p = under[r].of
  BY <1>a DEF Changes, ChangingPlaces
<1>7. \A p \in Profiles \ {under[r].of} : active'[p] = active[p]
  BY <1>a, <1>u DEF KeyStores
<1>8. ASSUME NEW p \in Profiles \ (broken' \cup Dropped'), Changes(r, p), Managed(p)'
      PROVE  vault'[p] # NoKey /\ active'[p] # NoKey
             /\ HasSince(under', vaultFile', outpaced', p, vaultFile'.by)
  <2>1. p \notin broken /\ under[r].at # "dropping"
    BY <1>8, <1>a, <1>s
  <2>2. p \notin Dropped
    BY <1>8, <1>u, <2>1, NotDropped
  <2>3. /\ vault'[p] # NoKey /\ active[p] # NoKey
        /\ HasSince(under', vaultFile', outpaced', p, vaultFile'.by)
    BY <1>1, <1>5, <1>8, <1>s, <2>1, <2>2, KeptKeys
  <2>4. active'[p] # NoKey
    BY <1>6, <1>8, <1>a, <1>u, <2>3, KeyBounds DEF KeyStores
  <2> QED
    BY <2>3, <2>4
<1> QED
  BY <1>1, <1>3, <1>4, <1>5, <1>6, <1>7, <1>8, <1>s, KeysMove

LEMMA EndSavedHolds ==
  ASSUME KeysInv, NEW r \in Requests, EndSaved(r)
  PROVE  KeysInv' /\ under'[r] = [under[r] EXCEPT !.at = "saved"]
<1>u. /\ under \in [Requests -> ModelJobs] /\ vaultWrites \in Nat /\ OneChange /\ ModelRowsTyped
      /\ vaultFile.by \in Nat /\ vaultFile.by <= vaultWrites
      /\ under[r].at = "closing" /\ under[r].by = 0 /\ under[r].nth # 0 /\ under[r].of \in Profiles
  BY KeysTyped DEF EndSaved, Kept, Waiting, JobsAreOrdered, ToldPlaces, ChangingPlaces
<1>s. UNCHANGED <<outpaced, models, routes, vault, active, vaultFile, vaultWrites, shown, asks, commits,
                  troubles, broken, astray, turn>>
  BY DEF EndSaved
<1>1. /\ \A q \in Requests \ {r} : under'[q] = under[q]
      /\ under'[r] = [under[r] EXCEPT !.at = "saved"]
  BY <1>u DEF EndSaved
<1>2. /\ under'[r] \in ModelJobs
      /\ under'[r].at = "saved" /\ under'[r].by = 0 /\ under'[r].nth # 0
  BY <1>1, <1>u DEF ModelJobs
<1>3. under' \in [Requests -> ModelJobs]
  BY <1>1, <1>2, <1>u DEF EndSaved
<1>4. ModelRowsTyped'
  BY <1>3, <1>s, <1>u DEF ModelRowsTyped
<1>5. JobsAreOrdered'
  <2>1. vaultWrites' \in Nat /\ vaultWrites <= vaultWrites' /\ vaultFile'.by <= vaultWrites'
    BY <1>s, <1>u
  <2>2. under'[r].at \notin ChangingPlaces /\ under'[r].at \in ToldPlaces
        /\ under'[r].at \notin {"setting", "restoring"}
    BY <1>2 DEF ChangingPlaces, ToldPlaces
  <2> QED
    BY <1>1, <1>2, <1>3, <2>1, <2>2, JobsMove
<1>6. \A p \in Profiles : ~Changes(r, p)' /\ (Managed(p)' <=> Managed(p))
  BY <1>2, <1>s DEF Changes, ChangingPlaces, Managed
<1>7. ASSUME NEW p \in Profiles \ (broken' \cup Dropped'), Changes(r, p), Managed(p)'
      PROVE  FALSE
  <2>1. ~Managed(p)
    BY <1>7, <1>s, <1>u, KeysTyped DEF ChangesStand
  <2> QED
    BY <1>6, <1>7, <2>1
<1> QED
  BY <1>1, <1>2, <1>4, <1>5, <1>6, <1>7, <1>s, KeysMove

\* The answer to the others: a row that is saved without a key
LEMMA SaveWithoutKeyHolds ==
  ASSUME KeysInv, NEW r \in Requests, NEW p \in Profiles,
         NEW credential \in {"kept", "named", "none"},
         NEW first \in BOOLEAN, NEW at \in Addresses, SaveWithoutKey(r, p, credential, first, at)
  PROVE  /\ KeysInv' /\ \A q \in Requests \ {r} : under'[q] = under[q]
         /\ under'[r].at \in {"saved", "closing"} /\ under'[r].nth = commits + 1
         /\ under'[r].of = p /\ under'[r].row \in ModelRow
         /\ models' = SaveModelProfile(models, p, under'[r].row)
<1>u. /\ ModelRowsTyped /\ models \in [Profiles -> ModelRow] /\ vaultWrites \in Nat
      /\ broken \subseteq Profiles /\ commits \in Nat /\ commits + 1 \in Nat /\ commits + 1 # 0
      /\ vaultFile.by \in Nat /\ vaultFile.by <= vaultWrites /\ active \in KeyStores
      /\ under \in [Requests -> ModelJobs] /\ asks \in 0 .. MaxRequests /\ MaxRequests \in Nat
  BY KeysTyped
<1> DEFINE key == IF credential # "kept" THEN credential
                  ELSE IF models[p].key = "absent" THEN "none" ELSE models[p].key
           row == Row(key, first, at)
           plain(place) == At(place, p, row)
           job(place)   == [plain(place) EXCEPT !.nth = commits + 1]
<1>k. /\ key \in Credentials
      /\ credential # "kept" => key # "managed"
      /\ key = "managed" => Managed(p)
  BY <1>u DEF Credentials, ModelRow, Managed
<1>r. row \in ModelRow /\ row.key = key
  BY <1>k, ModelsAssumption DEF Row, ModelRow, Credentials
<1>s. /\ under[r].at = "free" /\ asks < MaxRequests /\ asks' = asks + 1 /\ Crossed(p)
      /\ models' = SaveModelProfile(models, p, row) /\ commits' = commits + 1
      /\ UNCHANGED <<outpaced, routes, vaultFile, shown, troubles, astray, turn>>
  BY DEF SaveWithoutKey, Begin
<1>v. \/ /\ credential = "kept" /\ under' = [under EXCEPT ![r] = job("saved")]
         /\ UNCHANGED <<vault, active, vaultWrites>>
      \/ credential # "kept" /\ Forget(r, p, job("closing"))
  BY DEF SaveWithoutKey
<1> HIDE DEF row, key
<1>j. \A place \in {"saved", "closing"} :
        /\ job(place) \in ModelJobs /\ job(place).at = place /\ job(place).of = p
        /\ job(place).nth = commits + 1 /\ job(place).by = 0 /\ job(place).row = row
  <2> TAKE place \in {"saved", "closing"}
  <2>1. plain(place) \in ModelJobs /\ plain(place).at = place /\ plain(place).of = p
        /\ plain(place).by = 0 /\ plain(place).row = row
    BY PlainJob, <1>r DEF ChangingPlaces
  <2> HIDE DEF plain
  <2> QED
    BY <2>1, <1>u, JobWithNth
<1> HIDE DEF job
<1>1. /\ under' \in [Requests -> ModelJobs] /\ vault' \in KeyStores /\ active' \in KeyStores
      /\ vaultWrites' \in Nat /\ vaultWrites <= vaultWrites'
      /\ \A q \in Requests \ {r} : under'[q] = under[q]
      /\ \A q \in Profiles \ {p} : vault'[q] = vault[q] /\ active'[q] = active[q]
      /\ \/ under'[r].by = 0
         \/ /\ under'[r].by = vaultWrites + 1 /\ under'[r].keys = vault'
            /\ vaultWrites' = vaultWrites + 1
      /\ under'[r].of = p /\ under'[r].nth = commits + 1 /\ under'[r].row = row
  <2>1. CASE credential = "kept"
    <3>1. /\ under' = [under EXCEPT ![r] = job("saved")] /\ UNCHANGED <<vault, active, vaultWrites>>
      BY <1>v, <2>1
    <3>2. vault \in KeyStores
      BY KeysTyped
    <3> QED
      BY <1>j, <1>u, <3>1, <3>2
  <2>2. CASE credential # "kept"
    <3>1. Forget(r, p, job("closing"))
      BY <1>v, <2>2
    <3> QED
      BY <1>j, <1>u, <3>1, KeyForgotten
  <2> QED
    BY <2>1, <2>2
<1>a. \/ credential = "kept" /\ under'[r].at = "saved" /\ under'[r].by = 0
         /\ UNCHANGED <<vault, active>>
      \/ credential # "kept" /\ under'[r].at = "closing"
  <2>1. CASE credential = "kept"
    BY <1>j, <1>u, <1>v, <2>1
  <2>2. CASE credential # "kept"
    <3>1. Forget(r, p, job("closing"))
      BY <1>v, <2>2
    <3>2. under'[r].at = job("closing").at
      BY <1>j, <1>u, <3>1, KeyForgotten
    <3> QED
      BY <1>j, <2>2, <3>2
  <2> QED
    BY <2>1, <2>2
<1>2. /\ broken \subseteq broken' /\ broken' \subseteq Profiles
      /\ p \notin broken' => \A q \in Requests : ~Changes(q, p)
  BY <1>s, <1>u, CrossedOnes
<1>m. /\ models' \in [Profiles -> ModelRow]
      /\ \A q \in Profiles : Managed(q)' => Managed(q)
      /\ credential # "kept" => ~Managed(p)'
  <2>1. /\ models' \in [Profiles -> ModelRow]
        /\ \A q \in Profiles : models'[q].key = IF q = p THEN row.key ELSE models[q].key
    <3>1. /\ SaveModelProfile(models, p, row) \in [Profiles -> ModelRow]
          /\ \A q \in Profiles : SaveModelProfile(models, p, row)[q].key =
                                   IF q = p THEN row.key ELSE models[q].key
      BY <1>r, <1>u, SavedRows
    <3> QED
      BY <1>s, <3>1
  <2> QED
    BY <1>k, <1>r, <2>1 DEF Managed
<1>3. ModelRowsTyped'
  <2>1. asks' \in 0 .. MaxRequests /\ commits' \in Nat
    BY <1>s, <1>u
  <2> QED
    BY <1>1, <1>2, <1>m, <1>s, <1>u, <2>1 DEF ModelRowsTyped
<1>4. JobsAreOrdered'
  <2>1. vaultFile'.by <= vaultWrites'
    BY <1>1, <1>s, <1>u
  <2>2. /\ under'[r].at \in ToldPlaces /\ under'[r].at \notin {"setting", "restoring"}
        /\ under'[r].at \notin ChangingPlaces => under'[r].by = 0
    BY <1>a DEF ToldPlaces, ChangingPlaces
  <2>3. under'[r].nth # 0 /\ under'[r].of \in Profiles
    BY <1>1, <1>u
  <2> QED
    BY <1>1, <2>1, <2>2, <2>3, JobsMove
<1>5. \A q \in Profiles : Changes(r, q)' <=> (q = p /\ credential # "kept")
  BY <1>1, <1>a DEF Changes, ChangingPlaces
<1>6. \A q \in Profiles : ~Changes(r, q)
  BY <1>s DEF Changes, ChangingPlaces
<1>7. \A q \in Profiles : ~Changes(r, q)' => vault'[q] = vault[q] /\ active'[q] = active[q]
  BY <1>1, <1>5, <1>a
<1>8. \A q \in Profiles : Changes(r, q)' => ~Managed(q)' /\ under'[r].at = "closing"
  BY <1>5, <1>a, <1>m
<1>9. KeysInv'
  BY <1>1, <1>2, <1>3, <1>4, <1>5, <1>6, <1>7, <1>8, <1>m, <1>s, KeysMove
<1> QED
  BY <1>1, <1>9, <1>a, <1>r, <1>s

LEMMA DeleteProfileHolds ==
  ASSUME KeysInv, NEW r \in Requests, NEW p \in Profiles, DeleteProfile(r, p)
  PROVE  KeysInv' /\ under'[r].nth = 0 /\ \A q \in Requests \ {r} : under'[q] = under[q]
<1>u. /\ ModelRowsTyped /\ vaultWrites \in Nat /\ broken \subseteq Profiles
      /\ vaultFile.by \in Nat /\ vaultFile.by <= vaultWrites
      /\ asks \in 0 .. MaxRequests /\ MaxRequests \in Nat
  BY KeysTyped
<1> DEFINE job == At("dropping", p, Absent)
<1>s. /\ under[r].at = "free" /\ asks < MaxRequests /\ asks' = asks + 1 /\ Crossed(p)
      /\ Forget(r, p, job)
      /\ UNCHANGED <<outpaced, models, routes, vaultFile, shown, commits, troubles, astray, turn>>
  BY DEF DeleteProfile, Begin
<1>j. job \in ModelJobs /\ job.at = "dropping" /\ job.of = p /\ job.nth = 0 /\ job.by = 0
  BY EmptyJob, PlainJob DEF ChangingPlaces
<1> HIDE DEF job
<1>1. /\ under' \in [Requests -> ModelJobs] /\ vault' \in KeyStores /\ active' \in KeyStores
      /\ vaultWrites' \in Nat /\ vaultWrites <= vaultWrites'
      /\ \A q \in Requests \ {r} : under'[q] = under[q]
      /\ \A q \in Profiles \ {p} : vault'[q] = vault[q] /\ active'[q] = active[q]
      /\ \/ under'[r].by = 0
         \/ /\ under'[r].by = vaultWrites + 1 /\ under'[r].keys = vault'
            /\ vaultWrites' = vaultWrites + 1
      /\ under'[r].of = p /\ under'[r].nth = 0 /\ under'[r].at = "dropping"
  BY <1>j, <1>s, <1>u, KeyForgotten
<1>2. /\ broken \subseteq broken' /\ broken' \subseteq Profiles
      /\ p \notin broken' => \A q \in Requests : ~Changes(q, p)
  BY <1>s, <1>u, CrossedOnes
<1>3. ModelRowsTyped'
  <2>1. asks' \in 0 .. MaxRequests
    BY <1>s, <1>u
  <2> QED
    BY <1>1, <1>2, <1>s, <1>u, <2>1 DEF ModelRowsTyped
<1>4. JobsAreOrdered'
  <2>1. vaultFile'.by <= vaultWrites'
    BY <1>1, <1>s, <1>u
  <2>2. under'[r].at \notin ToldPlaces /\ under'[r].at \in ChangingPlaces
        /\ under'[r].at \notin {"setting", "restoring"}
    BY <1>1 DEF ToldPlaces, ChangingPlaces
  <2> QED
    BY <1>1, <2>1, <2>2, JobsMove
<1>5. \A q \in Profiles : Changes(r, q)' <=> q = p
  BY <1>1 DEF Changes, ChangingPlaces
<1>6. \A q \in Profiles : ~Changes(r, q) /\ (Managed(q)' <=> Managed(q))
  BY <1>s DEF Changes, ChangingPlaces, Managed
<1>7. p \in Dropped'
  BY <1>1 DEF Dropped
<1>8. KeysInv'
  BY <1>1, <1>2, <1>3, <1>4, <1>5, <1>6, <1>7, <1>s, KeysMove
<1> QED
  BY <1>1, <1>8

LEMMA AssignHolds ==
  ASSUME KeysInv, NEW r \in Requests, NEW s \in Assigned, NEW p \in Profiles \cup {NoProfile},
         Assign(r, s, p)
  PROVE  /\ KeysInv' /\ \A q \in Requests \ {r} : under'[q] = under[q]
         /\ under'[r].at = "routed" /\ under'[r].scope = s /\ under'[r].of = p
         /\ under'[r].nth = commits + 1
<1>u. /\ ModelRowsTyped /\ vaultWrites \in Nat /\ under \in [Requests -> ModelJobs]
      /\ vaultFile.by \in Nat /\ vaultFile.by <= vaultWrites
      /\ asks \in 0 .. MaxRequests /\ MaxRequests \in Nat /\ commits \in Nat
      /\ commits + 1 \in Nat /\ commits + 1 # 0 /\ s \in Scopes
      /\ routes \in [Scopes -> Profiles \cup {NoProfile}]
  BY KeysTyped, ModelsAssumption DEF Scopes
<1> DEFINE plain == At("routed", p, Absent)
           mid   == [plain EXCEPT !.scope = s]
           job   == [mid EXCEPT !.nth = commits + 1]
<1>j. /\ job \in ModelJobs /\ job.at = "routed" /\ job.of = p /\ job.nth = commits + 1 /\ job.by = 0
      /\ job.scope = s /\ job = [plain EXCEPT !.scope = s, !.nth = commits + 1]
  <2>1. plain \in ModelJobs /\ plain.at = "routed" /\ plain.of = p /\ plain.by = 0
    BY EmptyJob, PlainJob
  <2>2. job = [plain EXCEPT !.scope = s, !.nth = commits + 1]
    <3> HIDE DEF plain
    <3> QED
      BY <2>1 DEF ModelJobs
  <2> HIDE DEF plain
  <2>3. mid \in ModelJobs /\ mid.at = "routed" /\ mid.of = p /\ mid.by = 0 /\ mid.scope = s
    BY <2>1, <1>u, JobWithScope
  <2> HIDE DEF mid
  <2> QED
    BY <2>2, <2>3, <1>u, JobWithNth
<1>s. /\ under[r].at = "free" /\ asks < MaxRequests /\ asks' = asks + 1
      /\ routes' = [routes EXCEPT ![s] = p] /\ commits' = commits + 1
      /\ under' = [under EXCEPT ![r] = [plain EXCEPT !.scope = s, !.nth = commits + 1]]
      /\ UNCHANGED <<outpaced, models, vault, active, vaultFile, vaultWrites, shown, troubles, broken,
                     astray, turn>>
  BY DEF Assign, Begin
<1> HIDE DEF plain, mid, job
<1>1. /\ under' \in [Requests -> ModelJobs] /\ \A q \in Requests \ {r} : under'[q] = under[q]
      /\ under'[r] = job
  BY <1>j, <1>s, <1>u
<1>3. ModelRowsTyped'
  <2>1. asks' \in 0 .. MaxRequests /\ routes' \in [Scopes -> Profiles \cup {NoProfile}]
        /\ commits' \in Nat
    BY <1>s, <1>u
  <2> QED
    BY <1>1, <1>s, <1>u, <2>1 DEF ModelRowsTyped
<1>4. JobsAreOrdered'
  <2>1. vaultWrites <= vaultWrites' /\ vaultFile'.by <= vaultWrites' /\ vaultWrites' \in Nat
    BY <1>s, <1>u
  <2>2. under'[r].at \in ToldPlaces /\ under'[r].at \notin ChangingPlaces
        /\ under'[r].at \notin {"setting", "restoring"}
    BY <1>1, <1>j DEF ToldPlaces, ChangingPlaces
  <2>3. under'[r].by = 0 /\ under'[r].nth # 0
    BY <1>1, <1>j, <1>u
  <2> QED
    BY <1>1, <2>1, <2>2, <2>3, JobsMove
<1>5. under'[r].by = 0
  BY <1>1, <1>j
<1>6. \A q \in Profiles : ~Changes(r, q) /\ ~Changes(r, q)' /\ (Managed(q)' <=> Managed(q))
  BY <1>1, <1>j, <1>s DEF Changes, ChangingPlaces, Managed
<1>7. KeysInv'
  BY <1>1, <1>3, <1>4, <1>5, <1>6, <1>s, KeysMove
<1> QED
  BY <1>1, <1>7, <1>j

\* The key of a new row is on the disk.
LEMMA SaveKeyedHolds ==
  ASSUME KeysInv, NEW r \in Requests, SaveKeyed(r)
  PROVE  /\ KeysInv' /\ \A q \in Requests \ {r} : under'[q] = under[q]
         /\ under'[r].at = "saved" /\ under'[r].of = under[r].of /\ under'[r].row = under[r].row
         /\ under'[r].nth = commits + 1
<1>u. /\ ModelRowsTyped /\ vaultWrites \in Nat /\ under \in [Requests -> ModelJobs] /\ OneChange
      /\ vaultFile.by \in Nat /\ vaultFile.by <= vaultWrites /\ active \in KeyStores
      /\ commits \in Nat /\ commits + 1 \in Nat /\ commits + 1 # 0
      /\ models \in [Profiles -> ModelRow] /\ vault \in KeyStores
  BY KeysTyped
<1>o. /\ under[r].at = "setting" /\ under[r].by = 0 /\ under[r].of \in Profiles
      /\ under[r].key \in ApiKeys /\ under[r].key # NoKey /\ under[r].key \in KeyOrNone
      /\ under[r].row \in ModelRow
  <2>1. under[r].at = "setting" /\ under[r].by = 0 /\ under[r].of \in Profiles
        /\ under[r].key \in ApiKeys
    BY KeysTyped DEF SaveKeyed, Kept, Waiting, JobsAreOrdered, ChangingPlaces
  <2>2. under[r].row \in ModelRow
    BY <1>u DEF ModelJobs
  <2> QED
    BY <2>1, <2>2, KeyBounds
<1> DEFINE p     == under[r].of
           plain == At("saved", p, under[r].row)
           job   == [plain EXCEPT !.nth = commits + 1]
<1>j. /\ job \in ModelJobs /\ job.at = "saved" /\ job.of = p /\ job.nth = commits + 1 /\ job.by = 0
      /\ job.row = under[r].row
  <2>1. plain \in ModelJobs /\ plain.at = "saved" /\ plain.of = p /\ plain.by = 0
        /\ plain.row = under[r].row
    BY <1>o, PlainJob
  <2> HIDE DEF plain, p
  <2> QED
    BY <2>1, <1>u, JobWithNth
<1>s. /\ active' = [active EXCEPT ![p] = under[r].key]
      /\ models' = SaveModelProfile(models, p, under[r].row) /\ commits' = commits + 1
      /\ under' = [under EXCEPT ![r] = job]
      /\ UNCHANGED <<outpaced, routes, vault, vaultFile, vaultWrites, shown, asks, troubles, broken,
                     astray, turn>>
  BY DEF SaveKeyed
<1> HIDE DEF plain, job
<1>1. /\ under' \in [Requests -> ModelJobs] /\ \A q \in Requests \ {r} : under'[q] = under[q]
      /\ under'[r] = job
  BY <1>j, <1>s, <1>u
<1>a. /\ active' \in KeyStores /\ active'[p] # NoKey
      /\ \A q \in Profiles \ {p} : active'[q] = active[q]
  BY <1>o, <1>s, <1>u DEF KeyStores, KeyOrNone
<1>m. /\ models' \in [Profiles -> ModelRow]
      /\ \A q \in Profiles \ {p} : Managed(q)' => Managed(q)
  <2>1. /\ SaveModelProfile(models, p, under[r].row) \in [Profiles -> ModelRow]
        /\ \A q \in Profiles : SaveModelProfile(models, p, under[r].row)[q].key =
                                 IF q = p THEN under[r].row.key ELSE models[q].key
    BY <1>o, <1>u, SavedRows, ZenonT(60)
  <2> QED
    BY <1>s, <2>1 DEF Managed
<1>3. ModelRowsTyped'
  <2>1. commits' \in Nat
    BY <1>s, <1>u
  <2> QED
    BY <1>1, <1>a, <1>m, <1>s, <1>u, <2>1 DEF ModelRowsTyped
<1>4. JobsAreOrdered'
  <2>1. vaultWrites <= vaultWrites' /\ vaultFile'.by <= vaultWrites' /\ vaultWrites' \in Nat
    BY <1>s, <1>u
  <2>2. under'[r].at \in ToldPlaces /\ under'[r].at \notin ChangingPlaces
        /\ under'[r].at \notin {"setting", "restoring"}
    BY <1>1, <1>j DEF ToldPlaces, ChangingPlaces
  <2>3. under'[r].by = 0 /\ under'[r].nth # 0
    BY <1>1, <1>j, <1>u
  <2> QED
    BY <1>1, <2>1, <2>2, <2>3, JobsMove
<1>5. under'[r].by = 0 /\ \A q \in Profiles : ~Changes(r, q)'
  BY <1>1, <1>j DEF Changes, ChangingPlaces
<1>6. \A q \in Profiles : Changes(r, q) <=> q = p
  BY <1>o DEF Changes, ChangingPlaces
<1>7. ASSUME NEW q \in Profiles \ (broken' \cup Dropped'), Changes(r, q), Managed(q)'
      PROVE  vault'[q] # NoKey /\ active'[q] # NoKey
             /\ HasSince(under', vaultFile', outpaced', q, vaultFile'.by)
  <2>1. q = p /\ q \notin broken
    BY <1>6, <1>7, <1>s
  <2>2. vault[q] # NoKey /\ HasSince(under, vaultFile, outpaced, q, vaultFile.by)
    BY <1>7, <1>o, <2>1, KeysTyped DEF ChangesStand
  <2>3. HasSince(under', vaultFile', outpaced', q, vaultFile.by)
    BY <1>1, <1>5, <1>s, <2>2, TextsKeep
  <2> QED
    BY <1>a, <1>s, <2>1, <2>2, <2>3
<1>8. KeysInv'
  BY <1>1, <1>3, <1>4, <1>5, <1>6, <1>7, <1>a, <1>m, <1>s, KeysMove
<1> QED
  BY <1>1, <1>8, <1>j

\* The row is refused.
LEMMA RefuseKeyedHolds ==
  ASSUME KeysInv, NEW r \in Requests, RefuseKeyed(r)
  PROVE  KeysInv' /\ under'[r].nth = 0 /\ \A q \in Requests \ {r} : under'[q] = under[q]
<1>u. /\ ModelRowsTyped /\ vaultWrites \in Nat /\ under \in [Requests -> ModelJobs] /\ OneChange
      /\ vaultFile.by \in Nat /\ vaultFile.by <= vaultWrites /\ active \in KeyStores
      /\ vault \in KeyStores
  BY KeysTyped
<1>o. /\ under[r].at = "setting" /\ under[r].by = 0 /\ under[r].of \in Profiles
      /\ under[r].key \in ApiKeys /\ under[r].key # NoKey /\ under[r].key \in KeyOrNone
      /\ under[r].had \in KeyOrNone
  <2>1. under[r].at = "setting" /\ under[r].by = 0 /\ under[r].of \in Profiles
        /\ under[r].key \in ApiKeys
    BY KeysTyped DEF RefuseKeyed, Kept, Waiting, JobsAreOrdered, ChangingPlaces
  <2>2. under[r].had \in KeyOrNone
    BY <1>u DEF ModelJobs
  <2> QED
    BY <2>1, <2>2, KeyBounds
<1> DEFINE p == under[r].of
<1>s. UNCHANGED <<outpaced, models, routes, vaultFile, shown, asks, commits, troubles, broken, astray, turn>>
  BY DEF RefuseKeyed
<1>6. \A q \in Profiles : Changes(r, q) <=> q = p
  BY <1>o DEF Changes, ChangingPlaces
<1>m. \A q \in Profiles : Managed(q)' <=> Managed(q)
  BY <1>s DEF Managed
<1>c. ASSUME p \notin broken
      PROVE  /\ Managed(p) => under[r].had # NoKey
             /\ HasSince(under, vaultFile, outpaced, p, vaultFile.by)
  BY <1>6, <1>c, <1>o, KeysTyped DEF ChangesStand
<1>7. CASE under[r].had # NoKey
  <2> DEFINE plain == At("restoring", p, Absent)
             job   == [plain EXCEPT !.key = under[r].had]
             keys  == [vault EXCEPT ![p] = under[r].had]
  <2>a. under[r].had \in ApiKeys
    BY <1>7, <1>o DEF KeyOrNone
  <2>1. /\ job \in ModelJobs /\ job.at = "restoring" /\ job.of = p /\ job.nth = 0
        /\ job.key = under[r].had
    <3>1. plain \in ModelJobs /\ plain.at = "restoring" /\ plain.of = p /\ plain.nth = 0
      BY <1>o, EmptyJob, PlainJob DEF ChangingPlaces
    <3> HIDE DEF plain
    <3> QED
      BY <1>o, <3>1, JobWithKey
  <2>2. keys \in KeyStores /\ keys[p] = under[r].had /\ \A q \in Profiles \ {p} : keys[q] = vault[q]
    BY <1>o, <1>u DEF KeyStores, KeyOrNone
  <2>3. Persisting(r, job, keys) /\ active' = [active EXCEPT ![p] = under[r].key]
    BY <1>7 DEF RefuseKeyed, EarlierKey
  <2> HIDE DEF plain, job, keys
  <2>4. /\ under' \in [Requests -> ModelJobs] /\ vault' \in KeyStores /\ vaultWrites' \in Nat
        /\ \A q \in Requests \ {r} : under'[q] = under[q]
        /\ vault' = keys /\ vaultWrites' = vaultWrites + 1
        /\ under'[r].by = vaultWrites + 1 /\ under'[r].keys = vault'
        /\ under'[r].at = "restoring" /\ under'[r].of = p /\ under'[r].key = under[r].had
        /\ under'[r].nth = 0
    BY <1>u, <2>1, <2>2, <2>3, WriteBegins
  <2>5. /\ active' \in KeyStores /\ active'[p] # NoKey
        /\ \A q \in Profiles \ {p} : active'[q] = active[q]
    BY <1>o, <1>u, <2>3 DEF KeyStores, KeyOrNone
  <2>6. ModelRowsTyped'
    BY <1>s, <1>u, <2>4, <2>5 DEF ModelRowsTyped
  <2>7. JobsAreOrdered'
    <3>1. vaultWrites <= vaultWrites' /\ vaultFile'.by <= vaultWrites' /\ vaultWrites' \in Nat
      BY <1>s, <1>u, <2>4
    <3>2. under'[r].at \notin ToldPlaces /\ under'[r].at \in ChangingPlaces
      BY <2>4 DEF ToldPlaces, ChangingPlaces
    <3>3. under'[r].of \in Profiles /\ under'[r].key \in ApiKeys
      BY <1>o, <2>4, <2>a
    <3> QED
      BY <2>4, <3>1, <3>2, <3>3, JobsMove
  <2>8. \A q \in Profiles : Changes(r, q)' <=> q = p
    BY <2>4 DEF Changes, ChangingPlaces
  <2>9. ASSUME NEW q \in Profiles \ broken', q = p
        PROVE  vault'[q] # NoKey /\ active'[q] # NoKey
               /\ HasSince(under', vaultFile', outpaced', q, vaultFile'.by)
    <3>1. vault'[q] # NoKey /\ HasSince(under, vaultFile, outpaced, q, vaultFile.by)
      BY <1>7, <1>c, <1>s, <2>2, <2>4, <2>9
    <3>2. HasSince(under', vaultFile', outpaced', q, vaultFile.by)
      BY <1>s, <2>4, <3>1, TextsKeep
    <3> QED
      BY <1>s, <2>5, <2>9, <3>1, <3>2
  <2>10. KeysInv'
    BY <1>6, <1>m, <1>s, <2>2, <2>4, <2>5, <2>6, <2>7, <2>8, <2>9, KeysMove
  <2> QED
    BY <2>4, <2>10
<1>8. CASE under[r].had = NoKey
  <2> DEFINE job == At("undoing", p, Absent)
  <2>1. job \in ModelJobs /\ job.at = "undoing" /\ job.of = p /\ job.nth = 0 /\ job.by = 0
    BY <1>o, EmptyJob, PlainJob DEF ChangingPlaces
  <2>2. Forget(r, p, job)
    BY <1>8 DEF RefuseKeyed, EarlierKey
  <2> HIDE DEF job
  <2>3. /\ under' \in [Requests -> ModelJobs] /\ vault' \in KeyStores /\ active' \in KeyStores
        /\ vaultWrites' \in Nat /\ vaultWrites <= vaultWrites'
        /\ \A q \in Requests \ {r} : under'[q] = under[q]
        /\ \A q \in Profiles \ {p} : vault'[q] = vault[q] /\ active'[q] = active[q]
        /\ \/ under'[r].by = 0
           \/ /\ under'[r].by = vaultWrites + 1 /\ under'[r].keys = vault'
              /\ vaultWrites' = vaultWrites + 1
        /\ under'[r].of = p /\ under'[r].nth = 0 /\ under'[r].at = "undoing"
    BY <1>o, <1>u, <2>1, <2>2, KeyForgotten
  <2>4. ModelRowsTyped'
    BY <1>s, <1>u, <2>3 DEF ModelRowsTyped
  <2>5. JobsAreOrdered'
    <3>1. vaultFile'.by <= vaultWrites'
      BY <1>s, <1>u, <2>3
    <3>2. under'[r].at \notin ToldPlaces /\ under'[r].at \in ChangingPlaces
          /\ under'[r].at \notin {"setting", "restoring"}
      BY <2>3 DEF ToldPlaces, ChangingPlaces
    <3>3. under'[r].of \in Profiles
      BY <1>o, <2>3
    <3> QED
      BY <2>3, <3>1, <3>2, <3>3, JobsMove
  <2>6. \A q \in Profiles : Changes(r, q)' <=> q = p
    BY <2>3 DEF Changes, ChangingPlaces
  <2>7. \A q \in Profiles : q = p /\ q \notin broken' => ~Managed(q)'
    BY <1>8, <1>c, <1>m, <1>o, <1>s
  <2>8. KeysInv'
    BY <1>6, <1>m, <1>s, <2>3, <2>4, <2>5, <2>6, <2>7, KeysMove
  <2> QED
    BY <2>3, <2>8
<1> QED
  BY <1>7, <1>8

\* The row is deleted.
LEMMA DeleteRowHolds ==
  ASSUME KeysInv, NEW r \in Requests, DeleteRow(r)
  PROVE  /\ KeysInv' /\ \A q \in Requests \ {r} : under'[q] = under[q]
         /\ \/ under'[r].nth = 0 /\ UNCHANGED <<models, routes, commits>>
            \/ /\ under'[r].at = "deleted" /\ under'[r].nth = commits + 1 /\ commits' = commits + 1
               /\ under'[r].lists = [rows |-> models', routes |-> routes']
         /\ [rows |-> models', routes |-> routes'] \in Listing
<1>u. /\ ModelRowsTyped /\ vaultWrites \in Nat /\ under \in [Requests -> ModelJobs]
      /\ vaultFile.by \in Nat /\ vaultFile.by <= vaultWrites
      /\ commits \in Nat /\ commits + 1 \in Nat /\ commits + 1 # 0
      /\ models \in [Profiles -> ModelRow] /\ routes \in [Scopes -> Profiles \cup {NoProfile}]
  BY KeysTyped
<1>o. under[r].at = "dropping" /\ under[r].by = 0 /\ under[r].of \in Profiles
  BY KeysTyped DEF DeleteRow, Kept, Waiting, JobsAreOrdered, ChangingPlaces
<1>p. PICK p \in Profiles : p = under[r].of
  BY <1>o
<1>s. UNCHANGED <<outpaced, vault, active, vaultFile, vaultWrites, shown, asks, troubles, broken, astray,
                  turn>>
  BY DEF DeleteRow
<1>1. /\ under' \in [Requests -> ModelJobs] /\ \A q \in Requests \ {r} : under'[q] = under[q]
      /\ models' \in [Profiles -> ModelRow] /\ routes' \in [Scopes -> Profiles \cup {NoProfile}]
      /\ commits' \in Nat /\ under'[r].by = 0
      /\ \A q \in Profiles \ {p} : Managed(q)' => Managed(q)
      /\ ~Managed(p)'
      /\ \/ under'[r].nth = 0 /\ under'[r].at = "free" /\ UNCHANGED <<models, routes, commits>>
         \/ /\ under'[r].at = "deleted" /\ under'[r].nth = commits + 1 /\ commits' = commits + 1
            /\ under'[r].lists = [rows |-> models', routes |-> routes']
  <2>1. CASE models[p].key = "absent"
    <3>1. under' = [under EXCEPT ![r] = NoRequest] /\ UNCHANGED <<models, routes, commits>>
      BY <1>p, <2>1 DEF DeleteRow
    <3>2. \A q \in Profiles : (Managed(q)' <=> Managed(q)) /\ ~Managed(p)
      BY <2>1, <3>1 DEF Managed
    <3> QED
      BY <1>u, <3>1, <3>2, EmptyJob
  <2>2. CASE models[p].key # "absent"
    <3> DEFINE plain == At("deleted", p, Absent)
               mid   == [plain EXCEPT !.nth = commits + 1]
               job   == [mid EXCEPT !.lists = [rows |-> models', routes |-> routes']]
    <3>1. /\ models' = DeleteModelProfile(models, p) /\ routes' = Unrouted(routes, p)
          /\ commits' = commits + 1
          /\ under' = [under EXCEPT ![r] = [plain EXCEPT
                !.nth = commits + 1, !.lists = [rows |-> models', routes |-> routes']]]
      BY <1>p, <2>2 DEF DeleteRow
    <3>2. /\ DeleteModelProfile(models, p) \in [Profiles -> ModelRow]
          /\ \A q \in Profiles : DeleteModelProfile(models, p)[q].key =
                                   IF q = p THEN "absent" ELSE models[q].key
      BY <1>u, DeletedRows
    <3>3. routes' \in [Scopes -> Profiles \cup {NoProfile}]
      BY <1>u, <3>1 DEF Unrouted
    <3>4. [rows |-> models', routes |-> routes'] \in Listing
      BY <3>1, <3>2, <3>3 DEF Listing
    <3>5. plain \in ModelJobs /\ plain.at = "deleted" /\ plain.by = 0
      BY EmptyJob, PlainJob
    <3>6. job = [plain EXCEPT !.nth = commits + 1, !.lists = [rows |-> models', routes |-> routes']]
      <4> HIDE DEF plain
      <4> QED
        BY <3>5 DEF ModelJobs
    <3> HIDE DEF plain
    <3>7. mid \in ModelJobs /\ mid.at = "deleted" /\ mid.by = 0 /\ mid.nth = commits + 1
      BY <3>5, <1>u, JobWithNth
    <3> HIDE DEF mid
    <3>8. /\ job \in ModelJobs /\ job.at = "deleted" /\ job.by = 0 /\ job.nth = commits + 1
          /\ job.lists = [rows |-> models', routes |-> routes']
      BY <3>4, <3>7, JobWithLists
    <3>9. under' = [under EXCEPT ![r] = job]
      BY <3>1, <3>6
    <3> HIDE DEF job
    <3>10. \A q \in Profiles : (q = p => ~Managed(q)') /\ (q # p => (Managed(q)' => Managed(q)))
      BY <3>1, <3>2 DEF Managed
    <3>11. /\ under' \in [Requests -> ModelJobs] /\ \A q \in Requests \ {r} : under'[q] = under[q]
           /\ under'[r] = job
      BY <1>u, <3>8, <3>9
    <3>12. models' \in [Profiles -> ModelRow] /\ commits' \in Nat
      BY <1>u, <3>1, <3>2
    <3> QED
      BY <3>1, <3>3, <3>8, <3>10, <3>11, <3>12
  <2> QED
    BY <2>1, <2>2
<1>3. ModelRowsTyped'
  BY <1>1, <1>s, <1>u DEF ModelRowsTyped
<1>4. JobsAreOrdered'
  <2>1. vaultWrites <= vaultWrites' /\ vaultFile'.by <= vaultWrites' /\ vaultWrites' \in Nat
    BY <1>s, <1>u
  <2>2. /\ under'[r].at \notin ChangingPlaces /\ under'[r].at \notin {"setting", "restoring"}
        /\ (under'[r].nth # 0 <=> under'[r].at \in ToldPlaces)
    BY <1>1, <1>u DEF ToldPlaces, ChangingPlaces
  <2> QED
    BY <1>1, <2>1, <2>2, JobsMove
<1>5. \A q \in Profiles : ~Changes(r, q)'
  BY <1>1 DEF Changes, ChangingPlaces
<1>6. \A q \in Profiles : Changes(r, q) <=> q = p
  BY <1>o, <1>p DEF Changes, ChangingPlaces
<1>7. KeysInv'
  BY <1>1, <1>3, <1>4, <1>5, <1>6, <1>s, KeysMove
<1>8. [rows |-> models', routes |-> routes'] \in Listing
  BY <1>1 DEF Listing
<1> QED
  BY <1>1, <1>7, <1>8

\* A text is renamed into its place: the file never has less than it had, and
\* what one knew of the texts from some write on stays true.
LEMMA RenameHolds ==
  ASSUME KeysInv, NEW r \in Requests, Rename(r)
  PROVE  /\ KeysInv' /\ \A q \in Requests \ {r} : under'[q] = under[q]
         /\ under'[r] = [under[r] EXCEPT !.by = 0, !.keys = NoRequest.keys]
<1>u. /\ ModelRowsTyped /\ vaultWrites \in Nat /\ under \in [Requests -> ModelJobs] /\ OneChange
      /\ vaultFile \in [keys : KeyStores, by : Nat] /\ vaultFile.by \in Nat
      /\ vaultFile.by <= vaultWrites /\ JobsAreOrdered
      /\ \A q \in Requests : under[q].by \in Nat /\ under[q].by <= vaultWrites
  BY KeysTyped
<1>s. /\ under[r].by # 0
      /\ vaultFile' = [keys |-> under[r].keys,
                       by |-> IF under[r].by < vaultFile.by THEN vaultFile.by ELSE under[r].by]
      /\ outpaced' = (under[r].by < vaultFile.by)
      /\ under' = [under EXCEPT ![r].by = 0, ![r].keys = NoRequest.keys]
      /\ UNCHANGED <<models, routes, vault, active, vaultWrites, shown, asks, commits, troubles,
                     broken, astray, turn>>
  BY DEF Rename, Waiting
<1> DEFINE mid == [under[r] EXCEPT !.by = 0]
           job == [mid EXCEPT !.keys = NoRequest.keys]
<1>1. under[r] \in ModelJobs /\ NoRequest.keys \in KeyStores
  BY <1>u, EmptyJob DEF ModelJobs
<1>2. /\ mid \in ModelJobs /\ mid.by = 0 /\ mid.at = under[r].at /\ mid.of = under[r].of
      /\ mid.key = under[r].key /\ mid.had = under[r].had /\ mid.nth = under[r].nth
      /\ mid.row = under[r].row /\ mid.scope = under[r].scope /\ mid.lists = under[r].lists
  BY <1>1 DEF ModelJobs
<1>3. job = [under[r] EXCEPT !.by = 0, !.keys = NoRequest.keys]
  BY <1>1 DEF ModelJobs
<1>4. /\ \A q \in Requests \ {r} : under'[q] = under[q]
      /\ under'[r] = [under[r] EXCEPT !.by = 0, !.keys = NoRequest.keys]
      /\ under' = [under EXCEPT ![r] = [under[r] EXCEPT !.by = 0, !.keys = NoRequest.keys]]
  BY <1>s, <1>u
<1> HIDE DEF mid
<1>5. /\ job \in ModelJobs /\ job.by = 0 /\ job.at = under[r].at /\ job.of = under[r].of
      /\ job.key = under[r].key /\ job.had = under[r].had /\ job.nth = under[r].nth
  BY <1>1, <1>2 DEF ModelJobs
<1>6. under' = [under EXCEPT ![r] = job] /\ under'[r] = job
  BY <1>3, <1>4, <1>u
<1> HIDE DEF job
<1>7. under' \in [Requests -> ModelJobs]
  BY <1>5, <1>6, <1>u
<1>8. /\ vaultFile' \in [keys : KeyStores, by : Nat] /\ vaultFile'.by <= vaultWrites'
      /\ vaultFile.by <= vaultFile'.by /\ under[r].by <= vaultFile'.by
      /\ vaultFile'.by \in Nat
  <2>1. under[r].keys \in KeyStores
    BY <1>1 DEF ModelJobs
  <2> QED
    BY <1>s, <1>u, <2>1
<1>9. ModelRowsTyped'
  BY <1>7, <1>8, <1>s, <1>u DEF ModelRowsTyped
<1>10. JobsAreOrdered'
  <2>1. vaultWrites <= vaultWrites' /\ vaultWrites' \in Nat
    BY <1>s, <1>u
  <2>2. /\ under'[r].at \in ChangingPlaces => under'[r].of \in Profiles
        /\ under'[r].at \in {"setting", "restoring"} => under'[r].key \in ApiKeys
        /\ (under'[r].nth # 0 <=> under'[r].at \in ToldPlaces)
    BY <1>5, <1>6, <1>u DEF JobsAreOrdered
  <2>3. under'[r].by = 0
    BY <1>5, <1>6
  <2> QED
    BY <1>4, <1>7, <1>8, <2>1, <2>2, <2>3, JobsMove
<1>11. ASSUME NEW p \in Profiles, NEW n \in Nat, HasSince(under, vaultFile, outpaced, p, n)
       PROVE  HasSince(under', vaultFile', outpaced', p, n)
  <2>1. \A w \in Requests : under'[w].by # 0 /\ n <= under'[w].by => under'[w].keys[p] # NoKey
    BY <1>4, <1>5, <1>6, <1>11 DEF HasSince
  <2>2. ASSUME n <= vaultFile'.by, ~outpaced'
        PROVE  vaultFile'.keys[p] # NoKey
    <3>1. vaultFile'.by = under[r].by /\ vaultFile'.keys = under[r].keys
      BY <1>s, <1>u, <2>2
    <3> QED
      BY <1>11, <1>s, <2>2, <3>1 DEF HasSince
  <2> QED
    BY <2>1, <2>2 DEF HasSince
<1>12. ASSUME NEW p \in Profiles, NEW n \in Nat, NEW m \in Nat, n <= m,
              HasSince(under', vaultFile', outpaced', p, n)
       PROVE  HasSince(under', vaultFile', outpaced', p, m)
  <2>1. \A w \in Requests : under'[w].by \in Nat
    BY <1>7 DEF ModelJobs
  <2>2. ASSUME NEW w \in Requests, under'[w].by # 0, m <= under'[w].by
        PROVE  under'[w].keys[p] # NoKey
    <3>1. n <= under'[w].by
      BY <1>12, <2>1, <2>2
    <3> QED
      BY <1>12, <2>2, <3>1 DEF HasSince
  <2>3. ASSUME m <= vaultFile'.by, ~outpaced'
        PROVE  vaultFile'.keys[p] # NoKey
    <3>1. n <= vaultFile'.by
      BY <1>8, <1>12, <2>3
    <3> QED
      BY <1>12, <2>3, <3>1 DEF HasSince
  <2> QED
    BY <2>2, <2>3 DEF HasSince
<1>13. ASSUME NEW p \in Profiles, NEW n \in Nat, n <= vaultFile'.by,
              HasSince(under, vaultFile, outpaced, p, n)
       PROVE  HasSince(under', vaultFile', outpaced', p, vaultFile'.by)
  BY <1>8, <1>11, <1>12, <1>13
<1>14. \A q \in Requests, p \in Profiles : Changes(q, p)' <=> Changes(q, p)
  BY <1>4, <1>5, <1>6 DEF Changes
<1>15. \A p \in Profiles : (Managed(p)' <=> Managed(p)) /\ (p \in Dropped' <=> p \in Dropped)
  BY <1>4, <1>5, <1>6, <1>s DEF Managed, Dropped
<1>16. OneChange'
  <2> SUFFICES ASSUME NEW p \in Profiles \ broken', NEW q \in Requests, NEW w \in Requests,
                      Changes(q, p)', Changes(w, p)'
               PROVE  q = w
    BY DEF OneChange
  <2> QED
    BY <1>14, <1>s, <1>u DEF OneChange
<1>17. ChangesStand'
  <2> SUFFICES ASSUME NEW p \in Profiles, p \notin broken', NEW q \in Requests, Changes(q, p)'
               PROVE  /\ under'[q].at = "setting" =>
                           /\ vault'[p] # NoKey
                           /\ Managed(p)' => under'[q].had # NoKey
                           /\ under'[q].by # 0 => HasSince(under', vaultFile', outpaced', p, under'[q].by)
                           /\ under'[q].by = 0 => HasSince(under', vaultFile', outpaced', p, vaultFile'.by)
                      /\ under'[q].at \in {"undoing", "closing"} => ~Managed(p)'
    BY DEF ChangesStand, HasSince
  <2>1. /\ under[q].at = "setting" =>
             /\ vault[p] # NoKey
             /\ Managed(p) => under[q].had # NoKey
             /\ under[q].by # 0 => HasSince(under, vaultFile, outpaced, p, under[q].by)
             /\ under[q].by = 0 => HasSince(under, vaultFile, outpaced, p, vaultFile.by)
        /\ under[q].at \in {"undoing", "closing"} => ~Managed(p)
    BY <1>14, <1>s, KeysTyped DEF ChangesStand
  <2>2. under'[q].at = under[q].at /\ under'[q].had = under[q].had
    BY <1>4, <1>5, <1>6
  <2>3. ASSUME under[q].at = "setting", under'[q].by = 0
        PROVE  HasSince(under', vaultFile', outpaced', p, vaultFile'.by)
    <3>1. CASE q = r
      BY <1>8, <1>13, <1>s, <1>u, <2>1, <2>3, <3>1
    <3>2. CASE q # r
      BY <1>4, <1>8, <1>13, <1>u, <2>1, <2>3, <3>2
    <3> QED
      BY <3>1, <3>2
  <2>4. ASSUME under[q].at = "setting", under'[q].by # 0
        PROVE  HasSince(under', vaultFile', outpaced', p, under'[q].by)
    <3>1. q # r
      BY <1>5, <1>6, <2>4
    <3>2. under'[q] = under[q] /\ under[q].by \in Nat
      BY <1>4, <1>u, <3>1
    <3> QED
      BY <1>11, <2>1, <2>4, <3>2
  <2> QED
    BY <1>15, <1>s, <2>1, <2>2, <2>3, <2>4
<1>18. ASSUME NEW p \in Profiles, p \notin broken' \cup Dropped', Managed(p)'
       PROVE  vault'[p] # NoKey /\ active'[p] # NoKey
              /\ HasSince(under', vaultFile', outpaced', p, vaultFile'.by)
  <2>1. p \notin broken \cup Dropped /\ Managed(p)
    BY <1>15, <1>18, <1>s
  <2>2. vault[p] # NoKey /\ active[p] # NoKey /\ HasSince(under, vaultFile, outpaced, p, vaultFile.by)
    BY <2>1, KeysTyped DEF KeysStand, FileHasKeys, Managed
  <2> QED
    BY <1>8, <1>13, <1>s, <1>u, <2>2
<1>19. KeysStand' /\ FileHasKeys'
  BY <1>18 DEF KeysStand, FileHasKeys, Managed, HasSince
<1> QED
  BY <1>4, <1>9, <1>10, <1>16, <1>17, <1>19 DEF KeysInv

\* The server dies: the next one has the keys of the file.
LEMMA DieWithKeysHolds ==
  ASSUME KeysInv, DieWithKeys
  PROVE  KeysInv'
<1>u. /\ ModelRowsTyped /\ under \in [Requests -> ModelJobs] /\ broken \subseteq Profiles
      /\ vaultFile \in [keys : KeyStores, by : Nat] /\ outpaced \in BOOLEAN /\ astray \in BOOLEAN
      /\ troubles \in 0 .. MaxTroubles /\ MaxTroubles \in Nat /\ Dropped \subseteq Profiles
      /\ vaultFile.by \in Nat
  BY KeysTyped DEF ModelRowsTyped, Dropped
<1>s. /\ troubles < MaxTroubles /\ troubles' = troubles + 1
      /\ vault' = vaultFile.keys /\ active' = vaultFile.keys
      /\ vaultFile' = [vaultFile EXCEPT !.by = 0] /\ vaultWrites' = 0 /\ outpaced' = FALSE
      /\ under' = [r \in Requests |-> NoRequest]
      /\ broken' = broken \cup Dropped \cup (IF outpaced THEN Profiles ELSE {})
      /\ astray' = (astray \/ \E r \in Requests : under[r].nth # 0)
      /\ UNCHANGED <<models, routes, shown, asks, commits, turn>>
  BY DEF DieWithKeys
<1>1. /\ under' \in [Requests -> ModelJobs]
      /\ \A r \in Requests : under'[r].at = "free" /\ under'[r].by = 0 /\ under'[r].nth = 0
  BY <1>s, EmptyJob
<1>2. /\ vaultFile' \in [keys : KeyStores, by : Nat] /\ vaultFile'.by = 0
      /\ vaultFile'.keys = vaultFile.keys /\ vaultFile.keys \in KeyStores
  BY <1>s, <1>u
<1>3. ModelRowsTyped'
  <2>1. broken' \subseteq Profiles /\ astray' \in BOOLEAN /\ troubles' \in 0 .. MaxTroubles
    BY <1>s, <1>u
  <2> QED
    BY <1>1, <1>2, <1>s, <1>u, <2>1 DEF ModelRowsTyped
<1>4. JobsAreOrdered'
  BY <1>1, <1>2, <1>s DEF JobsAreOrdered, ChangingPlaces, ToldPlaces
<1>5. \A r \in Requests, p \in Profiles : ~Changes(r, p)'
  BY <1>1 DEF Changes, ChangingPlaces
<1>6. OneChange'
  <2> SUFFICES ASSUME NEW p \in Profiles \ broken', NEW q \in Requests, NEW w \in Requests,
                      Changes(q, p)', Changes(w, p)'
               PROVE  q = w
    BY DEF OneChange
  <2> QED
    BY <1>5
<1>7. ChangesStand'
  <2> SUFFICES ASSUME NEW p \in Profiles \ broken', NEW q \in Requests, Changes(q, p)'
               PROVE  FALSE
    BY DEF ChangesStand
  <2> QED
    BY <1>5
<1>8. ASSUME NEW p \in Profiles, p \notin broken' \cup Dropped', Managed(p)'
      PROVE  vault'[p] # NoKey /\ active'[p] # NoKey
             /\ HasSince(under', vaultFile', outpaced', p, vaultFile'.by)
  <2>1. p \notin broken /\ p \notin Dropped /\ ~outpaced /\ Managed(p)
    BY <1>8, <1>s DEF Managed
  <2>2. HasSince(under, vaultFile, outpaced, p, vaultFile.by)
    BY <2>1, KeysTyped DEF FileHasKeys
  <2>3. vaultFile.keys[p] # NoKey
    BY <1>u, <2>1, <2>2 DEF HasSince
  <2> QED
    BY <1>1, <1>2, <1>s, <2>3 DEF HasSince
<1>9. KeysStand' /\ FileHasKeys'
  BY <1>8 DEF KeysStand, FileHasKeys, Managed, HasSince
<1> QED
  BY <1>3, <1>4, <1>6, <1>7, <1>9 DEF KeysInv

\* What touches neither the keys nor the requests
LEMMA KeysRest ==
  ASSUME KeysInv, ModelRowsTyped',
         UNCHANGED <<models, vault, active, vaultFile, vaultWrites, outpaced, under, broken>>
  PROVE  KeysInv'
  BY DEF KeysInv, JobsAreOrdered, OneChange, Changes, ChangesStand, KeysStand, FileHasKeys, Dropped,
         Managed, HasSince

-----------------------------------------------------------------------------
(* The page *)

\* Nothing that the page is told changes.
LEMMA PageRests ==
  ASSUME KeysInv, PageFollows, UNCHANGED <<shown, commits, models, routes>>, astray => astray',
         ~astray' => \A q \in Requests :
           /\ under'[q].nth = under[q].nth
           /\ under[q].nth # 0 => \A list : Answered(under'[q], list) = Answered(under[q], list)
  PROVE  PageFollows'
<1> SUFFICES ASSUME ~astray'
             PROVE  \E n \in 0 .. commits', past \in [Nat -> Listing] :
                      /\ past[n] = shown'
                      /\ past[commits'] = [rows |-> models', routes |-> routes']
                      /\ \A m \in n + 1 .. commits' :
                           \E r \in Requests : under'[r].nth = m /\ past[m] = Answered(under'[r], past[m - 1])
                      /\ \A r \in Requests : under'[r].nth # 0 => under'[r].nth \in n + 1 .. commits'
                      /\ \A q, r \in Requests : under'[q].nth = under'[r].nth /\ under'[r].nth # 0 => q = r
  BY DEF PageFollows
<1>1. PICK n \in 0 .. commits, past \in [Nat -> Listing] :
        /\ past[n] = shown
        /\ past[commits] = [rows |-> models, routes |-> routes]
        /\ \A m \in n + 1 .. commits :
             \E r \in Requests : under[r].nth = m /\ past[m] = Answered(under[r], past[m - 1])
        /\ \A r \in Requests : under[r].nth # 0 => under[r].nth \in n + 1 .. commits
        /\ \A q, r \in Requests : under[q].nth = under[r].nth /\ under[r].nth # 0 => q = r
  BY DEF PageFollows
<1>2. ASSUME NEW m \in n + 1 .. commits'
      PROVE  \E r \in Requests : under'[r].nth = m /\ past[m] = Answered(under'[r], past[m - 1])
  <2>1. PICK r \in Requests : under[r].nth = m /\ past[m] = Answered(under[r], past[m - 1])
    BY <1>1
  <2>2. m # 0
    BY KeysTyped
  <2> QED
    BY <2>1, <2>2
<1>3. /\ \A r \in Requests : under'[r].nth # 0 => under'[r].nth \in n + 1 .. commits'
      /\ \A q, r \in Requests : under'[q].nth = under'[r].nth /\ under'[r].nth # 0 => q = r
  BY <1>1
<1> WITNESS n \in 0 .. commits', past \in [Nat -> Listing]
<1> QED
  BY <1>1, <1>2, <1>3

\* The store changes, and a request is to tell the page.
LEMMA PageCommits ==
  ASSUME KeysInv, PageFollows, NEW r \in Requests, UNCHANGED <<shown, astray>>,
         commits' = commits + 1, under[r].nth = 0, under'[r].nth = commits + 1,
         \A q \in Requests \ {r} : under'[q] = under[q],
         [rows |-> models', routes |-> routes'] \in Listing,
         Answered(under'[r], [rows |-> models, routes |-> routes])
           = [rows |-> models', routes |-> routes']
  PROVE  PageFollows'
<1> SUFFICES ASSUME ~astray'
             PROVE  \E n \in 0 .. commits', past \in [Nat -> Listing] :
                      /\ past[n] = shown'
                      /\ past[commits'] = [rows |-> models', routes |-> routes']
                      /\ \A m \in n + 1 .. commits' :
                           \E q \in Requests : under'[q].nth = m /\ past[m] = Answered(under'[q], past[m - 1])
                      /\ \A q \in Requests : under'[q].nth # 0 => under'[q].nth \in n + 1 .. commits'
                      /\ \A p, q \in Requests : under'[p].nth = under'[q].nth /\ under'[q].nth # 0 => p = q
  BY DEF PageFollows
<1>u. commits \in Nat /\ commits' \in Nat
  BY KeysTyped
<1>1. PICK n \in 0 .. commits, past \in [Nat -> Listing] :
        /\ past[n] = shown
        /\ past[commits] = [rows |-> models, routes |-> routes]
        /\ \A m \in n + 1 .. commits :
             \E q \in Requests : under[q].nth = m /\ past[m] = Answered(under[q], past[m - 1])
        /\ \A q \in Requests : under[q].nth # 0 => under[q].nth \in n + 1 .. commits
        /\ \A p, q \in Requests : under[p].nth = under[q].nth /\ under[q].nth # 0 => p = q
  BY DEF PageFollows
<1> DEFINE list == [rows |-> models', routes |-> routes']
           next == [past EXCEPT ![commits + 1] = list]
<1> HIDE DEF list
<1>2. /\ next \in [Nat -> Listing] /\ next[commits + 1] = list
      /\ \A m \in 0 .. commits : next[m] = past[m]
  BY <1>u DEF list
<1> HIDE DEF next
<1>3. ASSUME NEW m \in n + 1 .. commits'
      PROVE  \E q \in Requests : under'[q].nth = m /\ next[m] = Answered(under'[q], next[m - 1])
  <2>1. CASE m = commits + 1
    <3>1. next[m] = list /\ next[m - 1] = past[commits]
      BY <1>2, <1>u, <2>1
    <3> QED
      BY <1>1, <2>1, <3>1 DEF list
  <2>2. CASE m # commits + 1
    <3>1. m \in n + 1 .. commits /\ m # 0 /\ m \in 0 .. commits /\ m - 1 \in 0 .. commits
      BY <1>u, <2>2
    <3>2. PICK q \in Requests : under[q].nth = m /\ past[m] = Answered(under[q], past[m - 1])
      BY <1>1, <3>1
    <3>3. under'[q] = under[q]
      BY <3>1, <3>2
    <3> QED
      BY <1>2, <3>1, <3>2, <3>3
  <2> QED
    BY <2>1, <2>2
<1>4. /\ \A q \in Requests : under'[q].nth # 0 => under'[q].nth \in n + 1 .. commits'
      /\ \A p, q \in Requests : under'[p].nth = under'[q].nth /\ under'[q].nth # 0 => p = q
  <2>1. \A q \in Requests \ {r} : under'[q].nth # 0 => under'[q].nth \in n + 1 .. commits
    BY <1>1
  <2>2. under'[r].nth \in n + 1 .. commits' /\ under'[r].nth \notin n + 1 .. commits
    BY <1>u
  <2>3. \A q \in Requests : under'[q].nth # 0 => under'[q].nth \in n + 1 .. commits'
    BY <1>u, <2>1, <2>2
  <2>4. ASSUME NEW p \in Requests, NEW q \in Requests, under'[p].nth = under'[q].nth, under'[q].nth # 0
        PROVE  p = q
    <3>1. CASE p = r \/ q = r
      BY <2>1, <2>2, <2>4, <3>1
    <3>2. CASE p # r /\ q # r
      BY <1>1, <2>4, <3>2
    <3> QED
      BY <3>1, <3>2
  <2> QED
    BY <2>3, <2>4
<1>5. next[n] = shown' /\ next[commits'] = [rows |-> models', routes |-> routes'] /\ n \in 0 .. commits'
  BY <1>1, <1>2, <1>u DEF list
<1> n \in 0 .. commits' /\ next \in [Nat -> Listing]
  BY <1>2, <1>5
<1> WITNESS n \in 0 .. commits', next \in [Nat -> Listing]
<1> QED
  BY <1>3, <1>4, <1>5

LEMMA StoreSaved ==
  ASSUME models \in [Profiles -> ModelRow], routes \in [Scopes -> Profiles \cup {NoProfile}],
         NEW job, job.at \in {"saved", "closing"}, job.of \in Profiles, job.row \in ModelRow,
         models' = SaveModelProfile(models, job.of, job.row), UNCHANGED routes
  PROVE  /\ [rows |-> models', routes |-> routes'] \in Listing
         /\ Answered(job, [rows |-> models, routes |-> routes]) = [rows |-> models', routes |-> routes']
<1>1. job.row.first \in BOOLEAN /\ \A q \in Profiles : models[q].first \in BOOLEAN
  BY DEF ModelRow
<1>2. ASSUME NEW q \in Profiles
      PROVE  WithSaved(models, job.of, job.row)[q] = SaveModelProfile(models, job.of, job.row)[q]
  <2>1. (models[q].first /\ ~job.row.first) = (IF job.row.first THEN FALSE ELSE models[q].first)
    BY <1>1
  <2> QED
    BY <2>1 DEF WithSaved, SaveModelProfile
<1>3. WithSaved(models, job.of, job.row) = models'
  BY <1>2 DEF WithSaved, SaveModelProfile
<1>4. models' \in [Profiles -> ModelRow]
  BY SavedRows
<1>5. Answered(job, [rows |-> models, routes |-> routes])
        = [[rows |-> models, routes |-> routes] EXCEPT !.rows = WithSaved(@, job.of, job.row)]
  BY DEF Answered
<1> QED
  BY <1>3, <1>4, <1>5 DEF Listing

LEMMA StoreRouted ==
  ASSUME models \in [Profiles -> ModelRow], routes \in [Scopes -> Profiles \cup {NoProfile}],
         NEW job, job.at = "routed", job.of \in Profiles \cup {NoProfile}, job.scope \in Scopes,
         routes' = [routes EXCEPT ![job.scope] = job.of], UNCHANGED models
  PROVE  /\ [rows |-> models', routes |-> routes'] \in Listing
         /\ Answered(job, [rows |-> models, routes |-> routes]) = [rows |-> models', routes |-> routes']
<1>1. Answered(job, [rows |-> models, routes |-> routes])
        = [[rows |-> models, routes |-> routes] EXCEPT !.routes[job.scope] = job.of]
  BY DEF Answered
<1>2. routes' \in [Scopes -> Profiles \cup {NoProfile}]
  OBVIOUS
<1> QED
  BY <1>1, <1>2 DEF Listing

\* The page makes of an answer what the store made of the request; if it is
\* the next one the page is one change less behind.
LEMMA PageShows ==
  ASSUME KeysInv, PageFollows, NEW r \in Requests, ShowSaved(r)
  PROVE  PageFollows'
<1> SUFFICES ASSUME ~astray'
             PROVE  \E n \in 0 .. commits', past \in [Nat -> Listing] :
                      /\ past[n] = shown'
                      /\ past[commits'] = [rows |-> models', routes |-> routes']
                      /\ \A m \in n + 1 .. commits' :
                           \E q \in Requests : under'[q].nth = m /\ past[m] = Answered(under'[q], past[m - 1])
                      /\ \A q \in Requests : under'[q].nth # 0 => under'[q].nth \in n + 1 .. commits'
                      /\ \A p, q \in Requests : under'[p].nth = under'[q].nth /\ under'[q].nth # 0 => p = q
  BY DEF PageFollows
<1>u. /\ commits \in Nat /\ astray \in BOOLEAN /\ under \in [Requests -> ModelJobs]
      /\ shown \in Listing
  BY KeysTyped DEF ModelRowsTyped
<1>s. /\ under[r].at \in {"saved", "deleted", "routed"} /\ ~astray /\ ~Late(r)
      /\ under' = [under EXCEPT ![r] = NoRequest] /\ UNCHANGED <<models, routes, commits>>
  BY <1>u DEF ShowSaved
<1>a. shown' = Answered(under[r], shown)
  <2>1. CASE under[r].at = "saved"
    BY <2>1 DEF ShowSaved, Answered
  <2>2. CASE under[r].at = "deleted"
    BY <2>2 DEF ShowSaved, Answered
  <2>3. CASE under[r].at = "routed"
    BY <2>3 DEF ShowSaved, Answered
  <2> QED
    BY <1>s, <2>1, <2>2, <2>3
<1>t. under[r].nth # 0
  BY <1>s, KeysTyped DEF JobsAreOrdered, ToldPlaces
<1>1. PICK n \in 0 .. commits, past \in [Nat -> Listing] :
        /\ past[n] = shown
        /\ past[commits] = [rows |-> models, routes |-> routes]
        /\ \A m \in n + 1 .. commits :
             \E q \in Requests : under[q].nth = m /\ past[m] = Answered(under[q], past[m - 1])
        /\ \A q \in Requests : under[q].nth # 0 => under[q].nth \in n + 1 .. commits
        /\ \A p, q \in Requests : under[p].nth = under[q].nth /\ under[q].nth # 0 => p = q
  BY <1>s DEF PageFollows
<1>2. under[r].nth \in n + 1 .. commits /\ n + 1 \in n + 1 .. commits
  BY <1>1, <1>t, <1>u
<1>3. PICK w \in Requests : under[w].nth = n + 1 /\ past[n + 1] = Answered(under[w], past[n + 1 - 1])
  BY <1>1, <1>2
<1>4. w = r
  <2>1. under[r].nth # n + 1 => n + 1 < under[r].nth /\ n + 1 # 0
    BY <1>2, <1>u
  <2>2. CASE under[r].nth = n + 1
    BY <1>1, <1>3, <1>t, <2>2
  <2>3. CASE under[r].nth # n + 1
    BY <1>3, <1>s, <2>1, <2>3 DEF Late
  <2> QED
    BY <2>2, <2>3
<1>5. past[n + 1] = shown'
  <2>1. n + 1 - 1 = n
    BY <1>u
  <2> QED
    BY <1>1, <1>3, <1>4, <1>a, <2>1
<1>6. /\ \A q \in Requests \ {r} : under'[q] = under[q]
      /\ under'[r].nth = 0
  BY <1>s, <1>u, EmptyJob
<1>7. ASSUME NEW m \in n + 1 + 1 .. commits'
      PROVE  \E q \in Requests : under'[q].nth = m /\ past[m] = Answered(under'[q], past[m - 1])
  <2>1. m \in n + 1 .. commits /\ m # n + 1
    BY <1>s, <1>u
  <2>2. PICK q \in Requests : under[q].nth = m /\ past[m] = Answered(under[q], past[m - 1])
    BY <1>1, <2>1
  <2>3. q # r
    BY <1>3, <1>4, <2>1, <2>2
  <2> QED
    BY <1>6, <2>2, <2>3
<1>8. ASSUME NEW q \in Requests, under'[q].nth # 0
      PROVE  under'[q].nth \in n + 1 + 1 .. commits'
  <2>1. q # r /\ under'[q] = under[q]
    BY <1>6, <1>8
  <2>2. under[q].nth \in n + 1 .. commits /\ under[q].nth # n + 1
    BY <1>1, <1>3, <1>4, <1>8, <2>1
  <2> QED
    BY <1>s, <1>u, <2>1, <2>2
<1>9. \A p, q \in Requests : under'[p].nth = under'[q].nth /\ under'[q].nth # 0 => p = q
  BY <1>1, <1>6
<1>10. n + 1 \in 0 .. commits' /\ past[commits'] = [rows |-> models', routes |-> routes']
  BY <1>1, <1>2, <1>s, <1>u
<1> n + 1 \in 0 .. commits' /\ past \in [Nat -> Listing]
  BY <1>10
<1> WITNESS n + 1 \in 0 .. commits', past \in [Nat -> Listing]
<1> QED
  BY <1>5, <1>7, <1>8, <1>9, <1>10

LEMMA PageReloads ==
  ASSUME KeysInv, ReloadModels
  PROVE  PageFollows' /\ shown' \in Listing
<1>u. /\ commits \in Nat /\ models \in [Profiles -> ModelRow]
      /\ routes \in [Scopes -> Profiles \cup {NoProfile}]
  BY KeysTyped
<1>1. /\ shown' = [rows |-> models, routes |-> routes]
      /\ UNCHANGED <<models, routes, under, commits>>
      /\ \A r \in Requests : under[r] = NoRequest
  BY DEF ReloadModels
<1>2. shown' \in Listing
  BY <1>1, <1>u DEF Listing
<1> DEFINE past == [n \in Nat |-> shown']
<1>3. past \in [Nat -> Listing] /\ past[commits] = shown'
  BY <1>2, <1>u
<1>4. \A r \in Requests : under'[r].nth = 0
  BY <1>1, EmptyJob
<1>5. commits' \in 0 .. commits' /\ commits' = commits /\ \A m \in commits' + 1 .. commits' : FALSE
  BY <1>1, <1>u
<1> HIDE DEF past
<1>6. \E n \in 0 .. commits', old \in [Nat -> Listing] :
        /\ old[n] = shown'
        /\ old[commits'] = [rows |-> models', routes |-> routes']
        /\ \A m \in n + 1 .. commits' :
             \E q \in Requests : under'[q].nth = m /\ old[m] = Answered(under'[q], old[m - 1])
        /\ \A q \in Requests : under'[q].nth # 0 => under'[q].nth \in n + 1 .. commits'
        /\ \A p, q \in Requests : under'[p].nth = under'[q].nth /\ under'[q].nth # 0 => p = q
  <2> commits' \in 0 .. commits' /\ past \in [Nat -> Listing]
    BY <1>3, <1>5
  <2> WITNESS commits' \in 0 .. commits', past \in [Nat -> Listing]
  <2> QED
    BY <1>1, <1>3, <1>4, <1>5
<1> QED
  BY <1>2, <1>6 DEF PageFollows

-----------------------------------------------------------------------------
LEMMA StepOfModels ==
  ASSUME KeysInv, PageFollows, ModelsNext
  PROVE  KeysInv' /\ PageFollows'
<1>u. /\ ModelRowsTyped /\ under \in [Requests -> ModelJobs]
      /\ models \in [Profiles -> ModelRow] /\ routes \in [Scopes -> Profiles \cup {NoProfile}]
      /\ asks \in 0 .. MaxRequests /\ MaxRequests \in Nat
      /\ \A r \in Requests : under[r].nth # 0 <=> under[r].at \in ToldPlaces
      /\ \A r \in Requests : under[r].by # 0 => under[r].at \in ChangingPlaces
  BY KeysTyped DEF JobsAreOrdered
<1>1. ASSUME NEW r \in Requests, NEW p \in Profiles, NEW first \in BOOLEAN, NEW at \in Addresses,
             NEW k \in ApiKeys, SaveWithKey(r, p, k, first, at)
      PROVE  KeysInv' /\ PageFollows'
  <2>1. KeysInv' /\ under'[r].nth = 0 /\ \A q \in Requests \ {r} : under'[q] = under[q]
    BY <1>1, SaveWithKeyHolds
  <2>2. UNCHANGED <<shown, commits, models, routes, astray>> /\ under[r].nth = 0
    BY <1>1, <1>u DEF SaveWithKey, Begin, ToldPlaces
  <2> QED
    BY <2>1, <2>2, PageRests
<1>2. ASSUME NEW r \in Requests, NEW p \in Profiles, NEW first \in BOOLEAN, NEW at \in Addresses,
             NEW credential \in {"kept", "named", "none"}, SaveWithoutKey(r, p, credential, first, at)
      PROVE  KeysInv' /\ PageFollows'
  <2>1. /\ KeysInv' /\ \A q \in Requests \ {r} : under'[q] = under[q]
        /\ under'[r].at \in {"saved", "closing"} /\ under'[r].nth = commits + 1
        /\ under'[r].of = p /\ under'[r].row \in ModelRow
        /\ models' = SaveModelProfile(models, p, under'[r].row)
    BY <1>2, SaveWithoutKeyHolds
  <2>2. UNCHANGED <<shown, routes, astray>> /\ under[r].nth = 0 /\ commits' = commits + 1
    BY <1>2, <1>u DEF SaveWithoutKey, Begin, ToldPlaces
  <2>3. /\ [rows |-> models', routes |-> routes'] \in Listing
        /\ Answered(under'[r], [rows |-> models, routes |-> routes])
             = [rows |-> models', routes |-> routes']
    BY <1>u, <2>1, <2>2, StoreSaved
  <2> QED
    BY <2>1, <2>2, <2>3, PageCommits
<1>3. ASSUME NEW r \in Requests, NEW p \in Profiles, DeleteProfile(r, p)
      PROVE  KeysInv' /\ PageFollows'
  <2>1. KeysInv' /\ under'[r].nth = 0 /\ \A q \in Requests \ {r} : under'[q] = under[q]
    BY <1>3, DeleteProfileHolds
  <2>2. UNCHANGED <<shown, commits, models, routes, astray>> /\ under[r].nth = 0
    BY <1>3, <1>u DEF DeleteProfile, Begin, ToldPlaces
  <2> QED
    BY <2>1, <2>2, PageRests
<1>4. ASSUME NEW r \in Requests, NEW s \in Assigned, NEW p \in Profiles \cup {NoProfile},
             Assign(r, s, p)
      PROVE  KeysInv' /\ PageFollows'
  <2>1. /\ KeysInv' /\ \A q \in Requests \ {r} : under'[q] = under[q]
        /\ under'[r].at = "routed" /\ under'[r].scope = s /\ under'[r].of = p
        /\ under'[r].nth = commits + 1
    BY <1>4, AssignHolds
  <2>2. /\ UNCHANGED <<shown, models, astray>> /\ under[r].nth = 0 /\ commits' = commits + 1
        /\ routes' = [routes EXCEPT ![s] = p]
    BY <1>4, <1>u DEF Assign, Begin, ToldPlaces
  <2>3. s \in Scopes
    BY ModelsAssumption DEF Scopes
  <2>4. /\ [rows |-> models', routes |-> routes'] \in Listing
        /\ Answered(under'[r], [rows |-> models, routes |-> routes])
             = [rows |-> models', routes |-> routes']
    BY <1>u, <2>1, <2>2, <2>3, StoreRouted
  <2> QED
    BY <2>1, <2>2, <2>4, PageCommits
<1>5. ASSUME NEW r \in Requests, Rename(r)
      PROVE  KeysInv' /\ PageFollows'
  <2>1. /\ KeysInv' /\ \A q \in Requests \ {r} : under'[q] = under[q]
        /\ under'[r] = [under[r] EXCEPT !.by = 0, !.keys = NoRequest.keys]
    BY <1>5, RenameHolds
  <2>2. UNCHANGED <<shown, commits, models, routes, astray>>
    BY <1>5 DEF Rename
  <2>3. under[r] \in ModelJobs
    BY <1>u
  <2>4. /\ under'[r].nth = under[r].nth /\ under'[r].at = under[r].at /\ under'[r].of = under[r].of
        /\ under'[r].row = under[r].row /\ under'[r].scope = under[r].scope
        /\ under'[r].lists = under[r].lists
    BY <2>1, <2>3 DEF ModelJobs
  <2>5. \A list : Answered(under'[r], list) = Answered(under[r], list)
    BY <2>4 DEF Answered
  <2> QED
    BY <2>1, <2>2, <2>4, <2>5, PageRests
<1>6. ASSUME NEW r \in Requests, RenameFails(r)
      PROVE  KeysInv' /\ PageFollows'
  <2>1. KeysInv'
    BY <1>6, RenameFailsHolds
  <2>2. /\ UNCHANGED <<shown, commits, models, routes>> /\ under' = [under EXCEPT ![r] = NoRequest]
        /\ astray' = (astray \/ under[r].at = "closing") /\ under[r].at \in ChangingPlaces
    BY <1>6, <1>u DEF RenameFails, Waiting
  <2>3. under[r].at # "closing" => under[r].nth = 0
    BY <1>u, <2>2 DEF ChangingPlaces, ToldPlaces
  <2>4. /\ \A q \in Requests \ {r} : under'[q] = under[q]
        /\ under'[r].nth = 0
    BY <1>u, <2>2, EmptyJob
  <2> QED
    BY <2>1, <2>2, <2>3, <2>4, PageRests
<1>7. ASSUME NEW r \in Requests, SaveKeyed(r)
      PROVE  KeysInv' /\ PageFollows'
  <2>1. /\ KeysInv' /\ \A q \in Requests \ {r} : under'[q] = under[q]
        /\ under'[r].at = "saved" /\ under'[r].of = under[r].of /\ under'[r].row = under[r].row
        /\ under'[r].nth = commits + 1
    BY <1>7, SaveKeyedHolds
  <2>2. /\ UNCHANGED <<shown, routes, astray>> /\ commits' = commits + 1
        /\ models' = SaveModelProfile(models, under[r].of, under[r].row) /\ under[r].at = "setting"
    BY <1>7 DEF SaveKeyed, Kept
  <2>3. under[r].nth = 0 /\ under[r].row \in ModelRow /\ under[r].of \in Profiles
    BY <1>u, <2>2, KeysTyped DEF ToldPlaces, ModelJobs, JobsAreOrdered, ChangingPlaces
  <2>4. /\ [rows |-> models', routes |-> routes'] \in Listing
        /\ Answered(under'[r], [rows |-> models, routes |-> routes])
             = [rows |-> models', routes |-> routes']
    BY <1>u, <2>1, <2>2, <2>3, StoreSaved
  <2> QED
    BY <2>1, <2>2, <2>3, <2>4, PageCommits
<1>8. ASSUME NEW r \in Requests, RefuseKeyed(r)
      PROVE  KeysInv' /\ PageFollows'
  <2>1. KeysInv' /\ under'[r].nth = 0 /\ \A q \in Requests \ {r} : under'[q] = under[q]
    BY <1>8, RefuseKeyedHolds
  <2>2. UNCHANGED <<shown, commits, models, routes, astray>> /\ under[r].nth = 0
    BY <1>8, <1>u DEF RefuseKeyed, Kept, ToldPlaces
  <2> QED
    BY <2>1, <2>2, PageRests
<1>9. ASSUME NEW r \in Requests, EndRefused(r)
      PROVE  KeysInv' /\ PageFollows'
  <2>1. KeysInv'
    BY <1>9, EndRefusedHolds
  <2>2. /\ UNCHANGED <<shown, commits, models, routes, astray>> /\ under[r].nth = 0
        /\ under' = [under EXCEPT ![r] = NoRequest]
    BY <1>9, <1>u DEF EndRefused, Kept, ToldPlaces
  <2>3. /\ \A q \in Requests \ {r} : under'[q] = under[q]
        /\ under'[r].nth = 0
    BY <1>u, <2>2, EmptyJob
  <2> QED
    BY <2>1, <2>2, <2>3, PageRests
<1>10. ASSUME NEW r \in Requests, EndSaved(r)
       PROVE  KeysInv' /\ PageFollows'
  <2>1. KeysInv' /\ under'[r] = [under[r] EXCEPT !.at = "saved"]
    BY <1>10, EndSavedHolds
  <2>2. /\ UNCHANGED <<shown, commits, models, routes, astray>> /\ under[r].at = "closing"
        /\ \A q \in Requests \ {r} : under'[q] = under[q]
    BY <1>10, <1>u DEF EndSaved, Kept
  <2>3. under[r] \in ModelJobs
    BY <1>u
  <2>4. /\ under'[r].nth = under[r].nth /\ under'[r].at = "saved" /\ under'[r].of = under[r].of
        /\ under'[r].row = under[r].row
    BY <2>1, <2>3 DEF ModelJobs
  <2>5. \A list : Answered(under'[r], list) = Answered(under[r], list)
    BY <2>2, <2>4 DEF Answered
  <2> QED
    BY <2>1, <2>2, <2>4, <2>5, PageRests
<1>11. ASSUME NEW r \in Requests, DeleteRow(r)
       PROVE  KeysInv' /\ PageFollows'
  <2>1. /\ KeysInv' /\ \A q \in Requests \ {r} : under'[q] = under[q]
        /\ \/ under'[r].nth = 0 /\ UNCHANGED <<models, routes, commits>>
           \/ /\ under'[r].at = "deleted" /\ under'[r].nth = commits + 1 /\ commits' = commits + 1
              /\ under'[r].lists = [rows |-> models', routes |-> routes']
        /\ [rows |-> models', routes |-> routes'] \in Listing
    BY <1>11, DeleteRowHolds
  <2>2. UNCHANGED <<shown, astray>> /\ under[r].nth = 0
    BY <1>11, <1>u DEF DeleteRow, Kept, ToldPlaces
  <2>3. CASE under'[r].nth = 0 /\ UNCHANGED <<models, routes, commits>>
    BY <2>1, <2>2, <2>3, PageRests
  <2>4. CASE /\ under'[r].at = "deleted" /\ under'[r].nth = commits + 1 /\ commits' = commits + 1
             /\ under'[r].lists = [rows |-> models', routes |-> routes']
    <3>1. Answered(under'[r], [rows |-> models, routes |-> routes])
            = [rows |-> models', routes |-> routes']
      BY <2>4 DEF Answered
    <3> QED
      BY <2>1, <2>2, <2>4, <3>1, PageCommits
  <2> QED
    BY <2>1, <2>3, <2>4
<1>12. ASSUME NEW r \in Requests, ShowSaved(r)
       PROVE  KeysInv' /\ PageFollows'
  BY <1>12, ShowSavedHolds, PageShows
<1>13. CASE ReloadModels
  <2>1. PageFollows' /\ shown' \in Listing
    BY <1>13, PageReloads
  <2>2. /\ UNCHANGED <<models, routes, vault, active, vaultFile, vaultWrites, outpaced, under, asks, commits,
                       troubles, broken, turn>>
        /\ astray' = FALSE
    BY <1>13 DEF ReloadModels
  <2>3. ModelRowsTyped'
    BY <1>u, <2>1, <2>2 DEF ModelRowsTyped
  <2> QED
    BY <2>1, <2>2, <2>3, KeysRest
<1>14. CASE Ask
  <2>1. /\ UNCHANGED <<models, routes, vault, active, vaultFile, vaultWrites, outpaced, under, shown, commits,
                       troubles, broken, astray>>
        /\ asks < MaxRequests /\ asks' = asks + 1 /\ turn' \in {"asked", "refused"}
    BY <1>14 DEF Ask
  <2>2. ModelRowsTyped'
    <3>1. asks' \in 0 .. MaxRequests
      BY <1>u, <2>1
    <3> QED
      BY <1>u, <2>1, <3>1 DEF ModelRowsTyped
  <2> QED
    BY <2>1, <2>2, KeysRest, PageRests
<1>15. CASE DieWithKeys
  <2>1. KeysInv'
    BY <1>15, DieWithKeysHolds
  <2>2. /\ UNCHANGED <<shown, commits, models, routes>> /\ under' = [r \in Requests |-> NoRequest]
        /\ astray' = (astray \/ \E r \in Requests : under[r].nth # 0)
    BY <1>15 DEF DieWithKeys
  <2>3. \A r \in Requests : under'[r].nth = 0
    BY <2>2, EmptyJob
  <2> QED
    BY <2>1, <2>2, <2>3, PageRests
<1> QED
  BY <1>1, <1>2, <1>3, <1>4, <1>5, <1>6, <1>7, <1>8, <1>9, <1>10, <1>11, <1>12, <1>13, <1>14, <1>15
     DEF ModelsNext

LEMMA ModelsRest ==
  ASSUME KeysInv, PageFollows, UNCHANGED modelVars
  PROVE  KeysInv' /\ PageFollows'
<1>1. UNCHANGED <<models, routes, vault, active, vaultFile, vaultWrites, outpaced, under, shown, asks,
                  commits, troubles, broken, astray, turn>>
  BY DEF modelVars
<1>2. ModelRowsTyped'
  BY <1>1, KeysTyped DEF ModelRowsTyped
<1> QED
  BY <1>1, <1>2, KeysRest, PageRests

\* What a run checks of the models, from what the proof keeps of them
LEMMA KeysHold ==
  ASSUME KeysInv, PageFollows
  PROVE  ModelTypes /\ KeysStand /\ PageAgrees
<1>1. ModelTypes
  <2>1. ModelRowsTyped /\ under \in [Requests -> ModelJobs]
    BY KeysTyped
  <2>2. \A r \in Requests : under[r].at \in
          {"free", "setting", "restoring", "undoing", "dropping", "closing", "deleting",
           "saved", "deleted", "routed"}
    BY <2>1 DEF ModelJobs, ChangingPlaces
  <2> QED
    BY <2>1, <2>2 DEF ModelRowsTyped, ModelTypes
<1>2. PageAgrees
  <2> SUFFICES ASSUME ~astray, \A r \in Requests : under[r].nth = 0
               PROVE  shown = [rows |-> models, routes |-> routes]
    BY DEF PageAgrees
  <2>1. PICK n \in 0 .. commits, past \in [Nat -> Listing] :
          /\ past[n] = shown
          /\ past[commits] = [rows |-> models, routes |-> routes]
          /\ \A m \in n + 1 .. commits :
               \E r \in Requests : under[r].nth = m /\ past[m] = Answered(under[r], past[m - 1])
    BY DEF PageFollows
  <2>2. commits \in Nat
    BY KeysTyped
  <2>3. n = commits
    <3> SUFFICES ASSUME n # commits PROVE FALSE
      OBVIOUS
    <3>1. commits \in n + 1 .. commits /\ commits # 0
      BY <2>2
    <3> QED
      BY <2>1, <3>1
  <2> QED
    BY <2>1, <2>3
<1> QED
  BY <1>1, <1>2, KeysTyped

-----------------------------------------------------------------------------
(* The integrations *)

\* What the vault and the connections may hold, in memory, in a file and in a
\* write under way.
Tags == Orders \cup Invocations
Secret == Tokens \cup {"arguments", NoToken}
Vaults == UNION {[S -> Secret] : S \in SUBSET Tags}
Texts(f) == IF f = "vault" THEN Vaults ELSE Seq(Link)
Writers == Orders \cup {Start} \cup Invocations
DraftOf(f) == [by : Writers, text : Texts(f), old : BOOLEAN]
AllTools == UNION {ToolsAt[e] : e \in Endpoints}
OrderRecords == [place : OrderPlaces, link : Link \cup {NoOrder.link}, was : SUBSET Link,
                 old : Secret, found : SUBSET AllTools, done : BOOLEAN]
Saving == {"token", "link", "untoken", "unlink"}

Ordered(os) ==
    /\ os \in [Orders \cup {Start} -> OrderRecords]
    /\ \A r \in Orders \cup {Start} : os[r].place \in Saving => os[r].link \in Link
CallRows ==
    /\ calls \in [Invocations -> CallPlaces]
    /\ aged \subseteq Invocations
    /\ mislaid \subseteq {"left", "taken"}
    /\ mishaps \in 0 .. MaxMishaps

\* The two files, their writes under way, and the files whose text is not the newest.
Filed(sd, dr, sl) ==
    /\ sd = [f \in Files |-> sd[f]] /\ \A f \in Files : sd[f] \in Texts(f)
    /\ dr = [f \in Files |-> dr[f]] /\ \A f \in Files : dr[f] \in Seq(DraftOf(f))
    /\ sl \subseteq Files

\* The newest of the writes under way has the text of the memory m, or all of them
\* are old and the file holds it, unless an older text landed last.
Follows(f, d, t, st, m) ==
    \/ Len(d) > 0 /\ ~ d[Len(d)].old /\ d[Len(d)].text = m
    \/ (\A i \in 1 .. Len(d) : d[i].old) /\ (f \notin st => t = m)

\* The arguments of a call are in every text that may yet be read back ...
Keeps(c, d, t, st) ==
    /\ \A i \in 1 .. Len(d) : ~ d[i].old => c \in DOMAIN d[i].text
    /\ "vault" \notin st => c \in DOMAIN t

\* ... and, as long as they are being stored, in its own write and the later ones.
Holds(c, d) == \A i, j \in 1 .. Len(d) : d[i].by = c /\ i <= j => c \in DOMAIN d[j].text

\* No write of the vault is this call's.
Unheard(c, d) == \A i \in 1 .. Len(d) : d[i].by # c

VaultStands(s, d, t, st, cs, ag, ml) ==
    /\ ml = {} => /\ Follows("vault", d, t, st, s)
                  /\ \A c \in Invocations : cs[c] \in {"clearing", "settled"} => c \notin DOMAIN s
    /\ \A c \in Invocations : cs[c] = "new" => Unheard(c, d)
    /\ \A c \in Invocations : cs[c] = "storing" => c \in DOMAIN s /\ Holds(c, d)
    /\ \A c \in Invocations \ ag : cs[c] = "parked" /\ "taken" \notin ml
          => c \in DOMAIN s /\ Keeps(c, d, t, st)

\* What may become of the calls when a write lands, begins or fails.
CallsLand(cs, cs2, f, by) ==
    \A c \in Invocations :
       /\ cs2[c] = "new" => cs[c] = "new"
       /\ cs2[c] = "storing" => cs[c] = "storing"
       /\ cs2[c] = "parked" => cs[c] = "parked" \/ (cs[c] = "storing" /\ f = "vault" /\ by = c)
       /\ cs2[c] \in {"clearing", "settled"} => cs[c] \in {"clearing", "settled"}
CallsWrite(cs, cs2, s, s2, by) ==
    \A c \in Invocations :
       /\ cs2[c] = "new" => cs[c] = "new" /\ by # c
       /\ cs2[c] = "storing" => c \in DOMAIN s2 /\ cs[c] \in {"new", "storing"}
       /\ cs2[c] = "parked" => cs[c] = "parked" /\ (c \in DOMAIN s => c \in DOMAIN s2)
       /\ cs2[c] \in {"clearing", "settled"} =>
             c \notin DOMAIN s2 \/ (cs[c] \in {"clearing", "settled"} /\ c \in DOMAIN s)
CallsSpoil(cs, cs2, s, s2) ==
    \A c \in Invocations :
       /\ (c \in DOMAIN s2) <=> (c \in DOMAIN s)
       /\ cs2[c] \in {"new", "storing", "parked"} => cs[c] = cs2[c]

FilesStand(sd, dr, sl, s, lk, cs, ag, ml) ==
    /\ Filed(sd, dr, sl)
    /\ VaultStands(s, dr["vault"], sd["vault"], sl, cs, ag, ml)
    /\ ml = {} => Follows("connections", dr["connections"], sd["connections"], sl, lk)

\* The registry knows the tools of the adapter, or is about to, or a discovery that
\* was given up has published since.
IndexStands(ix, tl, os) ==
    /\ ix = tl \/ \E r \in Orders \cup {Start} : os[r].place = "indexing" \/ os[r].done
    /\ \A r \in Orders \cup {Start} : os[r].done => os[r].place = "over"

MemoryRows == links \in Seq(Link) /\ secrets \in Vaults
ToolRows == tools \in SUBSET AllTools /\ index \in SUBSET AllTools

LinkInv ==
    /\ MemoryRows /\ Ordered(orders) /\ ToolRows /\ CallRows
    /\ FilesStand(stored, drafts, stale, secrets, links, calls, aged, mislaid)
    /\ IndexStands(index, tools, orders)

-----------------------------------------------------------------------------
(* The writes under way of one file *)

\* The list that is left when write i has landed.
Arrival(d, l, i) ==
    /\ Len(l) = Len(d) - 1
    /\ \A j \in 1 .. Len(l) :
          IF j < i THEN l[j].by = d[j].by /\ l[j].text = d[j].text /\ l[j].old ELSE l[j] = d[j + 1]

\* A list of writes without one of them.
LEMMA WithoutRows ==
  ASSUME NEW D, NEW d \in Seq(D), NEW i \in 1 .. Len(d)
  PROVE  /\ Without(d, i) \in Seq(D)
         /\ Len(Without(d, i)) = Len(d) - 1
         /\ \A j \in 1 .. (Len(d) - 1) : Without(d, i)[j] = IF j < i THEN d[j] ELSE d[j + 1]
  BY DEF Without

\* What is left when a write has landed.
LEMMA LandedRows ==
  ASSUME NEW T, NEW d \in Seq([by : Writers, text : T, old : BOOLEAN]), NEW i \in 1 .. Len(d)
  PROVE  Landed(d, i) \in Seq([by : Writers, text : T, old : BOOLEAN]) /\ Arrival(d, Landed(d, i), i)
<1> DEFINE D == [by : Writers, text : T, old : BOOLEAN]
           p == [j \in DOMAIN d |-> [d[j] EXCEPT !.old = @ \/ j < i]]
           l == Landed(d, i)
<1>1. DOMAIN d = 1 .. Len(d) /\ \A j \in 1 .. Len(d) : d[j] \in D
  <2> HIDE DEF D
  <2>1. d \in Seq(D)
    BY DEF D
  <2> QED
    BY <2>1
<1>2. ASSUME NEW j \in 1 .. Len(d)
      PROVE  /\ p[j] \in D /\ p[j].by = d[j].by /\ p[j].text = d[j].text
             /\ j < i => p[j].old = TRUE
             /\ ~ (j < i) => p[j] = d[j]
  <2>1. p[j] = [d[j] EXCEPT !.old = d[j].old \/ j < i]
    BY <1>1, Zenon
  <2>2. d[j] \in D
    BY <1>1
  <2> HIDE DEF p
  <2>3. CASE j < i
    <3>1. p[j] = [d[j] EXCEPT !.old = TRUE]
      BY <2>1, <2>3, Zenon
    <3> HIDE <2>1
    <3> QED
      BY <3>1, <2>2, <2>3
  <2>4. CASE ~ (j < i)
    <3>3. d[j].old \in BOOLEAN
      BY <2>2
    <3>4. (d[j].old \/ j < i) = d[j].old
      BY <3>3, <2>4
    <3>1. p[j] = [d[j] EXCEPT !.old = d[j].old]
      BY <2>1, <3>4, Zenon
    <3> HIDE <2>1
    <3>2. p[j] = d[j]
      BY <3>1, <2>2
    <3> QED
      BY <3>2, <2>2, <2>4
  <2> QED
    BY <2>3, <2>4
<1>4. l = Without(p, i) /\ DOMAIN p = DOMAIN d
  BY Zenon DEF Landed
<1>3. p = [j \in DOMAIN d |-> p[j]]
  BY Zenon
<1> HIDE DEF p, D, l
<1>6. p \in Seq(D) /\ Len(p) = Len(d)
  <2>0. \A j \in 1 .. Len(d) : p[j] \in D
    BY <1>2
  <2>1. p \in [1 .. Len(d) -> D] /\ Len(d) \in Nat
    BY <2>0, <1>1, <1>3
  <2> QED
    BY <2>1
<1>5. l \in Seq(D) /\ Len(l) = Len(d) - 1
      /\ \A j \in 1 .. (Len(d) - 1) : l[j] = IF j < i THEN p[j] ELSE p[j + 1]
  <2>1. i \in 1 .. Len(p)
    BY <1>6
  <2> QED
    BY <1>6, <1>4, <2>1, WithoutRows
<1>7. ASSUME NEW j \in 1 .. Len(l)
      PROVE  IF j < i THEN l[j].by = d[j].by /\ l[j].text = d[j].text /\ l[j].old ELSE l[j] = d[j + 1]
  <2>1. j \in 1 .. Len(d) /\ j + 1 \in 1 .. Len(d)
    BY <1>5
  <2>2. CASE j < i
    <3>1. p[j].by = d[j].by /\ p[j].text = d[j].text /\ p[j].old
      BY <2>1, <2>2, <1>2, Zenon
    <3> QED
      BY <3>1, <2>1, <2>2, <1>5
  <2>3. CASE ~ (j < i)
    <3>1. ~ (j + 1 < i)
      BY <2>3
    <3>2. p[j + 1] = d[j + 1]
      BY <2>1, <3>1, <1>2, Zenon
    <3> QED
      BY <3>2, <2>3, <1>5
  <2> QED
    BY <2>2, <2>3
<1> QED
  BY <1>5, <1>7 DEF Arrival, D, l

\* Another write lands, the file or the writes after it still have the text of the
\* memory.
LEMMA FollowsLands ==
  ASSUME NEW f, NEW d, Len(d) \in Nat, NEW l, NEW t, NEW st, NEW st2, NEW m, NEW i \in 1 .. Len(d),
         Arrival(d, l, i), Follows(f, d, t, st, m), (f \in st2) <=> d[i].old
  PROVE  Follows(f, l, d[i].text, st2, m)
<1>1. CASE Len(d) > 0 /\ ~ d[Len(d)].old /\ d[Len(d)].text = m
  <2>1. CASE i = Len(d)
    BY <1>1, <2>1 DEF Arrival, Follows
  <2>2. CASE i # Len(d)
    <3>1. Len(l) > 0 /\ Len(l) \in 1 .. Len(l) /\ ~ (Len(l) < i) /\ Len(l) + 1 = Len(d)
      BY <2>2 DEF Arrival
    <3>2. l[Len(l)] = d[Len(d)]
      BY <3>1 DEF Arrival
    <3> QED
      BY <1>1, <3>1, <3>2 DEF Follows
  <2> QED
    BY <2>1, <2>2
<1>2. CASE (\A j \in 1 .. Len(d) : d[j].old) /\ (f \notin st => t = m)
  <2>1. \A j \in 1 .. Len(l) : l[j].old
    BY <1>2 DEF Arrival
  <2> QED
    BY <1>2, <2>1 DEF Follows
<1> QED
  BY <1>1, <1>2 DEF Follows

\* The memory is written.
LEMMA FollowsWrites ==
  ASSUME NEW f, NEW D, NEW d \in Seq(D), NEW t, NEW st, NEW m, NEW w, w.text = m, ~ w.old
  PROVE  Follows(f, Append(d, w), t, st, m)
  BY DEF Follows

\* Another write lands, and the arguments of a call are where they were.
LEMMA KeepsLands ==
  ASSUME NEW d, Len(d) \in Nat, NEW l, NEW st2, NEW i \in 1 .. Len(d),
         Arrival(d, l, i), ("vault" \in st2) <=> d[i].old
  PROVE  \A c, t, st : /\ Keeps(c, d, t, st) => Keeps(c, l, d[i].text, st2)
                       /\ Holds(c, d) => Holds(c, l)
                       /\ Holds(c, d) /\ d[i].by = c => Keeps(c, l, d[i].text, st2)
                       /\ Unheard(c, d) => Unheard(c, l)
<1> SUFFICES ASSUME NEW c, NEW t, NEW st
             PROVE  /\ Keeps(c, d, t, st) => Keeps(c, l, d[i].text, st2)
                    /\ Holds(c, d) => Holds(c, l)
                    /\ Holds(c, d) /\ d[i].by = c => Keeps(c, l, d[i].text, st2)
                    /\ Unheard(c, d) => Unheard(c, l)
  OBVIOUS
<1>1. ASSUME NEW j \in 1 .. Len(l)
      PROVE  \/ j < i /\ j \in 1 .. Len(d) /\ l[j].by = d[j].by /\ l[j].text = d[j].text /\ l[j].old
             \/ j >= i /\ j + 1 \in 1 .. Len(d) /\ l[j] = d[j + 1]
  <2>1. Len(l) = Len(d) - 1 /\ j \in Int /\ i \in Int /\ 1 <= j /\ j <= Len(l)
    BY DEF Arrival
  <2>2. CASE j < i
    <3>1. l[j].by = d[j].by /\ l[j].text = d[j].text /\ l[j].old
      BY <2>2 DEF Arrival
    <3> QED
      BY <2>1, <2>2, <3>1
  <2>3. CASE ~ (j < i)
    <3>1. l[j] = d[j + 1]
      BY <2>3 DEF Arrival
    <3> QED
      BY <2>1, <2>3, <3>1
  <2> QED
    BY <2>2, <2>3
<1>2. ASSUME Keeps(c, d, t, st)
      PROVE  Keeps(c, l, d[i].text, st2)
  BY <1>1, <1>2 DEF Keeps
<1>3. ASSUME Holds(c, d), NEW j \in 1 .. Len(l), NEW k \in 1 .. Len(l), l[j].by = c, j <= k
      PROVE  c \in DOMAIN l[k].text
  <2>1. PICK a \in 1 .. Len(d) : d[a].by = c /\ (j < i => a = j) /\ (j >= i => a = j + 1)
    <3>1. CASE j < i
      BY <3>1, <1>1, <1>3
    <3>2. CASE j >= i
      BY <3>2, <1>1, <1>3
    <3>3. j \in Int /\ i \in Int
      OBVIOUS
    <3> QED
      BY <3>1, <3>2, <3>3
  <2>2. PICK b \in 1 .. Len(d) : l[k].text = d[b].text /\ (k < i => b = k) /\ (k >= i => b = k + 1)
    <3>1. CASE k < i
      BY <3>1, <1>1
    <3>2. CASE k >= i
      BY <3>2, <1>1
    <3>3. k \in Int /\ i \in Int
      OBVIOUS
    <3> QED
      BY <3>1, <3>2, <3>3
  <2>3. a <= b
    BY <2>1, <2>2, <1>3
  <2> QED
    BY <2>1, <2>2, <2>3, <1>3 DEF Holds
<1>4. ASSUME Holds(c, d), d[i].by = c
      PROVE  Keeps(c, l, d[i].text, st2)
  <2>1. c \in DOMAIN d[i].text
    BY <1>4 DEF Holds
  <2>2. ASSUME NEW j \in 1 .. Len(l), ~ l[j].old
        PROVE  c \in DOMAIN l[j].text
    <3>1. j >= i /\ j + 1 \in 1 .. Len(d) /\ l[j] = d[j + 1] /\ i <= j + 1
      BY <1>1, <2>2
    <3> QED
      BY <3>1, <1>4 DEF Holds
  <2> QED
    BY <2>1, <2>2 DEF Keeps
<1>5. Unheard(c, d) => Unheard(c, l)
  BY <1>1 DEF Unheard
<1> QED
  BY <1>2, <1>3, <1>4, <1>5 DEF Holds

\* A write that fails takes nothing from the others.
LEMMA KeepsSpoils ==
  ASSUME NEW D, NEW d \in Seq(D), NEW i \in 1 .. Len(d), NEW c, NEW t, NEW st
  PROVE  /\ Keeps(c, d, t, st) => Keeps(c, Without(d, i), t, st)
         /\ Holds(c, d) => Holds(c, Without(d, i))
         /\ Unheard(c, d) => Unheard(c, Without(d, i))
<1> DEFINE l == Without(d, i)
<1>1. Len(l) = Len(d) - 1 /\ \A j \in 1 .. (Len(d) - 1) : l[j] = IF j < i THEN d[j] ELSE d[j + 1]
  BY WithoutRows
<1> HIDE DEF l
<1>2. ASSUME NEW j \in 1 .. Len(l)
      PROVE  (j < i /\ j \in 1 .. Len(d) /\ l[j] = d[j]) \/ (j >= i /\ j + 1 \in 1 .. Len(d) /\ l[j] = d[j + 1])
  BY <1>1
<1>3. ASSUME Keeps(c, d, t, st)
      PROVE  Keeps(c, l, t, st)
  BY <1>2, <1>3 DEF Keeps
<1>4. ASSUME Holds(c, d), NEW j \in 1 .. Len(l), NEW k \in 1 .. Len(l), l[j].by = c, j <= k
      PROVE  c \in DOMAIN l[k].text
  <2>1. PICK a \in 1 .. Len(d) : d[a].by = c /\ (j < i => a = j) /\ (j >= i => a = j + 1)
    BY <1>2, <1>4
  <2>2. PICK b \in 1 .. Len(d) : l[k] = d[b] /\ (k < i => b = k) /\ (k >= i => b = k + 1)
    BY <1>2
  <2>3. a <= b
    BY <2>1, <2>2, <1>4
  <2> QED
    BY <2>1, <2>2, <2>3, <1>4 DEF Holds
<1>5. Unheard(c, d) => Unheard(c, l)
  BY <1>2 DEF Unheard
<1> QED
  BY <1>3, <1>4, <1>5 DEF Holds, l

\* A write begins with the arguments of the call in it.
LEMMA KeepsWrites ==
  ASSUME NEW D, NEW d \in Seq(D), NEW w, NEW c, NEW t, NEW st
  PROVE  /\ Keeps(c, d, t, st) /\ c \in DOMAIN w.text => Keeps(c, Append(d, w), t, st)
         /\ Holds(c, d) /\ c \in DOMAIN w.text => Holds(c, Append(d, w))
         /\ Unheard(c, d) /\ c \in DOMAIN w.text => Holds(c, Append(d, w))
         /\ Unheard(c, d) /\ w.by # c => Unheard(c, Append(d, w))
<1> DEFINE l == Append(d, w)
<1>1. Len(l) = Len(d) + 1 /\ l[Len(d) + 1] = w /\ \A j \in 1 .. Len(d) : l[j] = d[j]
  OBVIOUS
<1> HIDE DEF l
<1>2. ASSUME NEW j \in 1 .. Len(l)
      PROVE  (j \in 1 .. Len(d) /\ l[j] = d[j]) \/ (j = Len(d) + 1 /\ l[j] = w)
  BY <1>1
<1>3. Keeps(c, d, t, st) /\ c \in DOMAIN w.text => Keeps(c, l, t, st)
  BY <1>2 DEF Keeps
<1>4. Holds(c, d) /\ c \in DOMAIN w.text => Holds(c, l)
  BY <1>2 DEF Holds
<1>5. Unheard(c, d) /\ c \in DOMAIN w.text => Holds(c, l)
  BY <1>2 DEF Holds, Unheard
<1>6. Unheard(c, d) /\ w.by # c => Unheard(c, l)
  BY <1>2 DEF Unheard
<1> QED
  BY <1>3, <1>4, <1>5, <1>6 DEF l

-----------------------------------------------------------------------------
(* The files and the calls *)

\* What a file is about is in its own texts.
LEMMA FilesKnown == "vault" \in Files /\ "connections" \in Files /\ "vault" # "connections"
                    /\ Texts("vault") = Vaults /\ Texts("connections") = Seq(Link)
  BY DEF Files, Texts

\* A write lands: the files stand as they did, and the arguments a call stored are
\* in all that may be read back.
LEMMA FilesLand ==
  ASSUME NEW sd, NEW dr, NEW sl, NEW s, NEW lk, NEW cs, NEW cs2, NEW ag, NEW ml,
         FilesStand(sd, dr, sl, s, lk, cs, ag, ml),
         NEW f \in Files, NEW i \in 1 .. Len(dr[f]), NEW sd2, NEW dr2, NEW sl2,
         sd2 = [sd EXCEPT ![f] = dr[f][i].text], dr2 = [dr EXCEPT ![f] = Landed(dr[f], i)],
         sl2 = IF dr[f][i].old THEN sl \cup {f} ELSE sl \ {f},
         CallsLand(cs, cs2, f, dr[f][i].by)
  PROVE  FilesStand(sd2, dr2, sl2, s, lk, cs2, ag, ml)
<1> DEFINE d == dr[f]
           l == Landed(dr[f], i)
<1>t. /\ Filed(sd, dr, sl)
      /\ VaultStands(s, dr["vault"], sd["vault"], sl, cs, ag, ml)
      /\ ml = {} => Follows("connections", dr["connections"], sd["connections"], sl, lk)
  BY DEF FilesStand
<1>1. d \in Seq(DraftOf(f)) /\ Len(d) \in Nat /\ d[i] \in DraftOf(f)
  BY <1>t DEF Filed
<1>2. l \in Seq(DraftOf(f)) /\ Arrival(d, l, i)
  BY <1>1, LandedRows DEF DraftOf
<1>3. /\ sd2 = [g \in Files |-> sd2[g]] /\ dr2 = [g \in Files |-> dr2[g]]
      /\ sd2[f] = d[i].text /\ dr2[f] = l /\ \A g \in Files \ {f} : sd2[g] = sd[g] /\ dr2[g] = dr[g]
  <2>1. sd = [g \in Files |-> sd[g]] /\ dr = [g \in Files |-> dr[g]]
    BY <1>t DEF Filed
  <2> QED
    BY <2>1
<1>4. sl2 \subseteq Files /\ ((f \in sl2) <=> d[i].old) /\ \A g \in Files \ {f} : (g \in sl2) <=> (g \in sl)
  BY <1>t DEF Filed
<1>5. Filed(sd2, dr2, sl2)
  <2>1. d[i].text \in Texts(f)
    BY <1>1 DEF DraftOf
  <2> QED
    BY <2>1, <1>2, <1>3, <1>4, <1>t DEF Filed
<1> HIDE DEF d, l
<1>6. CASE f = "vault"
  <2>1. d = dr["vault"] /\ dr2["vault"] = l /\ sd2["vault"] = d[i].text /\ (("vault" \in sl2) <=> d[i].old)
        /\ i \in 1 .. Len(d)
    BY <1>6, <1>3, <1>4 DEF d
  <2>2. VaultStands(s, d, sd["vault"], sl, cs, ag, ml)
    BY <2>1, <1>t
  <2>3. \A c : /\ Keeps(c, d, sd["vault"], sl) => Keeps(c, l, d[i].text, sl2)
               /\ Holds(c, d) => Holds(c, l)
               /\ Holds(c, d) /\ d[i].by = c => Keeps(c, l, d[i].text, sl2)
               /\ Unheard(c, d) => Unheard(c, l)
    <3>1. /\ Len(d) \in Nat /\ i \in 1 .. Len(d) /\ Arrival(d, l, i)
          /\ ("vault" \in sl2) <=> d[i].old
      BY <2>1, <1>1, <1>2
    <3> QED
      BY <3>1, KeepsLands, ZenonT(20)
  <2>4. Follows("vault", d, sd["vault"], sl, s) => Follows("vault", l, d[i].text, sl2, s)
    <3>1. /\ Len(d) \in Nat /\ i \in 1 .. Len(d) /\ Arrival(d, l, i)
          /\ ("vault" \in sl2) <=> d[i].old
      BY <2>1, <1>1, <1>2
    <3> QED
      BY <3>1, FollowsLands, ZenonT(20)
  <2>5. \A c \in Invocations :
            /\ cs2[c] = "new" => cs[c] = "new"
            /\ cs2[c] = "storing" => cs[c] = "storing"
            /\ cs2[c] = "parked" => cs[c] = "parked" \/ (cs[c] = "storing" /\ d[i].by = c)
            /\ cs2[c] \in {"clearing", "settled"} => cs[c] \in {"clearing", "settled"}
    BY <1>6 DEF d, CallsLand
  <2>6. VaultStands(s, l, d[i].text, sl2, cs2, ag, ml)
    BY <2>2, <2>3, <2>4, <2>5 DEF VaultStands
  <2>7. dr2["connections"] = dr["connections"] /\ sd2["connections"] = sd["connections"]
        /\ (("connections" \in sl2) <=> ("connections" \in sl))
    BY <1>3, <1>4, <1>6, FilesKnown
  <2>8. ml = {} => Follows("connections", dr2["connections"], sd2["connections"], sl2, lk)
    BY <2>7, <1>t DEF Follows
  <2> QED
    BY <2>1, <2>6, <2>8, <1>5 DEF FilesStand
<1>7. CASE f = "connections"
  <2>1. d = dr["connections"] /\ dr2["connections"] = l /\ sd2["connections"] = d[i].text
        /\ (("connections" \in sl2) <=> d[i].old) /\ i \in 1 .. Len(d)
    BY <1>7, <1>3, <1>4 DEF d
  <2>2. ml = {} => Follows("connections", l, d[i].text, sl2, lk)
    <3>1. /\ Len(d) \in Nat /\ i \in 1 .. Len(d) /\ Arrival(d, l, i)
          /\ ("connections" \in sl2) <=> d[i].old
      BY <2>1, <1>1, <1>2
    <3>2. ml = {} => Follows("connections", d, sd["connections"], sl, lk)
      BY <2>1, <1>t
    <3> QED
      BY <3>1, <3>2, FollowsLands, ZenonT(20)
  <2>3. dr2["vault"] = dr["vault"] /\ sd2["vault"] = sd["vault"] /\ (("vault" \in sl2) <=> ("vault" \in sl))
    BY <1>3, <1>4, <1>7, FilesKnown
  <2>4. VaultStands(s, dr2["vault"], sd2["vault"], sl2, cs2, ag, ml)
    BY <2>3, <1>t, <1>7, FilesKnown DEF VaultStands, Follows, Keeps, CallsLand
  <2> QED
    BY <2>1, <2>2, <2>4, <1>5 DEF FilesStand
<1> QED
  BY <1>6, <1>7 DEF Files

\* The vault is written: what a call has stored stays in it.
LEMMA VaultWrite ==
  ASSUME NEW sd, NEW dr, NEW sl, NEW s, NEW lk, NEW cs, NEW cs2, NEW ag, NEW ml,
         FilesStand(sd, dr, sl, s, lk, cs, ag, ml),
         NEW by \in Writers, NEW s2 \in Vaults, NEW dr2,
         dr2 = [dr EXCEPT !["vault"] = Append(@, [by |-> by, text |-> s2, old |-> FALSE])],
         CallsWrite(cs, cs2, s, s2, by)
  PROVE  FilesStand(sd, dr2, sl, s2, lk, cs2, ag, ml)
<1> DEFINE d == dr["vault"]
           w == [by |-> by, text |-> s2, old |-> FALSE]
<1>t. /\ Filed(sd, dr, sl)
      /\ VaultStands(s, dr["vault"], sd["vault"], sl, cs, ag, ml)
      /\ ml = {} => Follows("connections", dr["connections"], sd["connections"], sl, lk)
  BY DEF FilesStand
<1>1. d \in Seq(DraftOf("vault")) /\ w \in DraftOf("vault") /\ w.by = by /\ w.text = s2 /\ ~ w.old
  BY <1>t, FilesKnown DEF Filed, DraftOf
<1>2. dr2 = [g \in Files |-> dr2[g]] /\ dr2["vault"] = Append(d, w) /\ dr2["connections"] = dr["connections"]
  <2>1. dr = [g \in Files |-> dr[g]]
    BY <1>t DEF Filed
  <2> QED
    BY <2>1, FilesKnown
<1> HIDE DEF d, w
<1>3. Filed(sd, dr2, sl)
  <2>1. Append(d, w) \in Seq(DraftOf("vault"))
    BY <1>1
  <2> QED
    BY <2>1, <1>2, <1>t DEF Filed, Files
<1>4. Follows("vault", Append(d, w), sd["vault"], sl, s2)
  BY <1>1, FollowsWrites
<1>5. \A c : /\ Keeps(c, d, sd["vault"], sl) /\ c \in DOMAIN s2 => Keeps(c, Append(d, w), sd["vault"], sl)
             /\ Holds(c, d) /\ c \in DOMAIN s2 => Holds(c, Append(d, w))
             /\ Unheard(c, d) /\ c \in DOMAIN s2 => Holds(c, Append(d, w))
             /\ Unheard(c, d) /\ by # c => Unheard(c, Append(d, w))
  <2>1. \A c : /\ Keeps(c, d, sd["vault"], sl) /\ c \in DOMAIN w.text => Keeps(c, Append(d, w), sd["vault"], sl)
               /\ Holds(c, d) /\ c \in DOMAIN w.text => Holds(c, Append(d, w))
               /\ Unheard(c, d) /\ c \in DOMAIN w.text => Holds(c, Append(d, w))
               /\ Unheard(c, d) /\ w.by # c => Unheard(c, Append(d, w))
    BY <1>1, KeepsWrites
  <2> QED
    BY <2>1, <1>1
<1>6. VaultStands(s2, Append(d, w), sd["vault"], sl, cs2, ag, ml)
  <2>1. VaultStands(s, d, sd["vault"], sl, cs, ag, ml)
    BY <1>t DEF d
  <2> QED
    BY <2>1, <1>4, <1>5 DEF VaultStands, CallsWrite
<1> QED
  BY <1>2, <1>3, <1>6, <1>t DEF FilesStand

\* The connections are written.
LEMMA LinksWrite ==
  ASSUME NEW sd, NEW dr, NEW sl, NEW s, NEW lk, NEW cs, NEW ag, NEW ml,
         FilesStand(sd, dr, sl, s, lk, cs, ag, ml),
         NEW by \in Writers, NEW lk2 \in Seq(Link), NEW dr2,
         dr2 = [dr EXCEPT !["connections"] = Append(@, [by |-> by, text |-> lk2, old |-> FALSE])]
  PROVE  FilesStand(sd, dr2, sl, s, lk2, cs, ag, ml)
<1> DEFINE d == dr["connections"]
           w == [by |-> by, text |-> lk2, old |-> FALSE]
<1>t. /\ Filed(sd, dr, sl)
      /\ VaultStands(s, dr["vault"], sd["vault"], sl, cs, ag, ml)
  BY DEF FilesStand
<1>1. d \in Seq(DraftOf("connections")) /\ w \in DraftOf("connections") /\ w.text = lk2 /\ ~ w.old
  BY <1>t, FilesKnown DEF Filed, DraftOf
<1>2. dr2 = [g \in Files |-> dr2[g]] /\ dr2["connections"] = Append(d, w) /\ dr2["vault"] = dr["vault"]
  <2>1. dr = [g \in Files |-> dr[g]]
    BY <1>t DEF Filed
  <2> QED
    BY <2>1, FilesKnown
<1> HIDE DEF d, w
<1>3. Filed(sd, dr2, sl)
  <2>1. Append(d, w) \in Seq(DraftOf("connections"))
    BY <1>1
  <2> QED
    BY <2>1, <1>2, <1>t DEF Filed, Files
<1>4. Follows("connections", Append(d, w), sd["connections"], sl, lk2)
  BY <1>1, FollowsWrites
<1> QED
  BY <1>2, <1>3, <1>4, <1>t DEF FilesStand

\* No file changes, and no arguments.
LEMMA FilesRest ==
  ASSUME NEW sd, NEW dr, NEW sl, NEW s, NEW lk, NEW cs, NEW cs2, NEW ag, NEW ag2, NEW ml,
         FilesStand(sd, dr, sl, s, lk, cs, ag, ml), ag \subseteq ag2,
         \A c \in Invocations :
            /\ cs2[c] \in {"new", "storing", "parked"} => cs[c] = cs2[c]
            /\ cs2[c] \in {"clearing", "settled"} => c \notin DOMAIN s \/ cs[c] \in {"clearing", "settled"}
  PROVE  FilesStand(sd, dr, sl, s, lk, cs2, ag2, ml)
  BY DEF FilesStand, VaultStands

-----------------------------------------------------------------------------
(* What the memory holds *)

\* A text of the vault.
LEMMA VaultRow ==
  ASSUME NEW v
  PROVE  v \in Vaults <=> v = [x \in DOMAIN v |-> v[x]] /\ DOMAIN v \subseteq Tags
                          /\ \A x \in DOMAIN v : v[x] \in Secret
  BY DEF Vaults

\* A key is put in the vault, or taken out.
LEMMA SecretRows ==
  ASSUME secrets \in Vaults, NEW k \in Tags, NEW v \in Secret
  PROVE  /\ WithSecret(k, v) \in Vaults /\ DOMAIN WithSecret(k, v) = DOMAIN secrets \cup {k}
         /\ WithoutSecret(k) \in Vaults /\ DOMAIN WithoutSecret(k) = DOMAIN secrets \ {k}
  BY VaultRow DEF WithSecret, WithoutSecret

\* A connection is kept, or taken away.
LEMMA LinkedRows ==
  ASSUME links \in Seq(Link)
  PROVE  /\ \A k \in Link : WithLink(k) \in Seq(Link)
         /\ \A id : WithoutLink(id) \in Seq(Link)
         /\ Connection \in SUBSET Link /\ Enabled \in SUBSET Link
         /\ Connection # {} => links[1] \in Link /\ Connection = {links[1]}
<1>1. ASSUME NEW k \in Link
      PROVE  WithLink(k) \in Seq(Link)
  <2>1. Append(links, k) \in Seq(Link)
    OBVIOUS
  <2>2. DOMAIN links = 1 .. Len(links) /\ Len(links) \in Nat /\ \A i \in DOMAIN links : links[i] \in Link
    OBVIOUS
  <2>3. [i \in DOMAIN links |-> IF links[i].id = k.id THEN k ELSE links[i]] \in [1 .. Len(links) -> Link]
    BY <2>2, <1>1
  <2>4. [i \in DOMAIN links |-> IF links[i].id = k.id THEN k ELSE links[i]] \in Seq(Link)
    BY <2>2, <2>3
  <2> QED
    BY <2>1, <2>4 DEF WithLink
<1>2. ASSUME NEW id
      PROVE  WithoutLink(id) \in Seq(Link)
  <2> DEFINE having == {i \in DOMAIN links : links[i].id = id}
  <2>1. having # {} => (CHOOSE i \in having : TRUE) \in 1 .. Len(links)
    OBVIOUS
  <2>2. having # {} => Without(links, CHOOSE i \in having : TRUE) \in Seq(Link)
    BY <2>1, WithoutRows
  <2> QED
    BY <2>2 DEF WithoutLink
<1>3. links # <<>> => links[1] \in Link
  OBVIOUS
<1> QED
  BY <1>1, <1>2, <1>3 DEF Connection, Enabled

\* The token of a connection.
LEMMA TokenRow == secrets \in Vaults => \A id : TokenOf(id) \in Secret
  BY VaultRow DEF TokenOf, Secret

-----------------------------------------------------------------------------
(* The requests and the tools *)

\* The record of no request.
LEMMA NoOrderRow ==
  /\ NoOrder \in OrderRecords /\ ~ NoOrder.done /\ NoOrder.place = "free"
  /\ \A p \in OrderPlaces : /\ [NoOrder EXCEPT !.place = p] \in OrderRecords
                            /\ [NoOrder EXCEPT !.place = p].place = p
                            /\ ~ [NoOrder EXCEPT !.place = p].done
  BY DEF NoOrder, OrderRecords, OrderPlaces, Secret

\* A request moves on.
LEMMA OrderedTo ==
  ASSUME Ordered(orders), NEW r \in Orders \cup {Start}, NEW p \in OrderPlaces,
         p \in Saving => orders[r].link \in Link, NEW os, os = OrderTo(r, p)
  PROVE  /\ Ordered(os) /\ os[r].place = p /\ (os[r].done => orders[r].done)
         /\ \A q \in (Orders \cup {Start}) \ {r} : os[q] = orders[q]
<1> DEFINE job == IF p \in {"over", "indexing", "undoing"}
                  THEN [NoOrder EXCEPT !.place = p] ELSE [orders[r] EXCEPT !.place = p]
<1>1. orders[r] \in OrderRecords
  BY DEF Ordered
<1>2. /\ [orders[r] EXCEPT !.place = p] \in OrderRecords /\ [orders[r] EXCEPT !.place = p].place = p
      /\ [orders[r] EXCEPT !.place = p].link = orders[r].link
      /\ [orders[r] EXCEPT !.place = p].done = orders[r].done
  BY <1>1 DEF OrderRecords
<1>3. os = [orders EXCEPT ![r] = job]
  BY DEF OrderTo
<1>4. job \in OrderRecords /\ job.place = p /\ (job.done => orders[r].done) /\ (p \in Saving => job.link \in Link)
  <2>1. CASE p \in {"over", "indexing", "undoing"}
    BY <2>1, NoOrderRow DEF Saving
  <2>2. CASE p \notin {"over", "indexing", "undoing"}
    BY <2>2, <1>2
  <2> QED
    BY <2>1, <2>2
<1> HIDE DEF job
<1>6. job \in OrderRecords /\ (job.place \in Saving => job.link \in Link)
  BY <1>4
<1>5. Ordered(os) /\ os[r] = job /\ \A q \in (Orders \cup {Start}) \ {r} : os[q] = orders[q]
  BY <1>3, <1>6 DEF Ordered
<1> QED
  BY <1>4, <1>5

\* The catalogue is read, or empty at once.
LEMMA RefreshRows ==
  ASSUME links \in Seq(Link), Ordered(orders), NEW r \in Orders \cup {Start},
         NEW os, NEW tl, os = Discovered(r, NoOrder), tl = IF Enabled = {} THEN {} ELSE tools
  PROVE  /\ Ordered(os) /\ ~ os[r].done /\ os[r].place \in {"indexing", "asking"}
         /\ tl # tools => os[r].place = "indexing"
         /\ \A q \in (Orders \cup {Start}) \ {r} : os[q] = orders[q]
<1> DEFINE p == IF Enabled = {} THEN "indexing" ELSE "asking"
           found == UNION {ListTools(k) : k \in Enabled}
           mid == [NoOrder EXCEPT !.place = p]
           job == [mid EXCEPT !.found = found]
<1>1. p \in OrderPlaces \ Saving
  BY DEF OrderPlaces, Saving
<1>2. found \in SUBSET AllTools
  BY LinkedRows DEF ListTools, AllTools, Link
<1>3. mid \in OrderRecords /\ mid.place = p /\ ~ mid.done
  BY <1>1, NoOrderRow
<1>4. os = [orders EXCEPT ![r] = job]
  BY DEF Discovered
<1>6. p \in {"indexing", "asking"} /\ (tl # tools => p = "indexing")
  OBVIOUS
<1> HIDE DEF p, found, mid
<1>5. job \in OrderRecords /\ job.place = p /\ ~ job.done
  BY <1>2, <1>3 DEF OrderRecords
<1> HIDE DEF job
<1>8. job \in OrderRecords /\ (job.place \in Saving => job.link \in Link)
  BY <1>1, <1>5
<1>7. Ordered(os) /\ os[r] = job /\ \A q \in (Orders \cup {Start}) \ {r} : os[q] = orders[q]
  BY <1>4, <1>8 DEF Ordered
<1> QED
  BY <1>5, <1>6, <1>7

\* A request moves that is neither to index nor over: the registry stands as before,
\* also when the tools change with a request that is to index them.
LEMMA IndexMoves ==
  ASSUME NEW ix, NEW tl, NEW os, IndexStands(ix, tl, os), NEW r \in Orders \cup {Start},
         os[r].place \notin {"indexing", "over"}, NEW os2, NEW tl2, ~ os2[r].done,
         \A q \in (Orders \cup {Start}) \ {r} : os2[q] = os[q],
         tl2 # tl => os2[r].place = "indexing"
  PROVE  IndexStands(ix, tl2, os2)
<1>1. ~ os[r].done
  BY DEF IndexStands
<1>2. \A q \in Orders \cup {Start} : os2[q].done => os2[q].place = "over"
  BY DEF IndexStands
<1>3. ix = tl2 \/ \E q \in Orders \cup {Start} : os2[q].place = "indexing" \/ os2[q].done
  <2>1. CASE tl2 # tl
    BY <2>1
  <2>2. CASE tl2 = tl /\ ix = tl
    BY <2>2
  <2>3. CASE \E q \in Orders \cup {Start} : os[q].place = "indexing" \/ os[q].done
    <3>1. PICK q \in Orders \cup {Start} : os[q].place = "indexing" \/ os[q].done
      BY <2>3
    <3>2. q # r
      BY <3>1, <1>1
    <3> QED
      BY <3>1, <3>2
  <2> QED
    BY <2>1, <2>2, <2>3 DEF IndexStands
<1> QED
  BY <1>2, <1>3 DEF IndexStands

-----------------------------------------------------------------------------
(* The steps *)

\* The files as they are.
FilesKept == FilesStand(stored, drafts, stale, secrets, links, calls, aged, mislaid)

\* What a step writes and lands, of the files as they are.
LEMMA LandKeeps ==
  ASSUME FilesKept, NEW f \in Files, NEW by, LandDraft(f, by), NEW cs2,
         CallsLand(calls, cs2, f, by)
  PROVE  FilesStand(stored', drafts', stale', secrets, links, cs2, aged, mislaid)
<1>1. PICK i \in DraftsBy(f, by) :
         /\ stored' = [stored EXCEPT ![f] = drafts[f][i].text]
         /\ stale' = IF drafts[f][i].old THEN stale \cup {f} ELSE stale \ {f}
         /\ drafts' = [drafts EXCEPT ![f] = Landed(drafts[f], i)]
  BY DEF LandDraft
<1>2. i \in 1 .. Len(drafts[f]) /\ drafts[f][i].by = by
  BY DEF FilesKept, FilesStand, Filed, DraftsBy
<1>3. FilesStand(stored, drafts, stale, secrets, links, calls, aged, mislaid)
  BY DEF FilesKept
<1>4. CallsLand(calls, cs2, f, drafts[f][i].by)
  BY <1>2
<1> QED
  BY <1>1, <1>2, <1>3, <1>4, FilesLand, ZenonT(40)

LEMMA LandAndLink ==
  ASSUME FilesKept, NEW by \in Writers, NEW lk2 \in Seq(Link),
         LandAndDraft("vault", by, "connections", lk2)
  PROVE  FilesStand(stored', drafts', stale', secrets, lk2, calls, aged, mislaid)
<1>1. PICK i \in DraftsBy("vault", by) :
         /\ stored' = [stored EXCEPT !["vault"] = drafts["vault"][i].text]
         /\ stale' = IF drafts["vault"][i].old THEN stale \cup {"vault"} ELSE stale \ {"vault"}
         /\ drafts' = [[drafts EXCEPT !["vault"] = Landed(drafts["vault"], i)]
                         EXCEPT !["connections"] = Append(@, [by |-> by, text |-> lk2, old |-> FALSE])]
  BY DEF LandAndDraft
<1> DEFINE rest == [drafts EXCEPT !["vault"] = Landed(drafts["vault"], i)]
<1>2. i \in 1 .. Len(drafts["vault"])
  BY FilesKnown DEF FilesKept, FilesStand, Filed, DraftsBy
<1>3. FilesStand(stored, drafts, stale, secrets, links, calls, aged, mislaid)
  BY DEF FilesKept
<1>4. FilesStand(stored', rest, stale', secrets, links, calls, aged, mislaid)
  <2>1. CallsLand(calls, calls, "vault", drafts["vault"][i].by) /\ "vault" \in Files
    BY FilesKnown DEF CallsLand
  <2> QED
    BY <1>1, <1>2, <1>3, <2>1, FilesLand
<1>5. drafts' = [rest EXCEPT !["connections"] = Append(@, [by |-> by, text |-> lk2, old |-> FALSE])]
  BY <1>1
<1> HIDE DEF rest
<1> QED
  BY <1>4, <1>5, LinksWrite

LEMMA SpoilKeeps ==
  ASSUME FilesKept, NEW f \in Files, NEW by \in Writers, NEW more, Spoil(f, by, more),
         NEW cs2, NEW s2 \in Vaults, NEW lk2,
         more = <<>> \/ (more = [g \in {"vault"} |-> s2] /\ by \notin Invocations),
         CallsSpoil(calls, cs2, secrets, s2)
  PROVE  /\ FilesStand(stored', drafts', stale', s2, lk2, cs2, aged, mislaid')
         /\ mislaid' = mislaid \cup {"left"} /\ mishaps' = mishaps + 1 /\ mishaps < MaxMishaps
<1>a. PICK i \in DraftsBy(f, by) :
         LET rest == [drafts EXCEPT ![f] = Without(drafts[f], i)]
         IN drafts' = [g \in Files |-> rest[g] \o (IF g \in DOMAIN more
                         THEN <<[by |-> by, text |-> more[g], old |-> FALSE]>> ELSE <<>>)]
  BY DEF Spoil
<1> DEFINE rest == [drafts EXCEPT ![f] = Without(drafts[f], i)]
<1>b. i \in 1 .. Len(drafts[f])
  BY DEF FilesKept, FilesStand, Filed, DraftsBy
<1>c. FilesStand(stored, drafts, stale, secrets, links, calls, aged, mislaid)
  BY DEF FilesKept
<1>d. drafts' = [g \in Files |-> rest[g] \o (IF g \in DOMAIN more
                   THEN <<[by |-> by, text |-> more[g], old |-> FALSE]>> ELSE <<>>)]
  BY <1>a
<1>e. /\ mislaid' = mislaid \cup {"left"} /\ mishaps' = mishaps + 1 /\ mishaps < MaxMishaps
      /\ stored' = stored /\ stale' = stale
  BY DEF Spoil
<1>f. rest = [drafts EXCEPT ![f] = Without(drafts[f], i)]
  OBVIOUS
<1> HIDE DEF rest
<1> DEFINE d == drafts["vault"]
           l == rest["vault"]
           w == [by |-> by, text |-> s2, old |-> FALSE]
<1>t. /\ Filed(stored, drafts, stale)
      /\ VaultStands(secrets, d, stored["vault"], stale, calls, aged, mislaid)
  BY <1>c DEF FilesStand
<1>1. \A g \in Files : drafts[g] \in Seq(DraftOf(g))
  BY <1>t DEF Filed
<1>2. /\ \A g \in Files : rest[g] \in Seq(DraftOf(g))
      /\ rest["vault"] = drafts["vault"] \/ (f = "vault" /\ rest["vault"] = Without(drafts["vault"], i))
  <2>1. drafts = [g \in Files |-> drafts[g]]
    BY <1>t DEF Filed
  <2>2. rest[f] = Without(drafts[f], i) /\ \A g \in Files \ {f} : rest[g] = drafts[g]
    BY <2>1, <1>f
  <2>3. Without(drafts[f], i) \in Seq(DraftOf(f))
    BY <1>1, <1>b, WithoutRows
  <2> QED
    BY <2>2, <2>3, <1>1, FilesKnown
<1>3. \A c : /\ Keeps(c, d, stored["vault"], stale) => Keeps(c, l, stored["vault"], stale)
             /\ Holds(c, d) => Holds(c, l)
             /\ Unheard(c, d) => Unheard(c, l)
  <2>1. CASE l = d
    BY <2>1
  <2>2. CASE f = "vault" /\ l = Without(d, i)
    <3>1. d \in Seq(DraftOf("vault")) /\ i \in 1 .. Len(d)
      BY <2>2, <1>1, <1>b, FilesKnown
    <3> HIDE DEF d, l
    <3> QED
      BY <3>1, <2>2, KeepsSpoils, SMTT(20)
  <2> QED
    BY <2>1, <2>2, <1>2
<1>4. /\ w \in DraftOf("vault") /\ w.text = s2 /\ w.by = by
      /\ l \in Seq(DraftOf("vault"))
  BY <1>2, FilesKnown DEF DraftOf
<1>5. /\ drafts' = [g \in Files |-> drafts'[g]] /\ drafts'["connections"] = rest["connections"]
      /\ drafts'["vault"] = l \/ (drafts'["vault"] = Append(l, w) /\ by \notin Invocations)
  <2>1. CASE more = <<>>
    <3>1. \A g \in Files : g \notin DOMAIN more
      BY <2>1 DEF Files
    <3>2. \A g \in Files : rest[g] \o <<>> = rest[g]
      BY <1>2
    <3>3. \A g \in Files : drafts'[g] = rest[g]
      BY <3>1, <3>2, <1>d
    <3> QED
      BY <3>3, <1>d, FilesKnown
  <2>2. CASE more = [g \in {"vault"} |-> s2] /\ by \notin Invocations
    <3>1. DOMAIN more = {"vault"} /\ more["vault"] = s2
      BY <2>2
    <3>2. drafts'["connections"] = rest["connections"] \o <<>> /\ drafts'["vault"] = l \o <<w>>
      BY <3>1, FilesKnown, <1>d
    <3>3. rest["connections"] \o <<>> = rest["connections"] /\ l \o <<w>> = Append(l, w)
      BY <1>2, <1>4, FilesKnown
    <3> QED
      BY <3>2, <3>3, <2>2, <1>d
  <2> QED
    BY <2>1, <2>2
<1> HIDE DEF d, l, w
<1>6. drafts'["vault"] \in Seq(DraftOf("vault")) /\ drafts'["connections"] \in Seq(DraftOf("connections"))
  <2>1. Append(l, w) \in Seq(DraftOf("vault"))
    BY <1>4
  <2> QED
    BY <2>1, <1>2, <1>4, <1>5, FilesKnown
<1>7. Filed(stored, drafts', stale)
  BY <1>5, <1>6, <1>t DEF Filed, Files
<1>8. \A c \in Invocations :
         /\ Keeps(c, l, stored["vault"], stale) /\ c \in DOMAIN s2 => Keeps(c, drafts'["vault"], stored["vault"], stale)
         /\ Holds(c, l) /\ c \in DOMAIN s2 => Holds(c, drafts'["vault"])
         /\ Unheard(c, l) => Unheard(c, drafts'["vault"])
  <2>1. CASE drafts'["vault"] = l
    BY <2>1
  <2>2. CASE drafts'["vault"] = Append(l, w) /\ by \notin Invocations
    <3>1. \A c : /\ Keeps(c, l, stored["vault"], stale) /\ c \in DOMAIN w.text => Keeps(c, Append(l, w), stored["vault"], stale)
                 /\ Holds(c, l) /\ c \in DOMAIN w.text => Holds(c, Append(l, w))
                 /\ Unheard(c, l) /\ w.by # c => Unheard(c, Append(l, w))
      BY <1>4, KeepsWrites
    <3> QED
      BY <3>1, <2>2, <1>4
  <2> QED
    BY <2>1, <2>2, <1>5
<1>9. mislaid \cup {"left"} # {} /\ ("taken" \in mislaid => "taken" \in mislaid \cup {"left"})
  OBVIOUS
<1>10. VaultStands(s2, drafts'["vault"], stored["vault"], stale, cs2, aged, mislaid \cup {"left"})
  <2>1. \A c \in Invocations : cs2[c] = "new" => Unheard(c, drafts'["vault"])
    BY <1>t, <1>3, <1>8 DEF VaultStands, CallsSpoil
  <2>2. \A c \in Invocations : cs2[c] = "storing" => c \in DOMAIN s2 /\ Holds(c, drafts'["vault"])
    BY <1>t, <1>3, <1>8 DEF VaultStands, CallsSpoil
  <2>3. \A c \in Invocations \ aged : cs2[c] = "parked" /\ "taken" \notin mislaid \cup {"left"}
           => c \in DOMAIN s2 /\ Keeps(c, drafts'["vault"], stored["vault"], stale)
    BY <1>t, <1>3, <1>8 DEF VaultStands, CallsSpoil
  <2> QED
    BY <2>1, <2>2, <2>3, <1>9 DEF VaultStands
<1>11. FilesStand(stored, drafts', stale, s2, lk2, cs2, aged, mislaid \cup {"left"})
  BY <1>7, <1>9, <1>10 DEF FilesStand
<1> QED
  BY <1>e, <1>11

LEMMA MishapRows ==
  ASSUME CallRows, mishaps < MaxMishaps, mishaps' = mishaps + 1, mislaid' = mislaid \cup {"left"},
         UNCHANGED aged, calls' \in [Invocations -> CallPlaces]
  PROVE  CallRows'
  BY IntegrationsAssumption DEF CallRows

\* A request is no call, and the connection it is about is a request's.
LEMMA OrdersApart ==
  /\ \A r \in Orders \cup {Start} : r \in Writers /\ r \notin Invocations
  /\ \A k \in Link : k.id \in Tags /\ k.id \notin Invocations /\ k.id \in Orders
  /\ \A c \in Invocations : c \in Tags /\ c \in Writers /\ c \notin Orders \cup {Start}
  BY IntegrationsAssumption DEF Writers, Link, Tags

\* The record of a request that begins.
LEMMA JobRow ==
  ASSUME NEW k \in Link, NEW was \in SUBSET Link, NEW old \in Secret
  PROVE  Job(k, was, old) \in OrderRecords /\ Job(k, was, old).link = k /\ Job(k, was, old).done = FALSE
<1> DEFINE a == [NoOrder EXCEPT !.link = k]
           b == [a EXCEPT !.was = was]
           c == [b EXCEPT !.old = old]
<1>1. Job(k, was, old) = c
  BY DEF Job
<1>2. a \in OrderRecords /\ a.link = k /\ a.done = FALSE
  <2>1. NoOrder \in OrderRecords /\ NoOrder.done = FALSE
    BY NoOrderRow DEF NoOrder
  <2> QED
    BY <2>1 DEF OrderRecords
<1> HIDE DEF a
<1>3. b \in OrderRecords /\ b.link = k /\ b.done = FALSE
  BY <1>2 DEF OrderRecords
<1> HIDE DEF b
<1>4. c \in OrderRecords /\ c.link = k /\ c.done = FALSE
  BY <1>3 DEF OrderRecords
<1> HIDE DEF c
<1> QED
  BY <1>1, <1>4

\* A save begins: the token is written, or the connection.
LEMMA BeginSaveHolds ==
  ASSUME LinkInv, NEW r \in Orders, NEW at \in Endpoints, NEW on \in BOOLEAN,
         NEW change \in Tokens \cup {"keep", "clear"}, BeginSave(r, at, on, change)
  PROVE  LinkInv'
<1> DEFINE k == Edited(r, at, on)
           old == IF Connection = {} THEN NoToken ELSE TokenOf(k.id)
           left == IF change = "clear" THEN WithoutSecret(k.id) ELSE WithSecret(k.id, change)
<1>i. /\ MemoryRows /\ Ordered(orders) /\ ToolRows /\ CallRows /\ FilesKept
      /\ IndexStands(index, tools, orders)
  BY DEF LinkInv, FilesKept
<1>m. links \in Seq(Link) /\ secrets \in Vaults
  BY <1>i DEF MemoryRows
<1>1. k \in Link
  BY <1>m, LinkedRows DEF Edited, Link
<1>2. Connection \in SUBSET Link /\ old \in Secret
  BY <1>m, LinkedRows, TokenRow DEF Secret
<1>3. /\ UNCHANGED <<stored, stale, tools, index, calls, aged, mislaid, mishaps>>
      /\ orders[r].place = "free"
  BY DEF BeginSave
<1>4. r \in Orders \cup {Start} /\ r \in Writers /\ r \notin Invocations
  BY OrdersApart
<1>5. ASSUME NEW p \in {"token", "link"}, NEW job,
             job = [Job(k, Connection, old) EXCEPT !.place = p],
             orders' = [orders EXCEPT ![r] = job]
      PROVE  Ordered(orders') /\ IndexStands(index, tools, orders')
  <2>1. p \in OrderPlaces
    BY DEF OrderPlaces
  <2> HIDE DEF k, old
  <2>5. /\ Job(k, Connection, old) \in OrderRecords /\ Job(k, Connection, old).link = k
        /\ Job(k, Connection, old).done = FALSE
    BY <1>1, <1>2, JobRow
  <2>2. job \in OrderRecords /\ job.place = p /\ job.link = k /\ ~ job.done
    BY <1>5, <2>1, <2>5 DEF OrderRecords
  <2>3. /\ Ordered(orders') /\ orders'[r] = job
        /\ \A q \in (Orders \cup {Start}) \ {r} : orders'[q] = orders[q]
    BY <2>2, <1>i, <1>1, <1>4, <1>5 DEF Ordered
  <2>4. ~ orders'[r].done /\ orders[r].place \notin {"indexing", "over"}
    BY <2>2, <2>3, <1>3
  <2> QED
    BY <2>3, <2>4, <1>i, <1>4, IndexMoves
<1>6. CASE change \in Tokens \/ (change = "clear" /\ k.id \in DOMAIN secrets)
  <2>1. /\ secrets' = left
        /\ Draft("vault", r, left)
        /\ orders' = [orders EXCEPT ![r] = [Job(k, Connection, old) EXCEPT !.place = "token"]]
        /\ UNCHANGED links
    BY <1>6 DEF BeginSave
  <2>2. k.id \in Tags /\ k.id \notin Invocations
    BY <1>1, OrdersApart
  <2>3. left \in Vaults /\ \A c \in Invocations : (c \in DOMAIN left) <=> (c \in DOMAIN secrets)
    <3>1. CASE change = "clear"
      BY <3>1, <2>2, <1>m, <1>2, SecretRows
    <3>2. CASE change # "clear"
      <4>1. change \in Secret
        BY <3>2, <1>6 DEF Secret
      <4>2. left = WithSecret(k.id, change)
        BY <3>2
      <4> HIDE DEF k, left
      <4>3. left \in Vaults /\ DOMAIN left = DOMAIN secrets \cup {k.id}
        BY <4>1, <4>2, <2>2, <1>m, SecretRows
      <4> QED
        BY <4>3, <2>2
    <3> QED
      BY <3>1, <3>2
  <2> HIDE DEF left, k, old
  <2>4. FilesStand(stored, drafts', stale, left, links, calls, aged, mislaid)
    <3>1. drafts' = [drafts EXCEPT !["vault"] = Append(@, [by |-> r, text |-> left, old |-> FALSE])]
      BY <2>1 DEF Draft
    <3>2. FilesStand(stored, drafts, stale, secrets, links, calls, aged, mislaid)
      BY <1>i DEF FilesKept
    <3>3. CallsWrite(calls, calls, secrets, left, r)
      BY <2>3, <3>2, <1>4 DEF FilesStand, VaultStands, CallsWrite
    <3> QED
      BY <3>1, <3>2, <3>3, <2>3, <1>4, VaultWrite, ZenonT(40)
  <2>5. Ordered(orders') /\ IndexStands(index, tools, orders')
    BY <2>1, <1>5
  <2> QED
    BY <2>1, <2>3, <2>4, <2>5, <1>i, <1>m, <1>3 DEF LinkInv, MemoryRows, ToolRows, CallRows
<1>7. CASE ~ (change \in Tokens \/ (change = "clear" /\ k.id \in DOMAIN secrets))
  <2>1. /\ links' = WithLink(k)
        /\ Draft("connections", r, WithLink(k))
        /\ orders' = [orders EXCEPT ![r] = [Job(k, Connection, old) EXCEPT !.place = "link"]]
        /\ UNCHANGED secrets
    BY <1>7 DEF BeginSave
  <2>2. WithLink(k) \in Seq(Link)
    BY <1>1, <1>m, LinkedRows
  <2> HIDE DEF k, old
  <2>3. FilesStand(stored, drafts', stale, secrets, WithLink(k), calls, aged, mislaid)
    BY <2>1, <2>2, <1>i, <1>4, LinksWrite DEF Draft, FilesKept
  <2>4. Ordered(orders') /\ IndexStands(index, tools, orders')
    BY <2>1, <1>5
  <2> QED
    BY <2>1, <2>2, <2>3, <2>4, <1>i, <1>m, <1>3 DEF LinkInv, MemoryRows, ToolRows, CallRows
<1> QED
  BY <1>6, <1>7

\* A deletion begins: its token is taken out, or the connection.
LEMMA BeginDeleteHolds ==
  ASSUME LinkInv, NEW r \in Orders, BeginDelete(r)
  PROVE  LinkInv'
<1>i. /\ MemoryRows /\ Ordered(orders) /\ ToolRows /\ CallRows /\ FilesKept
      /\ IndexStands(index, tools, orders)
  BY DEF LinkInv, FilesKept
<1>m. links \in Seq(Link) /\ secrets \in Vaults
  BY <1>i DEF MemoryRows
<1>1. /\ UNCHANGED <<stored, stale, tools, index, calls, aged, mislaid, mishaps>>
      /\ orders[r].place = "free"
  BY DEF BeginDelete
<1>2. PICK k \in Connection :
         IF k.id \in DOMAIN secrets
         THEN /\ secrets' = WithoutSecret(k.id)
              /\ Draft("vault", r, WithoutSecret(k.id))
              /\ orders' = [orders EXCEPT ![r] = [Job(k, {k}, TokenOf(k.id)) EXCEPT !.place = "untoken"]]
              /\ UNCHANGED links
         ELSE /\ links' = WithoutLink(k.id)
              /\ Draft("connections", r, WithoutLink(k.id))
              /\ orders' = [orders EXCEPT ![r] = [Job(k, {k}, TokenOf(k.id)) EXCEPT !.place = "unlink"]]
              /\ UNCHANGED secrets
  BY DEF BeginDelete
<1>3. k \in Link /\ {k} \in SUBSET Link /\ TokenOf(k.id) \in Secret
  BY <1>m, LinkedRows, TokenRow
<1>4. r \in Orders \cup {Start} /\ r \in Writers /\ r \notin Invocations
  BY OrdersApart
<1>5. ASSUME NEW p \in {"untoken", "unlink"},
             orders' = [orders EXCEPT ![r] = [Job(k, {k}, TokenOf(k.id)) EXCEPT !.place = p]]
      PROVE  Ordered(orders') /\ IndexStands(index, tools, orders')
  <2> DEFINE job == Job(k, {k}, TokenOf(k.id))
             new == [job EXCEPT !.place = p]
  <2>1. p \in OrderPlaces
    BY DEF OrderPlaces
  <2>2. job \in OrderRecords /\ job.link = k /\ job.done = FALSE
    BY <1>3, JobRow
  <2>3. orders' = [orders EXCEPT ![r] = new]
    BY <1>5
  <2> HIDE DEF job
  <2>4. new \in OrderRecords /\ new.place = p /\ new.link = k /\ ~ new.done
    BY <2>1, <2>2 DEF OrderRecords
  <2> HIDE DEF new
  <2>5. /\ Ordered(orders') /\ orders'[r] = new
        /\ \A q \in (Orders \cup {Start}) \ {r} : orders'[q] = orders[q]
    BY <2>3, <2>4, <1>i, <1>3, <1>4 DEF Ordered
  <2>6. ~ orders'[r].done /\ orders[r].place \notin {"indexing", "over"}
    BY <2>4, <2>5, <1>1
  <2> QED
    BY <2>5, <2>6, <1>i, <1>4, IndexMoves
<1>6. CASE k.id \in DOMAIN secrets
  <2> DEFINE left == WithoutSecret(k.id)
  <2>1. /\ secrets' = left /\ Draft("vault", r, left) /\ UNCHANGED links
        /\ orders' = [orders EXCEPT ![r] = [Job(k, {k}, TokenOf(k.id)) EXCEPT !.place = "untoken"]]
    BY <1>2, <1>6
  <2>2. k.id \in Tags /\ k.id \notin Invocations
    BY <1>3, OrdersApart
  <2>3. left \in Vaults /\ \A c \in Invocations : (c \in DOMAIN left) <=> (c \in DOMAIN secrets)
    BY <2>2, <1>m, <1>3, SecretRows
  <2> HIDE DEF left
  <2>4. FilesStand(stored, drafts', stale, left, links, calls, aged, mislaid)
    <3>1. drafts' = [drafts EXCEPT !["vault"] = Append(@, [by |-> r, text |-> left, old |-> FALSE])]
      BY <2>1 DEF Draft
    <3>2. FilesStand(stored, drafts, stale, secrets, links, calls, aged, mislaid)
      BY <1>i DEF FilesKept
    <3>3. CallsWrite(calls, calls, secrets, left, r)
      BY <2>3, <3>2, <1>4 DEF FilesStand, VaultStands, CallsWrite
    <3> QED
      BY <3>1, <3>2, <3>3, <2>3, <1>4, VaultWrite, ZenonT(40)
  <2>5. Ordered(orders') /\ IndexStands(index, tools, orders')
    BY <2>1, <1>5
  <2> QED
    BY <2>1, <2>3, <2>4, <2>5, <1>i, <1>m, <1>1 DEF LinkInv, MemoryRows, ToolRows, CallRows
<1>7. CASE k.id \notin DOMAIN secrets
  <2>1. /\ links' = WithoutLink(k.id) /\ Draft("connections", r, WithoutLink(k.id)) /\ UNCHANGED secrets
        /\ orders' = [orders EXCEPT ![r] = [Job(k, {k}, TokenOf(k.id)) EXCEPT !.place = "unlink"]]
    BY <1>2, <1>7
  <2>2. WithoutLink(k.id) \in Seq(Link)
    BY <1>m, LinkedRows
  <2>3. FilesStand(stored, drafts', stale, secrets, WithoutLink(k.id), calls, aged, mislaid)
    BY <2>1, <2>2, <1>i, <1>4, LinksWrite DEF Draft, FilesKept
  <2>4. Ordered(orders') /\ IndexStands(index, tools, orders')
    BY <2>1, <1>5
  <2> QED
    BY <2>1, <2>2, <2>3, <2>4, <1>i, <1>m, <1>1 DEF LinkInv, MemoryRows, ToolRows, CallRows
<1> QED
  BY <1>6, <1>7

\* A request moves from one write to the next: the registry is not concerned.
LEMMA SavingMoves ==
  ASSUME LinkInv, NEW r \in Orders \cup {Start}, NEW p \in OrderPlaces, orders' = OrderTo(r, p),
         orders[r].place \in {"free", "token", "link", "untoken", "unlink", "undoing"},
         p \in Saving => orders[r].place \in Saving
  PROVE  Ordered(orders') /\ IndexStands(index, tools, orders')
<1>1. Ordered(orders) /\ IndexStands(index, tools, orders)
  BY DEF LinkInv
<1>2. p \in Saving => orders[r].link \in Link
  BY <1>1 DEF Ordered
<1>3. /\ Ordered(orders') /\ (orders'[r].done => orders[r].done)
      /\ \A q \in (Orders \cup {Start}) \ {r} : orders'[q] = orders[q]
  BY <1>1, <1>2, OrderedTo
<1>4. ~ orders[r].done /\ orders[r].place \notin {"indexing", "over"}
  BY <1>1 DEF IndexStands
<1> QED
  BY <1>1, <1>3, <1>4, IndexMoves

\* The token is written or gone, and the connection begins.
LEMMA SaveLinkHolds ==
  ASSUME LinkInv, NEW r \in Orders \cup {Start}, SaveLink(r) \/ DropLink(r)
  PROVE  LinkInv'
<1>i. /\ MemoryRows /\ Ordered(orders) /\ ToolRows /\ CallRows /\ FilesKept
      /\ IndexStands(index, tools, orders)
  BY DEF LinkInv, FilesKept
<1>m. links \in Seq(Link) /\ secrets \in Vaults
  BY <1>i DEF MemoryRows
<1>1. PICK p \in {"link", "unlink"},
           lk2 \in {WithLink(orders[r].link), WithoutLink(orders[r].link.id)} :
         /\ orders[r].place \in {"token", "untoken"}
         /\ links' = lk2 /\ LandAndDraft("vault", r, "connections", lk2) /\ orders' = OrderTo(r, p)
         /\ UNCHANGED <<secrets, tools, index, calls, aged, mislaid, mishaps>>
  BY DEF SaveLink, DropLink
<1>2. orders[r].link \in Link /\ orders[r].place \in Saving
  BY <1>1, <1>i DEF Ordered, Saving
<1>3. lk2 \in Seq(Link)
  BY <1>1, <1>2, <1>m, LinkedRows
<1>4. FilesStand(stored', drafts', stale', secrets, lk2, calls, aged, mislaid)
  BY <1>1, <1>3, <1>i, OrdersApart, LandAndLink
<1>5. Ordered(orders') /\ IndexStands(index, tools, orders')
  BY <1>1, <1>2, SavingMoves DEF OrderPlaces
<1> QED
  BY <1>1, <1>3, <1>4, <1>5, <1>i, <1>m DEF LinkInv, MemoryRows, ToolRows, CallRows

\* What a failed save or deletion puts back: no arguments are touched.
LEMMA FailHolds ==
  ASSUME LinkInv, NEW r \in Orders \cup {Start}, NEW f \in Files, NEW s2, NEW lk2, NEW more, NEW p,
         orders[r].place \in Saving, p \in {"undoing", "over"},
         lk2 \in Seq(Link), s2 \in Vaults,
         \A c \in Invocations : (c \in DOMAIN s2) <=> (c \in DOMAIN secrets),
         more = <<>> \/ more = [g \in {"vault"} |-> s2],
         links' = lk2, secrets' = s2, Spoil(f, r, more), orders' = OrderTo(r, p),
         UNCHANGED <<tools, index, calls, aged>>
  PROVE  LinkInv'
<1>i. /\ MemoryRows /\ Ordered(orders) /\ ToolRows /\ CallRows /\ FilesKept
      /\ IndexStands(index, tools, orders)
  BY DEF LinkInv, FilesKept
<1>1. r \in Writers /\ r \notin Invocations
  BY OrdersApart
<1>2. CallsSpoil(calls, calls, secrets, s2)
  BY DEF CallsSpoil
<1>3. /\ FilesStand(stored', drafts', stale', s2, lk2, calls, aged, mislaid')
      /\ mislaid' = mislaid \cup {"left"} /\ mishaps' = mishaps + 1 /\ mishaps < MaxMishaps
  BY <1>1, <1>2, <1>i, SpoilKeeps
<1>4. Ordered(orders') /\ IndexStands(index, tools, orders')
  <2>1. p \in OrderPlaces /\ p \notin Saving
    BY DEF OrderPlaces, Saving
  <2> QED
    BY <2>1, SavingMoves DEF Saving
<1>5. CallRows'
  BY <1>3, <1>i, MishapRows DEF CallRows
<1> QED
  BY <1>3, <1>4, <1>5, <1>i DEF LinkInv, MemoryRows, ToolRows

\* A failed save puts back what it found.
LEMMA FailSaveHolds ==
  ASSUME LinkInv, NEW r \in Orders \cup {Start}, FailSave(r)
  PROVE  LinkInv'
<1>i. MemoryRows /\ Ordered(orders)
  BY DEF LinkInv
<1>m. links \in Seq(Link) /\ secrets \in Vaults
  BY <1>i DEF MemoryRows
<1> DEFINE writes == orders[r].old # NoToken \/ orders[r].link.id \in DOMAIN secrets
           more == IF writes THEN [g \in {"vault"} |-> ReturnedToken(r)] ELSE <<>>
           p == IF writes THEN "undoing" ELSE "over"
<1>1. PICK f \in Files :
         /\ orders[r].place = (IF f = "vault" THEN "token" ELSE "link")
         /\ links' = Reverted(r)
         /\ secrets' = ReturnedToken(r)
         /\ Spoil(f, r, more)
         /\ orders' = OrderTo(r, p)
         /\ UNCHANGED <<tools, index, calls, aged>>
  BY DEF FailSave
<1>2. orders[r].place \in Saving /\ orders[r].link \in Link /\ orders[r] \in OrderRecords
  BY <1>1, <1>i DEF Ordered, Saving
<1>3. orders[r].was \in SUBSET Link /\ orders[r].old \in Secret
  BY <1>2 DEF OrderRecords
<1>4. Reverted(r) \in Seq(Link)
  <2>1. orders[r].was # {} => (CHOOSE k \in orders[r].was : TRUE) \in Link
    BY <1>3
  <2> QED
    BY <2>1, <1>m, LinkedRows DEF Reverted
<1>5. orders[r].link.id \in Tags /\ orders[r].link.id \notin Invocations
  BY <1>2, OrdersApart
<1>6. ReturnedToken(r) \in Vaults
      /\ \A c \in Invocations : (c \in DOMAIN ReturnedToken(r)) <=> (c \in DOMAIN secrets)
  <2> DEFINE id == orders[r].link.id
             old == orders[r].old
  <2>1. id \in Tags /\ old \in Secret /\ id \notin Invocations
    BY <1>3, <1>5
  <2>2. ReturnedToken(r) = IF old = NoToken THEN WithoutSecret(id) ELSE WithSecret(id, old)
    BY DEF ReturnedToken
  <2> HIDE DEF id, old
  <2>3. /\ WithSecret(id, old) \in Vaults /\ DOMAIN WithSecret(id, old) = DOMAIN secrets \cup {id}
        /\ WithoutSecret(id) \in Vaults /\ DOMAIN WithoutSecret(id) = DOMAIN secrets \ {id}
    BY <2>1, <1>m, SecretRows
  <2> QED
    BY <2>1, <2>2, <2>3
<1>7. (more = <<>> \/ more = [g \in {"vault"} |-> ReturnedToken(r)]) /\ p \in {"undoing", "over"}
  OBVIOUS
<1> HIDE DEF writes, more, p
<1> QED
  BY <1>1, <1>2, <1>4, <1>6, <1>7, FailHolds

\* A failed deletion does the same.
LEMMA FailDeleteHolds ==
  ASSUME LinkInv, NEW r \in Orders \cup {Start}, FailDelete(r)
  PROVE  LinkInv'
<1>i. MemoryRows /\ Ordered(orders)
  BY DEF LinkInv
<1>m. links \in Seq(Link) /\ secrets \in Vaults
  BY <1>i DEF MemoryRows
<1> DEFINE back == WithSecret(orders[r].link.id, orders[r].old)
<1>1. PICK f \in Files :
         /\ orders[r].place = (IF f = "vault" THEN "untoken" ELSE "unlink")
         /\ links' = WithLink(orders[r].link)
         /\ IF orders[r].old # NoToken
            THEN /\ secrets' = back
                 /\ Spoil(f, r, [g \in {"vault"} |-> back])
                 /\ orders' = OrderTo(r, "undoing")
            ELSE /\ UNCHANGED secrets
                 /\ Spoil(f, r, <<>>)
                 /\ orders' = OrderTo(r, "over")
         /\ UNCHANGED <<tools, index, calls, aged>>
  BY DEF FailDelete
<1>2. orders[r].place \in Saving /\ orders[r].link \in Link /\ orders[r] \in OrderRecords
  BY <1>1, <1>i DEF Ordered, Saving
<1>3. orders[r].old \in Secret
  BY <1>2 DEF OrderRecords
<1>4. WithLink(orders[r].link) \in Seq(Link)
  BY <1>2, <1>m, LinkedRows
<1>5. orders[r].link.id \in Tags /\ orders[r].link.id \notin Invocations
  BY <1>2, OrdersApart
<1>6. back \in Vaults /\ \A c \in Invocations : (c \in DOMAIN back) <=> (c \in DOMAIN secrets)
  <2> DEFINE id == orders[r].link.id
             old == orders[r].old
  <2>1. id \in Tags /\ old \in Secret /\ id \notin Invocations
    BY <1>3, <1>5
  <2>2. back = WithSecret(id, old)
    OBVIOUS
  <2> HIDE DEF id, old, back
  <2>3. WithSecret(id, old) \in Vaults /\ DOMAIN WithSecret(id, old) = DOMAIN secrets \cup {id}
    BY <2>1, <1>m, SecretRows
  <2> QED
    BY <2>1, <2>2, <2>3
<1> HIDE DEF back
<1>7. CASE orders[r].old # NoToken
  BY <1>1, <1>2, <1>4, <1>6, <1>7, FailHolds
<1>8. CASE orders[r].old = NoToken
  BY <1>1, <1>2, <1>4, <1>8, <1>m, FailHolds
<1> QED
  BY <1>7, <1>8

\* The token put back is written, or that fails too.
LEMMA EndUndoingHolds ==
  ASSUME LinkInv, NEW r \in Orders \cup {Start}, EndUndoing(r)
  PROVE  LinkInv'
<1>i. /\ MemoryRows /\ Ordered(orders) /\ ToolRows /\ CallRows /\ FilesKept
      /\ IndexStands(index, tools, orders)
  BY DEF LinkInv, FilesKept
<1>m. links \in Seq(Link) /\ secrets \in Vaults
  BY <1>i DEF MemoryRows
<1>1. /\ orders[r].place = "undoing"
      /\ (LandDraft("vault", r) /\ UNCHANGED <<mislaid, mishaps>>) \/ Spoil("vault", r, <<>>)
      /\ orders' = OrderTo(r, "over")
      /\ UNCHANGED <<links, secrets, tools, index, calls, aged>>
  BY DEF EndUndoing
<1>2. r \in Writers /\ r \notin Invocations
  BY OrdersApart
<1>3. Ordered(orders') /\ IndexStands(index, tools, orders')
  BY <1>1, SavingMoves DEF OrderPlaces, Saving
<1>4. FilesStand(stored', drafts', stale', secrets, links, calls, aged, mislaid') /\ CallRows'
  <2>1. CASE LandDraft("vault", r) /\ UNCHANGED <<mislaid, mishaps>>
    <3>1. CallsLand(calls, calls, "vault", r)
      BY DEF CallsLand
    <3> QED
      BY <3>1, <2>1, <1>1, <1>i, FilesKnown, LandKeeps DEF CallRows
  <2>2. CASE Spoil("vault", r, <<>>)
    <3>1. CallsSpoil(calls, calls, secrets, secrets)
      BY DEF CallsSpoil
    <3>2. /\ FilesStand(stored', drafts', stale', secrets, links, calls, aged, mislaid')
          /\ mislaid' = mislaid \cup {"left"} /\ mishaps' = mishaps + 1 /\ mishaps < MaxMishaps
      BY <3>1, <2>2, <1>2, <1>i, <1>m, FilesKnown, SpoilKeeps
    <3> QED
      BY <3>2, <1>1, <1>i, MishapRows DEF CallRows
  <2> QED
    BY <2>1, <2>2, <1>1
<1> QED
  BY <1>1, <1>3, <1>4, <1>i DEF LinkInv, MemoryRows, ToolRows

\* The catalogue is read again.
LEMMA RefreshHolds ==
  ASSUME LinkInv, NEW r \in Orders \cup {Start}, orders[r].place \notin {"indexing", "over"},
         BeginRefresh(r, NoOrder)
  PROVE  Ordered(orders') /\ IndexStands(index, tools', orders') /\ tools' \in SUBSET AllTools
<1>1. links \in Seq(Link) /\ Ordered(orders) /\ IndexStands(index, tools, orders) /\ tools \in SUBSET AllTools
  BY DEF LinkInv, MemoryRows, ToolRows
<1>2. orders' = Discovered(r, NoOrder) /\ tools' = IF Enabled = {} THEN {} ELSE tools
  BY DEF BeginRefresh
<1>3. /\ Ordered(orders') /\ ~ orders'[r].done /\ orders'[r].place \in {"indexing", "asking"}
      /\ tools' # tools => orders'[r].place = "indexing"
      /\ \A q \in (Orders \cup {Start}) \ {r} : orders'[q] = orders[q]
  BY <1>1, <1>2, RefreshRows
<1>4. IndexStands(index, tools', orders')
  BY <1>1, <1>3, IndexMoves
<1> QED
  BY <1>1, <1>2, <1>3, <1>4

\* The connection is written or gone, a test succeeds, or the server has started.
LEMMA ChangedHolds ==
  ASSUME LinkInv, NEW r \in Orders \cup {Start}, Changed(r) \/ TestLink(r) \/ (r = Start /\ StartDiscovery)
  PROVE  LinkInv'
<1>i. /\ MemoryRows /\ ToolRows /\ CallRows /\ FilesKept
  BY DEF LinkInv, FilesKept
<1>1. /\ orders[r].place \in {"link", "unlink", "free"} /\ BeginRefresh(r, NoOrder)
      /\ UNCHANGED <<links, secrets, index, calls, aged, mislaid, mishaps>>
      /\ LandDraft("connections", r) \/ UNCHANGED <<stored, drafts, stale>>
  BY DEF Changed, TestLink, StartDiscovery
<1>2. Ordered(orders') /\ IndexStands(index, tools', orders') /\ tools' \in SUBSET AllTools
  BY <1>1, RefreshHolds
<1>3. FilesStand(stored', drafts', stale', secrets, links, calls, aged, mislaid)
  <2>1. CASE LandDraft("connections", r)
    <3>1. CallsLand(calls, calls, "connections", r)
      BY DEF CallsLand
    <3> QED
      BY <3>1, <2>1, <1>i, FilesKnown, LandKeeps
  <2>2. CASE UNCHANGED <<stored, drafts, stale>>
    BY <2>2, <1>i DEF FilesKept
  <2> QED
    BY <2>1, <2>2, <1>1
<1> QED
  BY <1>1, <1>2, <1>3, <1>i DEF LinkInv, MemoryRows, ToolRows, CallRows

\* The steps of the catalogue and the registry.
LEMMA CatalogueHolds ==
  ASSUME LinkInv, NEW r \in Orders \cup {Start},
         Discover(r) \/ Reindex(r) \/ TimeOutRefresh(r) \/ DiscoverLate(r)
  PROVE  LinkInv'
<1>i. /\ MemoryRows /\ Ordered(orders) /\ ToolRows /\ CallRows /\ FilesKept
      /\ IndexStands(index, tools, orders)
  BY DEF LinkInv, FilesKept
<1>r. orders[r] \in OrderRecords /\ orders[r].found \in SUBSET AllTools
  BY <1>i DEF Ordered, OrderRecords
<1>1. ASSUME UNCHANGED <<links, secrets, stored, drafts, stale, calls, aged, mislaid>>,
             mishaps' = mishaps \/ (mishaps < MaxMishaps /\ mishaps' = mishaps + 1),
             Ordered(orders'), ToolRows', IndexStands(index', tools', orders')
      PROVE  LinkInv'
  <2>1. CallRows'
    BY <1>1, <1>i, IntegrationsAssumption DEF CallRows
  <2> QED
    BY <2>1, <1>1, <1>i DEF LinkInv, MemoryRows, FilesKept
<1>2. CASE Discover(r)
  <2>1. /\ orders[r].place = "asking" /\ orders' = OrderTo(r, "indexing")
        /\ tools' = orders[r].found \/ tools' = {}
        /\ UNCHANGED <<links, secrets, stored, drafts, stale, index, calls, aged, mislaid>>
        /\ mishaps' = mishaps \/ (mishaps < MaxMishaps /\ mishaps' = mishaps + 1)
    BY <1>2 DEF Discover
  <2>2. /\ Ordered(orders') /\ orders'[r].place = "indexing" /\ (orders'[r].done => orders[r].done)
        /\ \A q \in (Orders \cup {Start}) \ {r} : orders'[q] = orders[q]
    BY <2>1, <1>i, OrderedTo DEF OrderPlaces, Saving
  <2>3. ~ orders[r].done
    BY <2>1, <1>i DEF IndexStands
  <2>4. IndexStands(index, tools', orders')
    BY <2>1, <2>2, <2>3, <1>i, IndexMoves
  <2>5. ToolRows'
    BY <2>1, <1>i, <1>r DEF ToolRows
  <2> QED
    BY <2>1, <2>2, <2>4, <2>5, <1>1
<1>3. CASE Reindex(r)
  <2>1. /\ orders[r].place = "indexing" /\ orders' = OrderTo(r, "over") /\ index' = tools
        /\ UNCHANGED <<links, secrets, stored, drafts, stale, tools, calls, aged, mislaid, mishaps>>
    BY <1>3 DEF Reindex, IndexTools
  <2>2. /\ Ordered(orders') /\ orders'[r].place = "over"
        /\ \A q \in (Orders \cup {Start}) \ {r} : orders'[q] = orders[q]
    BY <2>1, <1>i, OrderedTo DEF OrderPlaces, Saving
  <2>3. IndexStands(index', tools', orders')
    BY <2>1, <2>2, <1>i DEF IndexStands
  <2>4. ToolRows'
    BY <2>1, <1>i DEF ToolRows
  <2> QED
    BY <2>1, <2>2, <2>3, <2>4, <1>1
<1>4. CASE TimeOutRefresh(r)
  <2>1. /\ orders[r].place = "asking" /\ orders' = OrderTo(r, "late") /\ tools' = {} /\ index' = {}
        /\ mishaps < MaxMishaps /\ mishaps' = mishaps + 1
        /\ UNCHANGED <<links, secrets, stored, drafts, stale, calls, aged, mislaid>>
    BY <1>4 DEF TimeOutRefresh
  <2>2. /\ Ordered(orders') /\ orders'[r].place = "late" /\ (orders'[r].done => orders[r].done)
        /\ \A q \in (Orders \cup {Start}) \ {r} : orders'[q] = orders[q]
    BY <2>1, <1>i, OrderedTo DEF OrderPlaces, Saving
  <2>3. IndexStands(index', tools', orders')
    BY <2>1, <2>2, <1>i DEF IndexStands
  <2>4. ToolRows'
    BY <2>1 DEF ToolRows
  <2> QED
    BY <2>1, <2>2, <2>3, <2>4, <1>1
<1>5. CASE DiscoverLate(r)
  <2> DEFINE os == OrderTo(r, "over")
  <2>1. /\ orders[r].place = "late" /\ orders' = [os EXCEPT ![r].done = TRUE]
        /\ tools' = orders[r].found \/ tools' = {}
        /\ UNCHANGED <<links, secrets, stored, drafts, stale, index, calls, aged, mislaid, mishaps>>
    BY <1>5 DEF DiscoverLate
  <2>2. /\ Ordered(os) /\ os[r].place = "over"
        /\ \A q \in (Orders \cup {Start}) \ {r} : os[q] = orders[q]
    BY <2>1, <1>i, OrderedTo DEF OrderPlaces, Saving
  <2> HIDE DEF os
  <2>3. /\ os[r] \in OrderRecords
        /\ [os[r] EXCEPT !.done = TRUE] \in OrderRecords /\ [os[r] EXCEPT !.done = TRUE].place = "over"
        /\ [os[r] EXCEPT !.done = TRUE].done = TRUE
    <3>1. os[r] \in OrderRecords
      BY <2>2 DEF Ordered
    <3> QED
      BY <3>1, <2>2 DEF OrderRecords
  <2>4. /\ orders' \in [Orders \cup {Start} -> OrderRecords]
        /\ orders'[r] = [os[r] EXCEPT !.done = TRUE]
        /\ \A q \in (Orders \cup {Start}) \ {r} : orders'[q] = os[q]
    BY <2>1, <2>2, <2>3 DEF Ordered
  <2>5. Ordered(orders')
    BY <2>2, <2>3, <2>4 DEF Ordered, Saving
  <2>6. IndexStands(index', tools', orders')
    BY <2>2, <2>3, <2>4, <1>i DEF IndexStands
  <2>7. ToolRows'
    BY <2>1, <1>i, <1>r DEF ToolRows
  <2> QED
    BY <2>1, <2>5, <2>6, <2>7, <1>1
<1> QED
  BY <1>2, <1>3, <1>4, <1>5

\* The arguments of a call are stored.
LEMMA ProposeHolds ==
  ASSUME LinkInv, NEW c \in Invocations, ProposeCall(c)
  PROVE  LinkInv'
<1>i. /\ MemoryRows /\ ToolRows /\ CallRows /\ FilesKept
  BY DEF LinkInv, FilesKept
<1>m. links \in Seq(Link) /\ secrets \in Vaults
  BY <1>i DEF MemoryRows
<1> DEFINE s2 == WithSecret(c, "arguments")
<1>1. /\ calls[c] = "new" /\ calls' = [calls EXCEPT ![c] = "storing"] /\ secrets' = s2
      /\ drafts' = [drafts EXCEPT !["vault"] = Append(@, [by |-> c, text |-> s2, old |-> FALSE])]
      /\ UNCHANGED <<links, stored, stale, orders, tools, index, aged, mislaid, mishaps>>
  BY DEF ProposeCall, Draft
<1>2. s2 \in Vaults /\ DOMAIN s2 = DOMAIN secrets \cup {c}
  BY <1>m, OrdersApart, SecretRows DEF Secret
<1> HIDE DEF s2
<1>3. FilesStand(stored, drafts, stale, secrets, links, calls, aged, mislaid)
  BY <1>i DEF FilesKept
<1>4. calls' \in [Invocations -> CallPlaces] /\ calls'[c] = "storing"
      /\ \A d \in Invocations \ {c} : calls'[d] = calls[d]
  BY <1>1, <1>i DEF CallRows, CallPlaces
<1>5. CallsWrite(calls, calls', secrets, s2, c)
  <2> SUFFICES ASSUME NEW d \in Invocations
               PROVE  /\ calls'[d] = "new" => calls[d] = "new" /\ c # d
                      /\ calls'[d] = "storing" => d \in DOMAIN s2 /\ calls[d] \in {"new", "storing"}
                      /\ calls'[d] = "parked" => calls[d] = "parked" /\ (d \in DOMAIN secrets => d \in DOMAIN s2)
                      /\ calls'[d] \in {"clearing", "settled"} =>
                            d \notin DOMAIN s2 \/ (calls[d] \in {"clearing", "settled"} /\ d \in DOMAIN secrets)
    BY DEF CallsWrite
  <2>1. CASE d = c
    BY <2>1, <1>1, <1>2, <1>4
  <2>2. CASE d # c
    <3>1. calls[d] = "storing" => d \in DOMAIN secrets
      BY <1>3 DEF FilesStand, VaultStands
    <3> QED
      BY <3>1, <2>2, <1>2, <1>4
  <2> QED
    BY <2>1, <2>2
<1>6. FilesStand(stored, drafts', stale, s2, links, calls', aged, mislaid)
  BY <1>1, <1>2, <1>3, <1>5, OrdersApart, VaultWrite
<1> QED
  BY <1>1, <1>2, <1>4, <1>6, <1>i, <1>m DEF LinkInv, MemoryRows, ToolRows, CallRows

\* They are written, or not.
LEMMA StoreHolds ==
  ASSUME LinkInv, NEW c \in Invocations, StoreCall(c) \/ Cleared(c)
  PROVE  LinkInv'
<1>i. /\ MemoryRows /\ ToolRows /\ CallRows /\ FilesKept
  BY DEF LinkInv, FilesKept
<1>m. links \in Seq(Link) /\ secrets \in Vaults
  BY <1>i DEF MemoryRows
<1>1. PICK p \in {"parked", "unsaid", "settled"} :
         /\ calls' = [calls EXCEPT ![c] = p]
         /\ calls[c] = (IF p = "settled" THEN "clearing" ELSE "storing")
         /\ \/ LandDraft("vault", c) /\ UNCHANGED <<mislaid, mishaps>>
            \/ Spoil("vault", c, <<>>) /\ p # "parked"
         /\ UNCHANGED <<links, secrets, orders, tools, index, aged>>
  BY DEF StoreCall, Cleared, Settle
<1>2. calls' \in [Invocations -> CallPlaces] /\ calls'[c] = p
      /\ \A d \in Invocations \ {c} : calls'[d] = calls[d]
  BY <1>1, <1>i DEF CallRows, CallPlaces
<1>3. FilesStand(stored', drafts', stale', secrets, links, calls', aged, mislaid') /\ CallRows'
  <2>1. CASE LandDraft("vault", c) /\ UNCHANGED <<mislaid, mishaps>>
    <3>1. CallsLand(calls, calls', "vault", c)
      BY <1>1, <1>2 DEF CallsLand
    <3>2. FilesStand(stored', drafts', stale', secrets, links, calls', aged, mislaid)
      BY <3>1, <2>1, <1>i, FilesKnown, LandKeeps
    <3> QED
      BY <3>2, <2>1, <1>1, <1>2, <1>i DEF CallRows
  <2>2. CASE Spoil("vault", c, <<>>) /\ p # "parked"
    <3>1. CallsSpoil(calls, calls', secrets, secrets)
      BY <2>2, <1>1, <1>2 DEF CallsSpoil
    <3>2. /\ FilesStand(stored', drafts', stale', secrets, links, calls', aged, mislaid')
          /\ mislaid' = mislaid \cup {"left"} /\ mishaps' = mishaps + 1 /\ mishaps < MaxMishaps
      BY <3>1, <2>2, <1>i, <1>m, OrdersApart, FilesKnown, SpoilKeeps
    <3> QED
      BY <3>2, <1>1, <1>2, <1>i, MishapRows
  <2> QED
    BY <2>1, <2>2, <1>1
<1> QED
  BY <1>1, <1>3, <1>i DEF LinkInv, MemoryRows, ToolRows

\* A call goes out, or a day passes for its arguments.
LEMMA ExecuteHolds ==
  ASSUME LinkInv, NEW c \in Invocations, ExecuteCall(c) \/ Grow(c)
  PROVE  LinkInv'
<1>i. /\ MemoryRows /\ ToolRows /\ CallRows /\ FilesKept
  BY DEF LinkInv, FilesKept
<1>1. /\ calls[c] = "parked" /\ aged \subseteq aged' /\ aged' \subseteq Invocations
      /\ \/ calls' = [calls EXCEPT ![c] = IF c \in DOMAIN secrets THEN "calling" ELSE "settled"]
         \/ calls' = calls
      /\ UNCHANGED <<links, secrets, stored, drafts, stale, orders, tools, index, mislaid, mishaps>>
  BY <1>i DEF ExecuteCall, Grow, CallRows
<1>2. /\ calls' \in [Invocations -> CallPlaces]
      /\ calls'[c] \in {"calling", "settled", "parked"} /\ (calls'[c] = "settled" => c \notin DOMAIN secrets)
      /\ \A d \in Invocations \ {c} : calls'[d] = calls[d]
  BY <1>1, <1>i DEF CallRows, CallPlaces
<1>3. FilesStand(stored, drafts, stale, secrets, links, calls, aged, mislaid)
  BY <1>i DEF FilesKept
<1>4. \A d \in Invocations :
         /\ calls'[d] \in {"new", "storing", "parked"} => calls[d] = calls'[d]
         /\ calls'[d] \in {"clearing", "settled"} => d \notin DOMAIN secrets \/ calls[d] \in {"clearing", "settled"}
  BY <1>1, <1>2
<1>5. FilesStand(stored, drafts, stale, secrets, links, calls', aged', mislaid)
  BY <1>1, <1>3, <1>4, FilesRest
<1> QED
  BY <1>1, <1>2, <1>5, <1>i DEF LinkInv, MemoryRows, ToolRows, CallRows

\* The arguments of a call that has ended, or was refused, are taken out.
LEMMA ClearHolds ==
  ASSUME LinkInv, NEW c \in Invocations, EndCall(c) \/ DiscardCall(c)
  PROVE  LinkInv'
<1>i. /\ MemoryRows /\ ToolRows /\ CallRows /\ FilesKept
  BY DEF LinkInv, FilesKept
<1>m. links \in Seq(Link) /\ secrets \in Vaults
  BY <1>i DEF MemoryRows
<1> DEFINE s2 == WithoutSecret(c)
           p == IF c \in DOMAIN secrets THEN "clearing" ELSE "settled"
<1>1. /\ calls[c] \in {"calling", "parked"} /\ secrets' = s2 /\ calls' = [calls EXCEPT ![c] = p]
      /\ IF c \in DOMAIN secrets
         THEN drafts' = [drafts EXCEPT !["vault"] = Append(@, [by |-> c, text |-> s2, old |-> FALSE])]
         ELSE UNCHANGED drafts
      /\ UNCHANGED <<links, stored, stale, orders, tools, index, aged, mislaid, mishaps>>
  BY DEF EndCall, DiscardCall, Clear, Draft
<1>2. s2 \in Vaults /\ DOMAIN s2 = DOMAIN secrets \ {c}
  BY <1>m, OrdersApart, SecretRows DEF Secret
<1>3. ASSUME c \notin DOMAIN secrets
      PROVE  s2 = secrets
  <2>1. secrets = [x \in DOMAIN secrets |-> secrets[x]]
    BY <1>m, VaultRow
  <2>2. DOMAIN secrets \ {c} = DOMAIN secrets
    BY <1>3
  <2> QED
    BY <2>1, <2>2 DEF WithoutSecret
<1>4. p \in {"clearing", "settled"}
  OBVIOUS
<1> HIDE DEF s2, p
<1>5. FilesStand(stored, drafts, stale, secrets, links, calls, aged, mislaid)
  BY <1>i DEF FilesKept
<1>6. calls' \in [Invocations -> CallPlaces] /\ calls'[c] = p
      /\ \A d \in Invocations \ {c} : calls'[d] = calls[d]
  BY <1>1, <1>4, <1>i DEF CallRows, CallPlaces
<1>7. FilesStand(stored, drafts', stale, s2, links, calls', aged, mislaid)
  <2>1. CASE c \in DOMAIN secrets
    <3>1. CallsWrite(calls, calls', secrets, s2, c)
      <4> SUFFICES ASSUME NEW d \in Invocations
                   PROVE  /\ calls'[d] = "new" => calls[d] = "new" /\ c # d
                          /\ calls'[d] = "storing" => d \in DOMAIN s2 /\ calls[d] \in {"new", "storing"}
                          /\ calls'[d] = "parked" =>
                                calls[d] = "parked" /\ (d \in DOMAIN secrets => d \in DOMAIN s2)
                          /\ calls'[d] \in {"clearing", "settled"} =>
                                d \notin DOMAIN s2 \/ (calls[d] \in {"clearing", "settled"} /\ d \in DOMAIN secrets)
        BY DEF CallsWrite
      <4>1. CASE d = c
        BY <4>1, <1>2, <1>4, <1>6
      <4>2. CASE d # c
        <5>1. calls[d] = "storing" => d \in DOMAIN secrets
          BY <1>5 DEF FilesStand, VaultStands
        <5> QED
          BY <5>1, <4>2, <1>2, <1>6
      <4> QED
        BY <4>1, <4>2
    <3> QED
      BY <3>1, <2>1, <1>1, <1>2, <1>5, OrdersApart, VaultWrite
  <2>2. CASE c \notin DOMAIN secrets
    <3>1. \A d \in Invocations :
             /\ calls'[d] \in {"new", "storing", "parked"} => calls[d] = calls'[d]
             /\ calls'[d] \in {"clearing", "settled"} => d \notin DOMAIN secrets \/ calls[d] \in {"clearing", "settled"}
      BY <2>2, <1>4, <1>6
    <3> QED
      BY <3>1, <2>2, <1>1, <1>3, <1>5, FilesRest
  <2> QED
    BY <2>1, <2>2
<1> QED
  BY <1>1, <1>2, <1>6, <1>7, <1>i, <1>m DEF LinkInv, MemoryRows, ToolRows, CallRows

\* The server dies and starts: the files are what is left, and what was swept of
\* the vault is more than a day old.
LEMMA DieHolds ==
  ASSUME LinkInv, DieLinked
  PROVE  LinkInv'
<1>i. /\ MemoryRows /\ Ordered(orders) /\ ToolRows /\ CallRows
      /\ FilesStand(stored, drafts, stale, secrets, links, calls, aged, mislaid)
  BY DEF LinkInv
<1>f. Filed(stored, drafts, stale) /\ VaultStands(secrets, drafts["vault"], stored["vault"], stale, calls, aged, mislaid)
  BY <1>i DEF FilesStand
<1> DEFINE v == stored["vault"]
           left == [f \in Files |-> <<>>]
           ml == mislaid \cup {"left"} \cup (IF "vault" \in stale THEN {"taken"} ELSE {})
<1>1. /\ mishaps < MaxMishaps /\ mishaps' = mishaps + 1 /\ links' = stored["connections"]
      /\ secrets' = Swept /\ stored' = [stored EXCEPT !["vault"] = Swept]
      /\ drafts' = left /\ mislaid' = ml /\ stale' = {} /\ tools' = {} /\ index' = {} /\ aged' = aged
      /\ orders' = [r \in DOMAIN orders |->
                      IF r = Start \/ orders[r].place = "free" THEN NoOrder
                      ELSE [NoOrder EXCEPT !.place = "over"]]
      /\ calls' = [c \in Invocations |-> CASE calls[c] \in {"calling", "clearing"} -> "settled"
                                           [] calls[c] = "storing" -> "unsaid"
                                           [] OTHER -> calls[c]]
  BY DEF DieLinked, Reopen
<1>2. v \in Vaults /\ stored["connections"] \in Seq(Link)
  BY <1>f, FilesKnown DEF Filed
<1>3. Swept \in Vaults /\ DOMAIN Swept = DOMAIN v \ (DOMAIN v \cap aged)
  <2>1. Swept = [x \in DOMAIN v \ Expired |-> v[x]] /\ Expired = DOMAIN v \cap aged
    BY DEF Swept, Expired
  <2>2. DOMAIN v \subseteq Tags /\ \A x \in DOMAIN v : v[x] \in Secret
    BY <1>2, VaultRow
  <2> HIDE DEF v
  <2> QED
    BY <2>1, <2>2, VaultRow
<1>4. MemoryRows'
  BY <1>1, <1>2, <1>3 DEF MemoryRows
<1>5. Ordered(orders') /\ IndexStands(index', tools', orders') /\ ToolRows'
  <2>1. DOMAIN orders = Orders \cup {Start}
    BY <1>i DEF Ordered
  <2>2. \A r \in Orders \cup {Start} : orders'[r] = NoOrder \/ orders'[r] = [NoOrder EXCEPT !.place = "over"]
    BY <2>1, <1>1
  <2>3. \A r \in Orders \cup {Start} : orders'[r] \in OrderRecords /\ orders'[r].place \notin Saving
                                       /\ ~ orders'[r].done
    BY <2>2, NoOrderRow DEF OrderPlaces, Saving
  <2>4. Ordered(orders')
    BY <2>1, <2>3, <1>1 DEF Ordered
  <2> QED
    BY <2>3, <2>4, <1>1 DEF IndexStands, ToolRows
<1>6. /\ CallRows'
      /\ \A c \in Invocations : /\ calls'[c] # "storing"
                                /\ calls'[c] \in {"new", "parked"} => calls[c] = calls'[c]
  <2>1. \A c \in Invocations : calls'[c] \in CallPlaces
    BY <1>1, <1>i DEF CallRows, CallPlaces
  <2>2. calls' \in [Invocations -> CallPlaces]
    BY <2>1, <1>1
  <2>3. mislaid' \subseteq {"left", "taken"} /\ mishaps' \in 0 .. MaxMishaps /\ aged' \subseteq Invocations
    BY <1>1, <1>i, IntegrationsAssumption DEF CallRows
  <2> QED
    BY <2>2, <2>3, <1>1 DEF CallRows
<1>7. ml # {} /\ ("taken" \notin ml => "taken" \notin mislaid /\ "vault" \notin stale)
  OBVIOUS
<1>8. Filed(stored', drafts', stale')
  <2>1. stored = [f \in Files |-> stored[f]] /\ \A f \in Files : stored[f] \in Texts(f)
    BY <1>f DEF Filed
  <2>2. /\ stored' = [f \in Files |-> stored'[f]] /\ \A f \in Files : stored'[f] \in Texts(f)
    BY <2>1, <1>1, <1>3, FilesKnown
  <2>3. \A f \in Files : left[f] = <<>> /\ <<>> \in Seq(DraftOf(f))
    OBVIOUS
  <2> QED
    BY <2>2, <2>3, <1>1 DEF Filed
<1>9. stored'["vault"] = Swept /\ drafts'["vault"] = <<>> /\ Len(drafts'["vault"]) = 0
  BY <1>1, <1>f, FilesKnown DEF Filed
<1> HIDE DEF ml, left, v
<1>10. VaultStands(secrets', drafts'["vault"], stored'["vault"], stale', calls', aged', mislaid')
  <2>1. \A c \in Invocations \ aged : calls'[c] = "parked" /\ "taken" \notin ml
           => c \in DOMAIN Swept /\ Keeps(c, drafts'["vault"], stored'["vault"], stale')
    <3> SUFFICES ASSUME NEW c \in Invocations \ aged, calls'[c] = "parked", "taken" \notin ml
                 PROVE  c \in DOMAIN Swept /\ Keeps(c, drafts'["vault"], stored'["vault"], stale')
      OBVIOUS
    <3>1. calls[c] = "parked"
      BY <1>6
    <3>2. Keeps(c, drafts["vault"], stored["vault"], stale)
      BY <3>1, <1>7, <1>f DEF VaultStands
    <3>3. c \in DOMAIN v
      BY <3>2, <1>7 DEF Keeps, v
    <3>4. c \in DOMAIN Swept
      BY <3>3, <1>3
    <3> QED
      BY <3>4, <1>9 DEF Keeps
  <2>2. \A c \in Invocations : Unheard(c, drafts'["vault"])
    BY <1>9 DEF Unheard
  <2>3. /\ \A c \in Invocations : calls'[c] # "storing"
        /\ mislaid' = ml /\ ml # {} /\ secrets' = Swept /\ aged' = aged
    BY <1>1, <1>6, <1>7
  <2> QED
    BY <2>1, <2>2, <2>3 DEF VaultStands
<1>11. FilesStand(stored', drafts', stale', secrets', links', calls', aged', mislaid')
  BY <1>8, <1>10, <1>1, <1>7 DEF FilesStand
<1> QED
  BY <1>4, <1>5, <1>6, <1>11 DEF LinkInv

-----------------------------------------------------------------------------
(* The vault, the calls, the tools and the registry agree *)

LEMMA LinksStart == LinkInit => LinkInv
<1> SUFFICES ASSUME LinkInit
             PROVE  LinkInv
  OBVIOUS
<1>1. MemoryRows
  <2>1. secrets = <<>> /\ DOMAIN secrets = {} /\ links = <<>>
    BY DEF LinkInit
  <2>2. secrets = [x \in DOMAIN secrets |-> secrets[x]]
    BY <2>1
  <2>3. secrets \in Vaults
    BY <2>1, <2>2, VaultRow
  <2> QED
    BY <2>1, <2>3 DEF MemoryRows
<1>2. Ordered(orders) /\ IndexStands(index, tools, orders) /\ ToolRows
  BY NoOrderRow DEF LinkInit, Ordered, IndexStands, ToolRows, Saving
<1>3. CallRows
  BY IntegrationsAssumption DEF LinkInit, CallRows, CallPlaces
<1>4. Filed(stored, drafts, stale)
  <2>1. \A f \in Files : stored[f] = <<>> /\ drafts[f] = <<>>
    BY DEF LinkInit
  <2>2. <<>> \in Vaults
    BY <1>1 DEF LinkInit, MemoryRows
  <2>3. \A f \in Files : <<>> \in Texts(f) /\ <<>> \in Seq(DraftOf(f))
    BY <2>2 DEF Texts
  <2>4. stored = [f \in Files |-> stored[f]] /\ drafts = [f \in Files |-> drafts[f]]
    BY DEF LinkInit
  <2> QED
    BY <2>1, <2>3, <2>4 DEF Filed, LinkInit
<1>5. FilesStand(stored, drafts, stale, secrets, links, calls, aged, mislaid)
  <2>1. \A f \in Files : stored[f] = <<>> /\ drafts[f] = <<>> /\ Len(drafts[f]) = 0
    BY DEF LinkInit
  <2>2. secrets = <<>> /\ links = <<>> /\ \A c \in Invocations : calls[c] = "new" /\ c \notin DOMAIN secrets
    BY DEF LinkInit
  <2>3. Follows("vault", drafts["vault"], stored["vault"], stale, secrets)
        /\ Follows("connections", drafts["connections"], stored["connections"], stale, links)
    BY <2>1, <2>2, FilesKnown DEF Follows
  <2>4. \A c : Unheard(c, drafts["vault"])
    BY <2>1, FilesKnown DEF Unheard
  <2> QED
    BY <2>2, <2>3, <2>4, <1>4 DEF FilesStand, VaultStands
<1> QED
  BY <1>1, <1>2, <1>3, <1>5 DEF LinkInv

LEMMA StepOfLinks == LinkInv /\ [LinkNext]_linkVars => LinkInv'
<1> SUFFICES ASSUME LinkInv, [LinkNext]_linkVars
             PROVE  LinkInv'
  OBVIOUS
<1>1. CASE OwnerStep
  <2>1. CASE \E r \in Orders, at \in Endpoints, on \in BOOLEAN, change \in Tokens \cup {"keep", "clear"} :
                BeginSave(r, at, on, change)
    BY <2>1, BeginSaveHolds
  <2>2. CASE \E r \in Orders : BeginDelete(r)
    BY <2>2, BeginDeleteHolds
  <2>3. CASE \E r \in Orders : TestLink(r)
    BY <2>3, ChangedHolds
  <2> QED
    BY <1>1, <2>1, <2>2, <2>3 DEF OwnerStep
<1>2. CASE RequestStep
  <2>1. PICK r \in Orders \cup {Start} :
           \/ SaveLink(r) \/ FailSave(r) \/ DropLink(r) \/ FailDelete(r) \/ EndUndoing(r)
           \/ Changed(r) \/ Discover(r) \/ Reindex(r) \/ TimeOutRefresh(r) \/ DiscoverLate(r)
    BY <1>2 DEF RequestStep
  <2> QED
    BY <2>1, SaveLinkHolds, FailSaveHolds, FailDeleteHolds, EndUndoingHolds, ChangedHolds, CatalogueHolds
<1>3. CASE CallStep
  BY <1>3, ProposeHolds, StoreHolds, ExecuteHolds, ClearHolds DEF CallStep
<1>4. CASE DieLinked
  BY <1>4, DieHolds
<1>5. CASE StartDiscovery
  BY <1>5, ChangedHolds
<1>6. CASE UNCHANGED linkVars
  BY <1>6 DEF linkVars, LinkInv, MemoryRows, ToolRows, CallRows
<1> QED
  BY <1>1, <1>2, <1>3, <1>4, <1>5, <1>6 DEF LinkNext

LEMMA LinksHold == LinkInv => LinkTypes /\ ArgumentsFollowCalls /\ IndexFollowsTools
<1> SUFFICES ASSUME LinkInv
             PROVE  LinkTypes /\ ArgumentsFollowCalls /\ IndexFollowsTools
  OBVIOUS
<1>i. /\ links \in Seq(Link) /\ secrets \in Vaults /\ Ordered(orders) /\ ToolRows /\ CallRows
      /\ Filed(stored, drafts, stale)
      /\ VaultStands(secrets, drafts["vault"], stored["vault"], stale, calls, aged, mislaid)
      /\ mislaid = {} => Follows("connections", drafts["connections"], stored["connections"], stale, links)
      /\ IndexStands(index, tools, orders)
  BY DEF LinkInv, MemoryRows, FilesStand
<1>1. LinkTypes
  <2>1. (\A i \in DOMAIN links : links[i] \in Link) /\ DOMAIN secrets \subseteq Orders \cup Invocations
    BY <1>i, VaultRow DEF Tags
  <2>2. DOMAIN stored = Files /\ DOMAIN drafts = Files /\ stale \subseteq Files
    BY <1>i DEF Filed
  <2>3. \A r \in DOMAIN orders : orders[r].place \in OrderPlaces
    BY <1>i DEF Ordered, OrderRecords
  <2> QED
    BY <2>1, <2>2, <2>3, <1>i DEF LinkTypes, ToolRows, CallRows, AllTools
<1>2. ArgumentsFollowCalls
  <2>1. ASSUME NEW c \in Invocations, calls[c] = "parked", "taken" \notin mislaid
        PROVE  c \in DOMAIN secrets \cup aged
    BY <2>1, <1>i DEF VaultStands
  <2>2. ASSUME AtRest, stale = {}, mislaid = {}
        PROVE  /\ secrets = stored["vault"]
               /\ links = stored["connections"]
               /\ \A c \in Invocations : calls[c] = "settled" => c \notin DOMAIN secrets
    <3>1. drafts["vault"] = <<>> /\ drafts["connections"] = <<>>
      BY <2>2, FilesKnown DEF AtRest
    <3>2. Len(drafts["vault"]) = 0 /\ Len(drafts["connections"]) = 0
      BY <3>1
    <3>3. /\ Follows("vault", drafts["vault"], stored["vault"], stale, secrets)
          /\ Follows("connections", drafts["connections"], stored["connections"], stale, links)
      BY <2>2, <1>i DEF VaultStands
    <3> QED
      BY <3>2, <3>3, <2>2, <1>i DEF Follows, VaultStands
  <2> QED
    BY <2>1, <2>2 DEF ArgumentsFollowCalls
<1>3. IndexFollowsTools
  BY <1>i DEF IndexFollowsTools, IndexStands
<1> QED
  BY <1>1, <1>2, <1>3

-----------------------------------------------------------------------------
(* The trace panel *)

\* A set of numbers that is not empty has a least member.
LEMMA EarliestOne ==
  ASSUME NEW S, S \subseteq Nat, S # {}
  PROVE  \E m \in S : \A n \in S : m <= n
<1> DEFINE R == OpToRel(<, Nat)
<1>1. IsWellFoundedOn(R, Nat)
  BY NatLessThanWellFounded
<1>2. PICK m \in S : \A n \in S : ~ (<<n, m>> \in R)
  BY <1>1, WFMin
<1>3. ASSUME NEW n \in S PROVE m <= n
  <2>1. <<n, m>> \in Nat \X Nat
    BY S \subseteq Nat
  <2>2. ~ (n < m)
    BY <1>2, <2>1 DEF OpToRel
  <2> QED
    BY <2>2, S \subseteq Nat
<1> QED
  BY <1>3

-----------------------------------------------------------------------------
(* The trace of the runs *)

Times  == 0 .. MaxAge + 3
Frames == [run : TraceRuns \cup {0}, entry : TraceEntries]

\* The runs are numbered from one, and there are finitely many.
LEMMA RunsAreNumbers ==
  /\ Cardinality(TraceRuns) \in Nat /\ IsFiniteSet(TraceRuns)
  /\ \A r \in TraceRuns : r \in Nat /\ 1 <= r /\ r <= Cardinality(TraceRuns)
  /\ TraceRuns \subseteq Nat \ {0}
<1>1. Cardinality(TraceRuns) \in Nat /\ IsFiniteSet(TraceRuns)
  BY TraceAssumption, FS_CardinalityType DEF TraceAssumption
<1>2. TraceRuns = 1 .. Cardinality(TraceRuns)
  BY TraceAssumption DEF TraceAssumption
<1> HIDE DEF TraceAssumption
<1> QED
  BY <1>1, <1>2

\* A set of runs is finite, and its size is at most that of a set it is part of.
LEMMA SomeRuns ==
  ASSUME NEW S \in SUBSET TraceRuns
  PROVE  /\ IsFiniteSet(S) /\ Cardinality(S) \in Nat
         /\ \A T \in SUBSET S : Cardinality(T) <= Cardinality(S)
                                /\ (T # S => Cardinality(T) < Cardinality(S))
<1>1. IsFiniteSet(S) /\ Cardinality(S) \in Nat
  BY RunsAreNumbers, FS_Subset, FS_CardinalityType
<1>2. ASSUME NEW T \in SUBSET S
      PROVE  Cardinality(T) <= Cardinality(S) /\ (T # S => Cardinality(T) < Cardinality(S))
  <2>1. IsFiniteSet(T) /\ Cardinality(T) <= Cardinality(S) /\ (Cardinality(S) = Cardinality(T) => S = T)
    BY <1>1, FS_Subset
  <2>2. Cardinality(T) \in Nat
    BY <2>1, FS_CardinalityType
  <2> QED
    BY <1>1, <2>1, <2>2
<1> QED
  BY <1>1, <1>2

\* A set of runs that is not empty has a first and a last.
LEMMA FirstAndLast ==
  ASSUME NEW S \in SUBSET TraceRuns, S # {}
  PROVE  /\ \E q \in S : \A p \in S : q <= p
         /\ \E q \in S : \A p \in S : p <= q
<1> DEFINE n == Cardinality(TraceRuns)
           B == {n - q : q \in S}
<1>n. n \in Nat /\ \A q \in S : q \in Nat /\ q <= n
  BY RunsAreNumbers
<1> HIDE DEF n
<1>1. \E q \in S : \A p \in S : q <= p
  BY EarliestOne, <1>n
<1>2. B \subseteq Nat /\ B # {}
  BY <1>n
<1>3. PICK m \in B : \A k \in B : m <= k
  BY <1>2, EarliestOne
<1>4. PICK q \in S : m = n - q
  BY <1>3
<1>5. ASSUME NEW p \in S PROVE p <= q
  <2>1. n - q <= n - p
    BY <1>3, <1>4
  <2> QED
    BY <2>1, <1>n
<1> QED
  BY <1>1, <1>5

\* The last runs of a set, as many as a page has room for, are some of it unless it
\* is empty; and each run that fewer than a page follow is one of them.
Page(S) == {q \in S : Cardinality({p \in S : p > q}) < TracePage}

LEMMA PageIsSome ==
  ASSUME NEW S \in SUBSET TraceRuns
  PROVE  S # {} => Page(S) # {}
<1> SUFFICES ASSUME S # {} PROVE Page(S) # {}
  OBVIOUS
<1>1. PICK q \in S : \A p \in S : p <= q
  BY FirstAndLast
<1>n. \A p \in S : p \in Nat
  BY RunsAreNumbers
<1>2. {p \in S : p > q} = {}
  <2>1. \A p \in S : ~ (p > q)
    BY <1>1, <1>n
  <2> QED
    BY <2>1
<1>3. Cardinality({p \in S : p > q}) = 0 /\ 0 < TracePage
  BY <1>2, FS_EmptySet, TraceAssumption DEF TraceAssumption
<1>4. q \in Page(S)
  BY <1>3 DEF Page
<1> QED
  BY <1>4

\* Counted from the last, each place in a set of runs is that of one run.
Rank(S, q) == Cardinality({p \in S : p >= q})

LEMMA RanksFit ==
  ASSUME NEW S \in SUBSET TraceRuns
  PROVE  /\ \A q \in S : Rank(S, q) \in 1 .. Cardinality(S)
         /\ \A q, r \in S : Rank(S, q) = Rank(S, r) => q = r
         /\ \A k \in 1 .. Cardinality(S) : \E q \in S : Rank(S, q) = k
<1> DEFINE Down(q) == {p \in S : p >= q}
<1>n. \A q \in S : q \in Nat
  BY RunsAreNumbers
<1>s. IsFiniteSet(S) /\ Cardinality(S) \in Nat
  BY SomeRuns
<1>d. \A q \in S : q \in Down(q) /\ Down(q) \in SUBSET S
  BY <1>n
<1>1. ASSUME NEW q \in S PROVE Rank(S, q) \in 1 .. Cardinality(S)
  <2>1. Down(q) \in SUBSET TraceRuns /\ q \in Down(q) /\ Down(q) \in SUBSET S
    BY <1>d
  <2>2. IsFiniteSet(Down(q)) /\ Cardinality(Down(q)) \in Nat /\ Cardinality(Down(q)) <= Cardinality(S)
    BY <2>1, SomeRuns
  <2>3. Cardinality(Down(q)) # 0
    BY <2>1, <2>2, FS_EmptySet
  <2> QED
    BY <2>2, <2>3, <1>s DEF Rank
<1>2. ASSUME NEW q \in S, NEW r \in S, q < r PROVE Rank(S, r) < Rank(S, q)
  <2>1. Down(q) \in SUBSET TraceRuns /\ Down(r) \in SUBSET Down(q)
    BY <1>d, <1>n, <1>2
  <2>2. q \in Down(q) /\ q \notin Down(r)
    BY <1>d, <1>n, <1>2
  <2>3. Cardinality(Down(r)) < Cardinality(Down(q))
    BY <2>1, <2>2, SomeRuns
  <2> QED
    BY <2>3 DEF Rank
<1>3. ASSUME NEW q \in S, NEW r \in S, Rank(S, q) = Rank(S, r) PROVE q = r
  <2>1. Rank(S, q) \in Nat /\ Rank(S, r) \in Nat
    BY <1>1, <1>s
  <2> QED
    BY <1>2, <1>3, <2>1, <1>n
<1>4. \A k \in 1 .. Cardinality(S) : \E q \in S : Rank(S, q) = k
  <2> DEFINE I == 1 .. Cardinality(S)
             f == [q \in S |-> Rank(S, q)]
  <2>1. f \in [S -> I]
    BY <1>1
  <2>2. \A q, r \in S : f[q] = f[r] => q = r
    BY <1>3
  <2>3. f \in Injection(S, I)
    BY <2>1, <2>2 DEF Injection, IsInjective
  <2>4. IsFiniteSet(I) /\ Cardinality(I) = Cardinality(S)
    BY <1>s, FS_Interval
  <2> HIDE DEF I, f
  <2>5. f \in Surjection(S, I)
    BY <2>3, <2>4, FS_Injection
  <2>6. \A k \in I : \E q \in S : f[q] = k
    BY <2>5 DEF Surjection
  <2> QED
    BY <2>6 DEF I, f
<1> QED
  BY <1>1, <1>3, <1>4

-----------------------------------------------------------------------------
(* Entries *)

\* What a run has come to: its place, its row, what its events keep and its log.
Phase(place, row, live, log) ==
  /\ live.model = "none"
  /\ place \in {"none", "marked"} => row = NoRow /\ live = NoEntry
  /\ place \in {"none", "marked", "running"} \cup TraceEnds => log = "none"
  /\ place = "running" => row.status = "running" /\ row.at >= 1 /\ row.at <= MaxAge /\ live.at <= MaxAge
  /\ place \in TraceEnds =>
       /\ row.status = "running" /\ row.at >= 1 /\ row.at < live.at
       /\ live.status = place /\ live.at <= MaxAge + 1
  /\ place \in {"ended", "done"} =>
       \/ place = "done" /\ row = NoRow /\ live = NoEntry
       \/ row.status \in {"completed", "failed"} /\ live.at < row.at /\ row.at <= MaxAge + 2

\* The last change of a run, the entry put together for it, and what that entry has
\* to say of a run that looks ended.
LastChange(row, live) == IF live.at > row.at THEN live.at ELSE row.at
FromRow(row, log)     == [status |-> TraceStatus(row.status), at |-> row.at, model |-> log]
Now(row, live, log)   == IF live.status = "none" THEN FromRow(row, log)
                         ELSE Deduplicated(FromRow(row, log), live)
Word(place, row)      == IF place \in TraceEnds THEN place ELSE TraceStatus(row.status)
Says(place, row, log, mine, e) ==
  e.status = Word(place, row) /\ (mine /\ log # "none" => e.model = log)
Over == TraceEnds \cup {"ended", "done"}
Outcomes == {"none"} \cup TraceEnds

LEMMA NumbersOfTrace == MaxAge \in Nat \ {0} /\ TracePage \in Nat \ {0} /\ MaxTraceUpsets \in Nat
  BY TraceAssumption DEF TraceAssumption

\* An entry laid over another keeps its word and its time.
LEMMA OverlaidIs ==
  ASSUME NEW old \in TraceEntries, NEW new \in TraceEntries
  PROVE  /\ Overlaid(old, new) \in TraceEntries
         /\ Overlaid(old, new).status = new.status /\ Overlaid(old, new).at = new.at
         /\ Overlaid(old, new).model = IF new.model = "none" THEN old.model ELSE new.model
  BY DEF Overlaid, TraceEntries

\* What the panel makes of two entries of a run: nothing later than both.
LEMMA MergedIs ==
  ASSUME NEW old \in TraceEntries, NEW new \in TraceEntries
  PROVE  /\ MergedEntry(old, new) \in TraceEntries
         /\ MergedEntry(old, new).at >= old.at
         /\ \/ MergedEntry(old, new) = old
            \/ MergedEntry(old, new) = Overlaid(old, new) /\ new.at >= old.at
         /\ new # NoEntry => MergedEntry(old, new).at >= new.at
<1>1. old.at \in Nat /\ new.at \in Nat
  BY NumbersOfTrace DEF TraceEntries
<1>2. Overlaid(old, new) \in TraceEntries /\ Overlaid(old, new).at = new.at
  BY OverlaidIs
<1>3. CASE new = NoEntry \/ old.at > new.at
  BY <1>1, <1>3 DEF MergedEntry
<1>4. CASE ~ (new = NoEntry \/ old.at > new.at)
  BY <1>1, <1>2, <1>4 DEF MergedEntry
<1> QED
  BY <1>3, <1>4

LEMMA LaidTogether ==
  ASSUME NEW old \in TraceEntries, NEW new \in TraceEntries
  PROVE  Deduplicated(old, new) = IF old.at <= new.at THEN Overlaid(old, new) ELSE Overlaid(new, old)
  BY DEF Deduplicated

LEMMA NoEntryTyped == NoEntry \in TraceEntries /\ NoRow \in Rows
  BY NumbersOfTrace DEF NoEntry, NoRow, TraceEntries, Rows

LEMMA FromRowTyped ==
  ASSUME NEW row \in Rows, NEW log \in Outcomes
  PROVE  /\ FromRow(row, log) \in TraceEntries
         /\ FromRow(row, log).status = TraceStatus(row.status)
         /\ FromRow(row, log).at = row.at /\ FromRow(row, log).model = log
  BY DEF FromRow, TraceEntries, Rows, TraceStatus, Outcomes, TraceEnds

\* The entry of a run is none from after its last change; that of a run which looks
\* ended is from its last change and says how it ended.
LEMMA NowIs ==
  ASSUME NEW place, NEW row \in Rows, NEW live \in TraceEntries, NEW log \in Outcomes, NEW mine,
         Phase(place, row, live, log)
  PROVE  /\ Now(row, live, log) \in TraceEntries
         /\ Now(row, live, log).at <= LastChange(row, live)
         /\ place \in Over /\ row # NoRow =>
              /\ Now(row, live, log).at = LastChange(row, live)
              /\ Now(row, live, log).status # "none"
              /\ Says(place, row, log, mine, Now(row, live, log))
<1> DEFINE a == FromRow(row, log)
<1>a. a \in TraceEntries /\ a.status = TraceStatus(row.status) /\ a.at = row.at /\ a.model = log
  BY FromRowTyped
<1>n. row.at \in Nat /\ live.at \in Nat /\ row.status \in {"none", "running", "completed", "failed"}
  BY NumbersOfTrace DEF Rows, TraceEntries
<1>o. /\ Overlaid(a, live) \in TraceEntries
      /\ Overlaid(a, live).status = live.status /\ Overlaid(a, live).at = live.at
      /\ Overlaid(live, a) \in TraceEntries
      /\ Overlaid(live, a).status = a.status /\ Overlaid(live, a).at = a.at
      /\ Overlaid(live, a).model = IF a.model = "none" THEN live.model ELSE a.model
  BY <1>a, OverlaidIs
<1>w. Now(row, live, log) = IF live.status = "none" THEN a
                            ELSE IF a.at <= live.at THEN Overlaid(a, live) ELSE Overlaid(live, a)
  BY <1>a, LaidTogether DEF Now
<1> HIDE DEF a
<1>1. Now(row, live, log) \in TraceEntries
  BY <1>a, <1>o, <1>w
<1>2. Now(row, live, log).at <= LastChange(row, live)
  BY <1>a, <1>n, <1>o, <1>w DEF LastChange
<1>3. ASSUME place \in Over, row # NoRow
      PROVE  /\ Now(row, live, log).at = LastChange(row, live)
             /\ Now(row, live, log).status # "none"
             /\ Says(place, row, log, mine, Now(row, live, log))
  <2>1. CASE place \in TraceEnds
    <3>1. /\ log = "none" /\ live.status = place /\ row.at < live.at
      BY <2>1 DEF Phase
    <3>2. Now(row, live, log) = Overlaid(a, live)
      BY <3>1, <2>1, <1>n, <1>a, <1>w DEF TraceEnds
    <3> QED
      BY <3>1, <3>2, <2>1, <1>o, <1>n DEF LastChange, Says, Word, TraceEnds
  <2>2. CASE place \in {"ended", "done"}
    <3>1. row.status \in {"completed", "failed"} /\ live.at < row.at
      BY <2>2, <1>3 DEF Phase
    <3>2. /\ Now(row, live, log).status = a.status /\ Now(row, live, log).at = a.at
          /\ log # "none" => Now(row, live, log).model = log
      BY <3>1, <1>n, <1>a, <1>o, <1>w
    <3>3. LastChange(row, live) = row.at
      BY <3>1, <1>n DEF LastChange
    <3>4. a.status # "none" /\ place \notin TraceEnds
      BY <3>1, <1>a, <2>2 DEF TraceStatus, TraceEnds
    <3> QED
      BY <3>2, <3>3, <3>4, <1>a DEF Says, Word
  <2> QED
    BY <1>3, <2>1, <2>2 DEF Over
<1> QED
  BY <1>1, <1>2, <1>3

LEMMA NowIsLast ==
  ASSUME NEW place, NEW row \in Rows, NEW live \in TraceEntries, NEW log \in Outcomes,
         Phase(place, row, live, log), place \in Over, row # NoRow
  PROVE  Now(row, live, log).at = LastChange(row, live)
BY NowIs

\* Two entries of a run of which none as late as m says but how it ended make none
\* that does.
LEMMA MergeSays ==
  ASSUME NEW place, NEW row, NEW log, NEW mine, NEW m \in Nat,
         NEW a \in TraceEntries, NEW b \in TraceEntries,
         a.at >= m => Says(place, row, log, mine, a),
         b.at >= m => Says(place, row, log, mine, b),
         MergedEntry(a, b).at >= m
  PROVE  Says(place, row, log, mine, MergedEntry(a, b))
<1>1. CASE MergedEntry(a, b) = a
  BY <1>1
<1>2. CASE MergedEntry(a, b) = Overlaid(a, b)
  <2>1. /\ Overlaid(a, b).status = b.status /\ Overlaid(a, b).at = b.at
        /\ Overlaid(a, b).model = IF b.model = "none" THEN a.model ELSE b.model
    BY OverlaidIs
  <2>2. Says(place, row, log, mine, b)
    BY <1>2, <2>1
  <2> QED
    BY <1>2, <2>1, <2>2 DEF Says
<1> QED
  BY <1>1, <1>2, MergedIs

-----------------------------------------------------------------------------
(* What the panel will have been told *)

RunsStand ==
  \A r \in TraceRuns :
    /\ Phase(places[r], runRows[r], liveRuns[r], logged[r])
    /\ baseline[r][r] = 0
    /\ places[r] = "none" => r \notin posted
    /\ places[r] \in {"marked", "ended"} => r \in posted

\* The entries of a run that the panel has, or that are on their way to it.
Carried(c) == {c.frames[k] : k \in DOMAIN c.frames}
Tells(r, e) ==
  \/ e = listed[r]
  \/ \E f \in pageAsks : e = f.found[r]
  \/ \E fr \in Carried(cable) : fr.run = r /\ e = fr.entry

\* None is from after the run's last change.
NoneLater(r) ==
  \A e \in TraceEntries : Tells(r, e) => e.at <= LastChange(runRows[r], liveRuns[r])

\* An entry as late as m is in the panel, or comes with what is on its way.
OnItsWay(r, m) ==
  \/ ~ cable.open
  \/ \E fr \in Carried(cable) : fr.run = 0 \/ (fr.run = r /\ fr.entry.at >= m)
  \/ listed[r].at >= m
  \/ \E f \in pageAsks : AsksNewest(f) /\ (f.st = "asked" \/ f.found[r].at >= m)
  \/ unseen /\ \A f \in pageAsks : ~ AsksNewest(f)

\* Of a run that looks ended, and is not one whose end no event tells, whatever is as
\* late as some change says how it ended, and such an entry comes if it is to be shown.
LateOnes(r, m) ==
  \A e \in TraceEntries : Tells(r, e) /\ e.at >= m =>
    Says(places[r], runRows[r], logged[r], r \in posted, e)
Comes(r, m) ==
  places[r] # "ended" /\ lens.show = "all" /\ r \in FirstPage => OnItsWay(r, m)
EndTold(r) ==
  places[r] \in Over /\ runRows[r] # NoRow /\ r \notin silent =>
    \E m \in Nat : /\ 1 <= m /\ m <= LastChange(runRows[r], liveRuns[r])
                   /\ LateOnes(r, m) /\ Comes(r, m)

AsksStand ==
  /\ \A f \in pageAsks : f.show = lens.show /\ (f.st = "asked" => f.found = Unlisted)
  /\ \A f, g \in pageAsks : AsksNewest(f) /\ AsksNewest(g) => f = g

TraceInv == TraceTypes /\ RunsStand /\ AsksStand /\ \A r \in TraceRuns : NoneLater(r) /\ EndTold(r)

\* Whatever the panel is told was told before, is made of what was told, or is what
\* the run has come to.
Brings(r) ==
  \A e \in TraceEntries : Tells(r, e)' =>
    \/ Tells(r, e) \/ e = NoEntry \/ e = Now(runRows[r], liveRuns[r], logged[r])
    \/ \E a, b \in TraceEntries : Tells(r, a) /\ Tells(r, b) /\ e = MergedEntry(a, b)

KeepsComing(r) ==
  \A m \in Nat :
    /\ 1 <= m /\ m <= LastChange(runRows[r], liveRuns[r]) /\ runRows[r] # NoRow
    /\ places[r] \in Over \ {"ended"} /\ r \in FirstPage
    /\ lens'.show = "all" /\ (lens.show = "all" => OnItsWay(r, m))
    => OnItsWay(r, m)'

RunTypes(r) ==
  /\ runRows[r] \in Rows /\ liveRuns[r] \in TraceEntries /\ logged[r] \in Outcomes
  /\ listed[r] \in TraceEntries /\ places[r] \in {"none", "marked", "running", "ended", "done"} \cup TraceEnds
  /\ runRows[r].at \in Nat /\ liveRuns[r].at \in Nat
  /\ LastChange(runRows[r], liveRuns[r]) \in Nat
  /\ Materialized[r] = Now(runRows[r], liveRuns[r], logged[r])
  /\ Now(runRows[r], liveRuns[r], logged[r]) \in TraceEntries
  /\ Age(r) = LastChange(runRows[r], liveRuns[r])

LEMMA RunTyped ==
  ASSUME TraceTypes, NEW r \in TraceRuns
  PROVE  RunTypes(r)
<1>1. runRows[r] \in Rows /\ liveRuns[r] \in TraceEntries /\ logged[r] \in Outcomes
      /\ listed[r] \in TraceEntries
      /\ places[r] \in {"none", "marked", "running", "ended", "done"} \cup TraceEnds
  BY DEF TraceTypes, TraceList, Outcomes
<1>2. runRows[r].at \in Nat /\ liveRuns[r].at \in Nat
  BY <1>1, NumbersOfTrace DEF Rows, TraceEntries
<1>3. Materialized[r] = Now(runRows[r], liveRuns[r], logged[r])
  BY DEF Materialized, Now, Adapted, FromRow, ModelTurn
<1>4. FromRow(runRows[r], logged[r]) \in TraceEntries
  BY <1>1, FromRowTyped
<1>5. Now(runRows[r], liveRuns[r], logged[r]) \in TraceEntries
  BY <1>1, <1>4, OverlaidIs DEF Now, Deduplicated
<1>6. LastChange(runRows[r], liveRuns[r]) \in Nat
      /\ Age(r) = LastChange(runRows[r], liveRuns[r])
  BY <1>2 DEF LastChange, Age
<1> QED
  BY <1>1, <1>2, <1>3, <1>5, <1>6 DEF RunTypes

LEMMA CarriedTyped == TraceTypes => Carried(cable) \subseteq Frames
<1> SUFFICES ASSUME TraceTypes PROVE Carried(cable) \subseteq Frames
  OBVIOUS
<1>1. cable.frames \in Seq(Frames)
  BY DEF TraceTypes, Frames
<1> QED
  BY <1>1 DEF Carried

\* Whatever is told of a run is an entry.
LEMMA ToldTyped ==
  ASSUME TraceTypes, NEW r \in TraceRuns, NEW e, Tells(r, e)
  PROVE  e \in TraceEntries
<1>1. CASE e = listed[r]
  BY <1>1, RunTyped DEF RunTypes
<1>2. CASE \E f \in pageAsks : e = f.found[r]
  BY <1>2 DEF TraceTypes, Answers, TraceList
<1>3. CASE \E fr \in Carried(cable) : fr.run = r /\ e = fr.entry
  BY <1>3, CarriedTyped DEF Frames
<1> QED
  BY <1>1, <1>2, <1>3 DEF Tells

\* Nothing is told of a run from after its last change.
LEMMA NoneLaterStays ==
  ASSUME TraceInv, NEW r \in TraceRuns, Brings(r),
         LastChange(runRows[r], liveRuns[r])' \in Nat,
         LastChange(runRows[r], liveRuns[r]) <= LastChange(runRows[r], liveRuns[r])'
  PROVE  NoneLater(r)'
<1> DEFINE last == LastChange(runRows[r], liveRuns[r])
<1>t. RunTypes(r)
  BY RunTyped DEF TraceInv
<1>n. \A e \in TraceEntries : e.at \in Nat
  BY NumbersOfTrace DEF TraceEntries
<1>o. \A e \in TraceEntries : Tells(r, e) => e.at <= last
  BY DEF TraceInv, NoneLater
<1>w. Now(runRows[r], liveRuns[r], logged[r]).at <= last
  BY <1>t, NowIs DEF TraceInv, RunsStand, RunTypes
<1>l. last \in Nat
  BY <1>t DEF RunTypes
<1> SUFFICES ASSUME NEW e \in TraceEntries, Tells(r, e)' PROVE e.at <= last
  BY <1>l, <1>n DEF NoneLater
<1> HIDE DEF last
<1>1. CASE Tells(r, e)
  BY <1>1, <1>o
<1>2. CASE e = NoEntry
  BY <1>2, <1>l DEF NoEntry
<1>3. CASE e = Now(runRows[r], liveRuns[r], logged[r])
  BY <1>3, <1>w
<1>4. ASSUME NEW a \in TraceEntries, NEW b \in TraceEntries, Tells(r, a), Tells(r, b), e = MergedEntry(a, b)
      PROVE  e.at <= last
  <2>1. a.at <= last /\ b.at <= last
    BY <1>4, <1>o
  <2> QED
    BY <2>1, <1>4, MergedIs, OverlaidIs
<1> QED
  BY <1>1, <1>2, <1>3, <1>4 DEF Brings

\* What is as late as m goes on saying how the run ended.
LEMMA LateOnesStay ==
  ASSUME TraceInv, NEW r \in TraceRuns, NEW m \in Nat, 1 <= m, LateOnes(r, m), Brings(r),
         places[r] \in Over, runRows[r] # NoRow
  PROVE  \A e \in TraceEntries : Tells(r, e)' /\ e.at >= m =>
           Says(places[r], runRows[r], logged[r], r \in posted, e)
<1> SUFFICES ASSUME NEW e \in TraceEntries, Tells(r, e)', e.at >= m
             PROVE  Says(places[r], runRows[r], logged[r], r \in posted, e)
  OBVIOUS
<1>t. RunTypes(r)
  BY RunTyped DEF TraceInv
<1>1. CASE Tells(r, e)
  BY <1>1 DEF LateOnes
<1>2. CASE e = NoEntry
  BY <1>2 DEF NoEntry
<1>3. CASE e = Now(runRows[r], liveRuns[r], logged[r])
  BY <1>3, <1>t, NowIs DEF TraceInv, RunsStand, RunTypes
<1>4. ASSUME NEW a \in TraceEntries, NEW b \in TraceEntries, Tells(r, a), Tells(r, b), e = MergedEntry(a, b)
      PROVE  Says(places[r], runRows[r], logged[r], r \in posted, e)
  <2>1. /\ a.at >= m => Says(places[r], runRows[r], logged[r], r \in posted, a)
        /\ b.at >= m => Says(places[r], runRows[r], logged[r], r \in posted, b)
    BY <1>4 DEF LateOnes
  <2> QED
    BY <2>1, <1>4, MergeSays
<1> QED
  BY <1>1, <1>2, <1>3, <1>4 DEF Brings

\* A run that a step leaves as it is goes on having its end told.
LEMMA EndStaysTold ==
  ASSUME TraceInv, NEW r \in TraceRuns, Brings(r), KeepsComing(r),
         places'[r] = places[r], runRows'[r] = runRows[r],
         LastChange(runRows[r], liveRuns[r])' = LastChange(runRows[r], liveRuns[r]),
         logged'[r] \in {logged[r], "none"},
         (r \in posted') <=> (r \in posted), (r \in silent') <=> (r \in silent),
         r \in FirstPage' => r \in FirstPage
  PROVE  NoneLater(r)' /\ EndTold(r)'
<1>t. RunTypes(r)
  BY RunTyped DEF TraceInv
<1>1. NoneLater(r)'
  BY NoneLaterStays, <1>t DEF RunTypes
<1>2. ASSUME places[r] \in Over, runRows[r] # NoRow, r \notin silent
      PROVE  \E m \in Nat : /\ 1 <= m /\ m <= LastChange(runRows[r], liveRuns[r])'
                            /\ LateOnes(r, m)' /\ Comes(r, m)'
  <2>1. PICK m \in Nat : /\ 1 <= m /\ m <= LastChange(runRows[r], liveRuns[r])
                         /\ LateOnes(r, m) /\ Comes(r, m)
    BY <1>2 DEF TraceInv, EndTold
  <2>2. \A e \in TraceEntries : Tells(r, e)' /\ e.at >= m =>
           Says(places[r], runRows[r], logged[r], r \in posted, e)
    BY <2>1, <1>2, LateOnesStay
  <2>3. \A e \in TraceEntries : Tells(r, e)' /\ e.at >= m =>
           Says(places'[r], runRows'[r], logged'[r], r \in posted', e)
    BY <2>2 DEF Says
  <2>4. LateOnes(r, m)'
    BY <2>3 DEF LateOnes
  <2>5. Comes(r, m)'
    BY <2>1, <1>2 DEF Comes, KeepsComing
  <2> QED
    BY <2>1, <2>4, <2>5
<1>3. EndTold(r)'
  BY <1>2 DEF EndTold
<1> QED
  BY <1>1, <1>3

\* No run leaves the first page but for those that begin.
LEMMA FirstPageStays ==
  ASSUME NEW r \in TraceRuns, runRows[r] # NoRow,
         \A q \in TraceRuns : runRows[q] # NoRow => runRows'[q] # NoRow
  PROVE  r \in FirstPage' => r \in FirstPage
<1> DEFINE A == {q \in TraceRuns : q > r /\ runRows[q] # NoRow}
           B == {q \in TraceRuns : q > r /\ runRows'[q] # NoRow}
<1>1. B \in SUBSET TraceRuns /\ A \in SUBSET TraceRuns /\ A \in SUBSET B
  OBVIOUS
<1>2. Cardinality(A) <= Cardinality(B) /\ Cardinality(A) \in Nat /\ Cardinality(B) \in Nat
  BY <1>1, SomeRuns
<1>3. r \in FirstPage <=> Cardinality(A) < TracePage
  BY DEF FirstPage
<1>4. r \in FirstPage' => Cardinality(B) < TracePage
  BY DEF FirstPage
<1> QED
  BY <1>2, <1>3, <1>4, NumbersOfTrace

-----------------------------------------------------------------------------
(* The panel's own steps *)

\* What a connection carries when its first frame is taken, and when more are sent.
LEMMA FirstTaken ==
  ASSUME TraceTypes, cable.frames # << >>, cable' = [cable EXCEPT !.frames = Tail(@)]
  PROVE  /\ cable.frames[1] \in Frames /\ cable.frames[1] \in Carried(cable)
         /\ cable'.frames \in Seq(Frames) /\ cable'.open = cable.open
         /\ Carried(cable)' \subseteq Carried(cable)
         /\ \A fr \in Carried(cable) : fr = cable.frames[1] \/ fr \in Carried(cable)'
<1>1. cable \in [open : BOOLEAN, frames : Seq(Frames)]
  BY DEF TraceTypes, Frames
<1>2. cable'.open = cable.open /\ cable'.frames = Tail(cable.frames)
  BY <1>1
<1>3. PICK s \in Seq(Frames) : s = cable.frames
  BY <1>1
<1>4. /\ s[1] \in Frames /\ Tail(s) \in Seq(Frames)
      /\ DOMAIN s = 1 .. Len(s) /\ Len(s) \in Nat /\ Len(s) >= 1
      /\ DOMAIN Tail(s) = 1 .. (Len(s) - 1)
      /\ \A k \in 1 .. (Len(s) - 1) : Tail(s)[k] = s[k + 1]
  BY <1>3
<1>5. Carried(cable) = {s[k] : k \in DOMAIN s}
  BY <1>3 DEF Carried
<1>6. Carried(cable)' = {Tail(s)[k] : k \in DOMAIN Tail(s)}
  BY <1>2, <1>3 DEF Carried
<1>7. s[1] \in Carried(cable)
  BY <1>4, <1>5
<1>8. ASSUME NEW fr \in Carried(cable)' PROVE fr \in Carried(cable)
  <2>1. PICK k \in 1 .. (Len(s) - 1) : fr = s[k + 1]
    BY <1>4, <1>6, <1>8
  <2>2. k + 1 \in 1 .. Len(s)
    BY <1>4
  <2> QED
    BY <1>4, <1>5, <2>1, <2>2
<1>9. ASSUME NEW fr \in Carried(cable), fr # s[1] PROVE fr \in Carried(cable)'
  <2>1. PICK k \in 1 .. Len(s) : fr = s[k]
    BY <1>4, <1>5, <1>9
  <2>2. k - 1 \in 1 .. (Len(s) - 1) /\ Tail(s)[k - 1] = fr
    BY <1>4, <1>9, <2>1
  <2> QED
    BY <1>4, <1>6, <2>2
<1> QED
  BY <1>2, <1>3, <1>4, <1>7, <1>8, <1>9

LEMMA MoreSent ==
  ASSUME TraceTypes, NEW more \in Seq(Frames), Publicize(more)
  PROVE  /\ cable' \in [open : BOOLEAN, frames : Seq(Frames)] /\ cable'.open = cable.open
         /\ cable.open => Carried(cable)' = Carried(cable) \cup {more[k] : k \in DOMAIN more}
         /\ ~ cable.open => cable' = cable
<1>1. cable \in [open : BOOLEAN, frames : Seq(Frames)]
  BY DEF TraceTypes, Frames
<1>2. CASE ~ cable.open
  BY <1>1, <1>2 DEF Publicize
<1>3. CASE cable.open
  <2>1. cable' = [cable EXCEPT !.frames = cable.frames \o more]
    BY <1>3 DEF Publicize
  <2>2. cable.frames \o more \in Seq(Frames)
    BY <1>1
  <2>3. cable'.frames = cable.frames \o more /\ cable'.open = cable.open
        /\ cable' \in [open : BOOLEAN, frames : Seq(Frames)]
    BY <1>1, <2>1, <2>2
  <2>4. PICK s \in Seq(Frames) : s = cable.frames
    BY <1>1
  <2>5. /\ DOMAIN s = 1 .. Len(s) /\ DOMAIN more = 1 .. Len(more) /\ Len(s) \in Nat /\ Len(more) \in Nat
        /\ DOMAIN (s \o more) = 1 .. (Len(s) + Len(more))
        /\ \A k \in 1 .. (Len(s) + Len(more)) :
             (s \o more)[k] = IF k <= Len(s) THEN s[k] ELSE more[k - Len(s)]
    OBVIOUS
  <2>6. Carried(cable) = {s[k] : k \in DOMAIN s} /\ Carried(cable)' = {(s \o more)[k] : k \in DOMAIN (s \o more)}
    BY <2>3, <2>4 DEF Carried
  <2>7. ASSUME NEW fr \in Carried(cable)' PROVE fr \in Carried(cable) \cup {more[k] : k \in DOMAIN more}
    <3>1. PICK k \in 1 .. (Len(s) + Len(more)) : fr = (s \o more)[k]
      BY <2>5, <2>6, <2>7
    <3>2. CASE k <= Len(s)
      BY <2>5, <2>6, <3>1, <3>2
    <3>3. CASE k > Len(s)
      <4>1. k - Len(s) \in 1 .. Len(more) /\ fr = more[k - Len(s)]
        BY <2>5, <3>1, <3>3
      <4> QED
        BY <2>5, <4>1
    <3> QED
      BY <2>5, <3>2, <3>3
  <2>8. ASSUME NEW fr \in Carried(cable) PROVE fr \in Carried(cable)'
    <3>1. PICK k \in 1 .. Len(s) : fr = s[k]
      BY <2>5, <2>6, <2>8
    <3>2. k \in 1 .. (Len(s) + Len(more)) /\ (s \o more)[k] = fr
      BY <2>5, <3>1
    <3> QED
      BY <2>5, <2>6, <3>2
  <2>9. ASSUME NEW k \in DOMAIN more PROVE more[k] \in Carried(cable)'
    <3>2. k + Len(s) \in 1 .. (Len(s) + Len(more)) /\ (s \o more)[k + Len(s)] = more[k]
      BY <2>5, <2>9
    <3> QED
      BY <2>5, <2>6, <3>2
  <2> QED
    BY <1>3, <2>3, <2>7, <2>8, <2>9
<1> QED
  BY <1>2, <1>3

RunSide ==
  /\ places \in [TraceRuns -> {"none", "marked", "running", "ended", "done"} \cup TraceEnds]
  /\ runRows \in [TraceRuns -> Rows] /\ liveRuns \in TraceList
  /\ logged \in [TraceRuns -> Outcomes]
  /\ timers \subseteq TraceRuns /\ silent \subseteq TraceRuns
  /\ posted \subseteq TraceRuns
  /\ baseline \in [TraceRuns -> [TraceRuns -> Times]]
Lenses == [show : {"all", "running"}, cursor : 0 .. Cardinality(TraceRuns), more : BOOLEAN]
ViewSide ==
  /\ listed \in TraceList
  /\ cable \in [open : BOOLEAN, frames : Seq(Frames)]
  /\ lens \in Lenses
  /\ pageAsks \subseteq Answers
  /\ unseen \in BOOLEAN
  /\ traceUpsets \in 0 .. MaxTraceUpsets

LEMMA TypesSplit == TraceTypes <=> (RunSide /\ ViewSide)
  BY DEF TraceTypes, RunSide, ViewSide, Outcomes, Times, Lenses, Frames

LEMMA TypesSplitNext == TraceTypes' <=> (RunSide' /\ ViewSide')
  BY DEF TraceTypes, RunSide, ViewSide, Outcomes, Times, Lenses, Frames

\* What is left to show of a step of the panel.
LEMMA ViewStep ==
  ASSUME TraceInv, UNCHANGED runVars, ViewSide', AsksStand',
         \A r \in TraceRuns : Brings(r) /\ KeepsComing(r)
  PROVE  TraceInv'
<1>1. TraceTypes'
  <2>1. RunSide'
    BY TypesSplit DEF TraceInv, RunSide, runVars
  <2> QED
    BY <2>1, TypesSplitNext
<1>2. RunsStand'
  BY DEF TraceInv, RunsStand, runVars
<1>3. ASSUME NEW r \in TraceRuns PROVE NoneLater(r)' /\ EndTold(r)'
  <2>1. /\ places'[r] = places[r] /\ runRows'[r] = runRows[r] /\ logged'[r] \in {logged[r], "none"}
        /\ (r \in posted') <=> (r \in posted)
        /\ (r \in silent') <=> (r \in silent)
    BY DEF runVars
  <2>2. LastChange(runRows[r], liveRuns[r])' = LastChange(runRows[r], liveRuns[r])
    BY DEF LastChange, runVars
  <2>3. r \in FirstPage' => r \in FirstPage
    BY DEF FirstPage, runVars
  <2> QED
    BY <2>1, <2>2, <2>3, EndStaysTold
<1> QED
  BY <1>1, <1>2, <1>3 DEF TraceInv

\* The answer to a request for a page.
AnswerTo(f, found, next) == [f EXCEPT !.st = "answered", !.found = found, !.next = next]

LEMMA AnswerIs ==
  ASSUME NEW f \in Answers, NEW found \in TraceList, NEW next \in 0 .. Cardinality(TraceRuns)
  PROVE  /\ AnswerTo(f, found, next) \in Answers
         /\ AnswerTo(f, found, next).after = f.after /\ AnswerTo(f, found, next).show = f.show
         /\ AnswerTo(f, found, next).found = found /\ AnswerTo(f, found, next).st = "answered"
  BY DEF AnswerTo, Answers

LEMMA AskIs ==
  ASSUME NEW show \in {"all", "running"}, NEW after \in 0 .. Cardinality(TraceRuns) + 1
  PROVE  /\ AskFor(show, after) \in Answers
         /\ AskFor(show, after).after = after /\ AskFor(show, after).show = show
         /\ AskFor(show, after).st = "asked" /\ AskFor(show, after).found = Unlisted
<1>1. Unlisted \in TraceList
  BY NoEntryTyped DEF Unlisted, TraceList
<1>2. 0 \in 0 .. Cardinality(TraceRuns)
  BY RunsAreNumbers
<1> QED
  BY <1>1, <1>2 DEF AskFor, Answers

LEMMA FirstIs ==
  ASSUME NEW show \in {"all", "running"}
  PROVE  /\ FirstOf(show) \in Answers /\ AsksNewest(FirstOf(show)) /\ FirstOf(show).show = show
         /\ FirstOf(show).st = "asked" /\ FirstOf(show).found = Unlisted
<1>1. Cardinality(TraceRuns) + 1 \in 0 .. Cardinality(TraceRuns) + 1
      /\ Cardinality(TraceRuns) + 1 > Cardinality(TraceRuns)
  BY RunsAreNumbers
<1> QED
  BY <1>1, AskIs DEF FirstOf, AsksNewest

\* The entries a page is made of.
Fitting(f) == {q \in TraceRuns : Materialized[q].status # "none" /\ q < f.after
                                 /\ Fits(Materialized[q], f.show)}
FoundBy(f) == [q \in TraceRuns |-> IF q \in Page(Fitting(f)) THEN Materialized[q] ELSE NoEntry]

\* A run of the first page that looks ended is found by a request for the newest.
LEMMA NewestFound ==
  ASSUME TraceInv, NEW f \in Answers, AsksNewest(f), f.show = "all", NEW r \in FirstPage,
         places[r] \in Over, runRows[r] # NoRow
  PROVE  r \in Page(Fitting(f))
<1>r. r \in TraceRuns
  BY DEF FirstPage
<1>t. \A q \in TraceRuns : RunTypes(q)
  BY RunTyped DEF TraceInv
<1>1. Materialized[r].status # "none"
  <2>1. Phase(places[r], runRows[r], liveRuns[r], logged[r])
    BY <1>r DEF TraceInv, RunsStand
  <2>2. /\ runRows[r] \in Rows /\ liveRuns[r] \in TraceEntries /\ logged[r] \in Outcomes
        /\ Materialized[r] = Now(runRows[r], liveRuns[r], logged[r])
    BY <1>t, <1>r DEF RunTypes
  <2>3. Now(runRows[r], liveRuns[r], logged[r]).status # "none"
    BY <2>1, <2>2, NowIs
  <2> QED
    BY <2>2, <2>3
<1>2. r < f.after
  BY <1>r, RunsAreNumbers DEF AsksNewest, Answers
<1>3. r \in Fitting(f)
  BY <1>1, <1>2, <1>r DEF Fitting, Fits
<1> DEFINE A == {q \in TraceRuns : q > r /\ runRows[q] # NoRow}
           B == {p \in Fitting(f) : p > r}
<1>4. ASSUME NEW q \in Fitting(f) PROVE q \in TraceRuns /\ runRows[q] # NoRow
  <2>1. q \in TraceRuns /\ Materialized[q].status # "none"
    BY DEF Fitting
  <2>2. SUFFICES ASSUME runRows[q] = NoRow PROVE FALSE
    BY <2>1
  <2>3. liveRuns[q] = NoEntry \/ places[q] \notin {"none", "marked", "done"}
    BY <2>1, <2>2 DEF TraceInv, RunsStand, Phase, NoRow
  <2>4. places[q] \in {"none", "marked", "done"}
    BY <2>1, <2>2, <1>t DEF TraceInv, RunsStand, Phase, NoRow, RunTypes, TraceEnds
  <2>5. Materialized[q] = FromRow(NoRow, logged[q])
    BY <2>1, <2>2, <2>3, <2>4, <1>t DEF RunTypes, Now, NoEntry
  <2>6. FromRow(NoRow, logged[q]).status = "none"
    BY DEF FromRow, NoRow, TraceStatus
  <2> QED
    BY <2>1, <2>5, <2>6
<1>5. B \in SUBSET A /\ A \in SUBSET TraceRuns
  BY <1>4
<1>6. Cardinality(B) <= Cardinality(A) /\ Cardinality(A) \in Nat /\ Cardinality(B) \in Nat
  BY <1>5, SomeRuns
<1>7. Cardinality(A) < TracePage
  BY DEF FirstPage
<1>8. Cardinality(B) < TracePage
  BY <1>6, <1>7, NumbersOfTrace
<1> QED
  BY <1>3, <1>8 DEF Page

\* Putting a page together.
LEMMA AnswerPageStep ==
  ASSUME TraceInv, NEW f \in pageAsks, AnswerPage(f)
  PROVE  TraceInv'
<1> DEFINE S == Fitting(f)
           least == CHOOSE q \in Page(S) : \A p \in Page(S) : q <= p
           next == IF S = Page(S) THEN 0 ELSE least
           g == AnswerTo(f, FoundBy(f), next)
<1>t. /\ f \in Answers /\ pageAsks \subseteq Answers /\ listed \in TraceList
      /\ \A r \in TraceRuns : RunTypes(r)
  BY RunTyped, TypesSplit DEF TraceInv, ViewSide
<1>1. /\ UNCHANGED <<cable, listed, lens, unseen, traceUpsets>> /\ UNCHANGED runVars
      /\ f.st = "asked" /\ pageAsks' = (pageAsks \ {f}) \cup {g}
  BY DEF AnswerPage, AnswerTo, FoundBy, Fitting, Page
<1>2. S \in SUBSET TraceRuns /\ Page(S) \in SUBSET S
  BY DEF Fitting, Page
<1>3. next \in 0 .. Cardinality(TraceRuns)
  <2>1. CASE S = Page(S)
    BY <2>1, RunsAreNumbers
  <2>2. CASE S # Page(S)
    <3>1. Page(S) # {} /\ Page(S) \in SUBSET TraceRuns
      BY <1>2, <2>2, PageIsSome
    <3>2. \E q \in Page(S) : \A p \in Page(S) : q <= p
      BY <3>1, FirstAndLast
    <3>3. least \in TraceRuns
      BY <3>1, <3>2
    <3>n. \A r \in TraceRuns : r \in 0 .. Cardinality(TraceRuns)
      BY RunsAreNumbers
    <3> HIDE DEF least
    <3>4. least \in 0 .. Cardinality(TraceRuns)
      BY <3>3, <3>n
    <3> QED
      BY <2>2, <3>4
  <2> QED
    BY <2>1, <2>2
<1>4. FoundBy(f) \in TraceList
  <2>1. \A q \in TraceRuns : Materialized[q] \in TraceEntries
    BY <1>t DEF RunTypes
  <2> QED
    BY <2>1, NoEntryTyped DEF FoundBy, TraceList
<1> HIDE DEF next
<1>5. /\ g \in Answers /\ g.after = f.after /\ g.show = f.show /\ g.found = FoundBy(f)
      /\ g.st = "answered"
  BY <1>3, <1>4, <1>t, AnswerIs
<1> HIDE DEF g
<1>6. ViewSide'
  BY <1>1, <1>5, <1>t, TypesSplit DEF TraceInv, ViewSide
<1>7. AsksStand'
  <2>1. \A h \in pageAsks' : h.show = lens.show /\ (h.st = "asked" => h.found = Unlisted)
    BY <1>1, <1>5 DEF TraceInv, AsksStand
  <2>2. AsksNewest(g) <=> AsksNewest(f)
    BY <1>5 DEF AsksNewest
  <2>3. \A h, k \in pageAsks' : AsksNewest(h) /\ AsksNewest(k) => h = k
    BY <1>1, <2>2 DEF TraceInv, AsksStand
  <2>4. lens' = lens
    BY <1>1
  <2> QED
    BY <2>1, <2>3, <2>4 DEF AsksStand
<1>8. ASSUME NEW r \in TraceRuns PROVE Brings(r)
  <2> SUFFICES ASSUME NEW e \in TraceEntries, Tells(r, e)'
               PROVE  Tells(r, e) \/ e = NoEntry \/ e = Now(runRows[r], liveRuns[r], logged[r])
    BY DEF Brings
  <2>1. g.found[r] \in {NoEntry, Now(runRows[r], liveRuns[r], logged[r])}
    BY <1>5, <1>t DEF FoundBy, RunTypes
  <2>2. \/ e = listed[r] \/ (\E h \in pageAsks' : e = h.found[r])
        \/ (\E fr \in Carried(cable) : fr.run = r /\ e = fr.entry)
    BY <1>1 DEF Tells, Carried
  <2> QED
    BY <1>1, <2>1, <2>2 DEF Tells
<1>9. ASSUME NEW r \in TraceRuns PROVE KeepsComing(r)
  <2> SUFFICES ASSUME NEW m \in Nat, 1 <= m, m <= LastChange(runRows[r], liveRuns[r]),
                      runRows[r] # NoRow, places[r] \in Over \ {"ended"}, r \in FirstPage,
                      lens.show = "all", OnItsWay(r, m)
               PROVE  OnItsWay(r, m)'
    BY <1>1 DEF KeepsComing
  <2>c. Carried(cable)' = Carried(cable)
    BY <1>1 DEF Carried
  <2>n. AsksNewest(g) <=> AsksNewest(f)
    BY <1>5 DEF AsksNewest
  <2>1. CASE ~ AsksNewest(f)
    BY <1>1, <2>1, <2>c, <2>n DEF OnItsWay
  <2>2. CASE AsksNewest(f)
    <3>1. f.show = "all"
      BY DEF TraceInv, AsksStand
    <3>2. r \in Page(Fitting(f))
      BY <1>t, <2>2, <3>1, NewestFound
    <3>3. g.found[r] = Now(runRows[r], liveRuns[r], logged[r])
      BY <1>5, <1>t, <3>2 DEF FoundBy, RunTypes
    <3>4. Now(runRows[r], liveRuns[r], logged[r]).at = LastChange(runRows[r], liveRuns[r])
      <4>1. Phase(places[r], runRows[r], liveRuns[r], logged[r])
        BY DEF TraceInv, RunsStand
      <4>2. runRows[r] \in Rows /\ liveRuns[r] \in TraceEntries /\ logged[r] \in Outcomes
        BY <1>t DEF RunTypes
      <4> QED
        BY <4>1, <4>2, NowIs, ZenonT(60)
    <3>5. g \in pageAsks' /\ AsksNewest(g) /\ g.found[r].at >= m
      BY <1>1, <2>n, <2>2, <3>3, <3>4, <1>t DEF RunTypes
    <3> QED
      BY <3>5 DEF OnItsWay
  <2> QED
    BY <2>1, <2>2
<1> QED
  BY <1>1, <1>6, <1>7, <1>8, <1>9, ViewStep

\* Taking a page.
LEMMA TakePageStep ==
  ASSUME TraceInv, NEW f \in pageAsks, TakePage(f)
  PROVE  TraceInv'
<1>t. /\ f \in Answers /\ pageAsks \subseteq Answers /\ listed \in TraceList /\ lens \in Lenses
      /\ f.found \in TraceList /\ f.next \in 0 .. Cardinality(TraceRuns) /\ unseen \in BOOLEAN
  BY TypesSplit DEF TraceInv, ViewSide, Answers
<1>1. /\ UNCHANGED <<cable, traceUpsets>> /\ UNCHANGED runVars
      /\ f.st = "answered" /\ pageAsks' = pageAsks \ {f}
      /\ listed' = MergedList(listed, f.found)
      /\ unseen' = (unseen /\ ~AsksNewest(f))
  BY DEF TakePage
<1>2. lens' \in Lenses /\ lens'.show = lens.show
  <2>1. PICK b \in BOOLEAN : lens' = [lens EXCEPT !.cursor = f.next, !.more = b]
    BY <1>t DEF TakePage, Lenses
  <2> QED
    BY <2>1, <1>t DEF Lenses
<1>3. \A r \in TraceRuns : listed'[r] = MergedEntry(listed[r], f.found[r])
                           /\ listed[r] \in TraceEntries /\ f.found[r] \in TraceEntries
  BY <1>1, <1>t DEF MergedList, TraceList
<1>4. listed' \in TraceList
  <2>1. \A r \in TraceRuns : MergedEntry(listed[r], f.found[r]) \in TraceEntries
    BY <1>3, MergedIs
  <2> QED
    BY <1>1, <2>1 DEF MergedList, TraceList
<1>6. ViewSide'
  BY <1>1, <1>2, <1>4, <1>t, TypesSplit DEF TraceInv, ViewSide
<1>7. AsksStand'
  BY <1>1, <1>2 DEF TraceInv, AsksStand
<1>8. ASSUME NEW r \in TraceRuns PROVE Brings(r)
  <2> SUFFICES ASSUME NEW e \in TraceEntries, Tells(r, e)'
               PROVE  \/ Tells(r, e)
                      \/ \E a, b \in TraceEntries : Tells(r, a) /\ Tells(r, b) /\ e = MergedEntry(a, b)
    BY DEF Brings
  <2>1. \/ e = listed'[r] \/ (\E h \in pageAsks' : e = h.found[r])
        \/ (\E fr \in Carried(cable) : fr.run = r /\ e = fr.entry)
    BY <1>1 DEF Tells, Carried
  <2>2. CASE e = listed'[r]
    <3>1. Tells(r, listed[r]) /\ Tells(r, f.found[r])
      BY DEF Tells
    <3> QED
      BY <2>2, <3>1, <1>3
  <2> QED
    BY <1>1, <2>1, <2>2 DEF Tells
<1>9. ASSUME NEW r \in TraceRuns PROVE KeepsComing(r)
  <2> SUFFICES ASSUME NEW m \in Nat, 1 <= m, OnItsWay(r, m)
               PROVE  OnItsWay(r, m)'
    BY <1>2 DEF KeepsComing
  <2>c. Carried(cable)' = Carried(cable) /\ cable' = cable
    BY <1>1 DEF Carried
  <2>n. \A e \in TraceEntries : e.at \in Nat
    BY NumbersOfTrace DEF TraceEntries
  <2>m. /\ listed'[r] \in TraceEntries /\ listed'[r].at >= listed[r].at
        /\ f.found[r] # NoEntry => listed'[r].at >= f.found[r].at
    BY <1>3, MergedIs
  <2>1. CASE ~ cable.open \/ \E fr \in Carried(cable) : fr.run = 0 \/ (fr.run = r /\ fr.entry.at >= m)
    BY <2>1, <2>c DEF OnItsWay
  <2>2. CASE listed[r].at >= m
    <3>1. listed'[r].at >= m
      BY <2>2, <2>m, <2>n, <1>3
    <3> QED
      BY <3>1 DEF OnItsWay
  <2>3. ASSUME NEW h \in pageAsks, AsksNewest(h), h.st = "asked" \/ h.found[r].at >= m PROVE OnItsWay(r, m)'
    <3>1. CASE h = f
      <4>1. f.found[r].at >= m
        BY <2>3, <3>1, <1>1
      <4>2. f.found[r] # NoEntry
        BY <4>1 DEF NoEntry
      <4>3. listed'[r].at >= m
        BY <4>1, <4>2, <2>m, <2>n, <1>3
      <4> QED
        BY <4>3 DEF OnItsWay
    <3>2. CASE h # f
      <4>1. h \in pageAsks'
        BY <3>2, <1>1
      <4> QED
        BY <4>1, <2>3 DEF OnItsWay
    <3> QED
      BY <3>1, <3>2
  <2>4. CASE unseen /\ \A h \in pageAsks : ~ AsksNewest(h)
    <3>1. unseen' /\ \A h \in pageAsks' : ~ AsksNewest(h)
      BY <2>4, <1>1
    <3> QED
      BY <3>1 DEF OnItsWay
  <2> QED
    BY <2>1, <2>2, <2>3, <2>4 DEF OnItsWay
<1> QED
  BY <1>1, <1>6, <1>7, <1>8, <1>9, ViewStep

\* A page that fails.
LEMMA FailPageStep ==
  ASSUME TraceInv, NEW f \in pageAsks, FailPage(f)
  PROVE  TraceInv'
<1>t. pageAsks \subseteq Answers /\ lens \in Lenses /\ unseen \in BOOLEAN
      /\ traceUpsets \in 0 .. MaxTraceUpsets
  BY TypesSplit DEF TraceInv, ViewSide
<1>1. /\ UNCHANGED <<cable, listed>> /\ UNCHANGED runVars /\ pageAsks' = pageAsks \ {f}
      /\ unseen' = (unseen \/ AsksNewest(f))
      /\ lens' = lens \/ lens' = [lens EXCEPT !.more = FALSE]
      /\ traceUpsets < MaxTraceUpsets /\ traceUpsets' = traceUpsets + 1
  BY DEF FailPage, LosePages, Upset
<1>2. lens' \in Lenses /\ lens'.show = lens.show
  BY <1>1, <1>t DEF Lenses
<1>3. traceUpsets' \in 0 .. MaxTraceUpsets
  BY <1>1, <1>t, NumbersOfTrace
<1>6. ViewSide'
  BY <1>1, <1>2, <1>3, <1>t, TypesSplit DEF TraceInv, ViewSide
<1>7. AsksStand'
  BY <1>1, <1>2 DEF TraceInv, AsksStand
<1>8. ASSUME NEW r \in TraceRuns PROVE Brings(r)
  BY <1>1 DEF Brings, Tells, Carried
<1>9. ASSUME NEW r \in TraceRuns PROVE KeepsComing(r)
  <2> SUFFICES ASSUME NEW m \in Nat, 1 <= m, OnItsWay(r, m)
               PROVE  OnItsWay(r, m)'
    BY <1>2 DEF KeepsComing
  <2>1. CASE AsksNewest(f)
    <3>1. unseen' /\ \A h \in pageAsks' : ~ AsksNewest(h)
      BY <2>1, <1>1 DEF TraceInv, AsksStand
    <3> QED
      BY <3>1 DEF OnItsWay
  <2>2. CASE ~ AsksNewest(f)
    BY <2>2, <1>1 DEF OnItsWay, Carried
  <2> QED
    BY <2>1, <2>2
<1> QED
  BY <1>1, <1>6, <1>7, <1>8, <1>9, ViewStep

\* The connection is made, and cut.
LEMMA CableSteps ==
  ASSUME TraceInv, ConnectTrace \/ CutTrace
  PROVE  TraceInv'
<1>t. traceUpsets \in 0 .. MaxTraceUpsets
  BY TypesSplit DEF TraceInv, ViewSide
<1>f. FreshFrame \in Frames /\ FreshFrame.run = 0
  BY NoEntryTyped DEF FreshFrame, Frames
<1>1. /\ UNCHANGED viewVars /\ UNCHANGED runVars
      /\ \/ cable' = [open |-> TRUE, frames |-> <<FreshFrame>>] /\ traceUpsets' = traceUpsets
         \/ cable' = [open |-> FALSE, frames |-> << >>]
            /\ traceUpsets < MaxTraceUpsets /\ traceUpsets' = traceUpsets + 1
  BY DEF ConnectTrace, CutTrace, Upset
<1>2. /\ cable' \in [open : BOOLEAN, frames : Seq(Frames)]
      /\ cable'.open => Carried(cable') = {FreshFrame}
      /\ Carried(cable') \subseteq {FreshFrame}
  <2>1. CASE cable' = [open |-> TRUE, frames |-> <<FreshFrame>>]
    <3>1. cable'.open /\ cable'.frames = <<FreshFrame>>
      BY <2>1
    <3>2. DOMAIN cable'.frames = {1} /\ cable'.frames[1] = FreshFrame
      BY <3>1
    <3>3. Carried(cable') = {FreshFrame}
      BY <3>2 DEF Carried
    <3>4. cable'.frames \in Seq(Frames)
      BY <3>1, <1>f
    <3> QED
      BY <2>1, <3>3, <3>4
  <2>2. CASE cable' = [open |-> FALSE, frames |-> << >>]
    <3>1. ~ cable'.open /\ cable'.frames = << >> /\ cable'.frames \in Seq(Frames)
      BY <2>2
    <3>2. Carried(cable') = {}
      BY <3>1 DEF Carried
    <3> QED
      BY <2>2, <3>1, <3>2
  <2> QED
    BY <1>1, <2>1, <2>2
<1>3. traceUpsets' \in 0 .. MaxTraceUpsets
  BY <1>1, <1>t, NumbersOfTrace
<1>6. ViewSide'
  BY <1>1, <1>2, <1>3, TypesSplit DEF TraceInv, ViewSide, viewVars
<1>7. AsksStand'
  BY <1>1 DEF TraceInv, AsksStand, viewVars
<1>8. ASSUME NEW r \in TraceRuns PROVE Brings(r)
  <2>1. r # 0
    BY RunsAreNumbers
  <2> QED
    BY <1>1, <1>2, <1>f, <2>1 DEF Brings, Tells, viewVars
<1>9. ASSUME NEW r \in TraceRuns PROVE KeepsComing(r)
  BY <1>2, <1>f DEF KeepsComing, OnItsWay
<1> QED
  BY <1>1, <1>6, <1>7, <1>8, <1>9, ViewStep

LEMMA AskedAgain ==
  ASSUME lens \in Lenses, NEW show \in {"all", "running"}, AskAgain(show)
  PROVE  lens' \in Lenses /\ lens'.show = show /\ pageAsks' = {FirstOf(show)}
<1> DEFINE c == IF show = lens.show THEN lens.cursor ELSE 0
<1>0. c \in 0 .. Cardinality(TraceRuns)
  BY RunsAreNumbers DEF Lenses
<1>a. lens' = [lens EXCEPT !.show = show, !.cursor = c]
  BY DEF AskAgain
<1> HIDE DEF c
<1>1. PICK n \in 0 .. Cardinality(TraceRuns) : lens' = [lens EXCEPT !.show = show, !.cursor = n]
  BY <1>0, <1>a
<1> QED
  BY <1>1 DEF AskAgain, Lenses

\* Whoever asks again is told what there is.
LEMMA AskingStands ==
  ASSUME TraceInv, NEW show \in {"all", "running"}, AskAgain(show),
         cable' \in [open : BOOLEAN, frames : Seq(Frames)], Carried(cable') \subseteq Carried(cable),
         listed' \in {listed, Unlisted}, UNCHANGED runVars, unseen' = unseen,
         traceUpsets' \in 0 .. MaxTraceUpsets
  PROVE  TraceInv'
<1>t. listed \in TraceList /\ lens \in Lenses /\ unseen \in BOOLEAN
  BY TypesSplit DEF TraceInv, ViewSide
<1>1. lens' \in Lenses /\ lens'.show = show /\ pageAsks' = {FirstOf(show)}
  BY <1>t, AskedAgain
<1>2. /\ FirstOf(show) \in Answers /\ AsksNewest(FirstOf(show)) /\ FirstOf(show).show = show
      /\ FirstOf(show).st = "asked" /\ FirstOf(show).found = Unlisted
  BY FirstIs
<1>3. Unlisted \in TraceList /\ \A r \in TraceRuns : Unlisted[r] = NoEntry
  BY NoEntryTyped DEF Unlisted, TraceList
<1>6. ViewSide'
  BY <1>1, <1>2, <1>3, <1>t DEF ViewSide
<1>7. AsksStand'
  BY <1>1, <1>2 DEF AsksStand
<1>8. ASSUME NEW r \in TraceRuns PROVE Brings(r)
  <2> SUFFICES ASSUME NEW e \in TraceEntries, Tells(r, e)' PROVE Tells(r, e) \/ e = NoEntry
    BY DEF Brings
  <2>1. \/ e = listed'[r] \/ e = Unlisted[r]
        \/ (\E fr \in Carried(cable) : fr.run = r /\ e = fr.entry)
    BY <1>1, <1>2 DEF Tells
  <2> QED
    BY <2>1, <1>3 DEF Tells
<1>9. ASSUME NEW r \in TraceRuns PROVE KeepsComing(r)
  BY <1>1, <1>2 DEF KeepsComing, OnItsWay
<1> QED
  BY <1>6, <1>7, <1>8, <1>9, ViewStep

LEMMA ChangeFilterStep ==
  ASSUME TraceInv, ChangeFilter
  PROVE  TraceInv'
<1>t. traceUpsets \in 0 .. MaxTraceUpsets /\ cable \in [open : BOOLEAN, frames : Seq(Frames)]
  BY TypesSplit DEF TraceInv, ViewSide
<1>1. PICK show \in {"all", "running"} : AskAgain(show)
  BY DEF ChangeFilter
<1>2. /\ listed' = Unlisted /\ UNCHANGED runVars /\ cable' = cable /\ unseen' = unseen
      /\ traceUpsets < MaxTraceUpsets /\ traceUpsets' = traceUpsets + 1
  BY DEF ChangeFilter, Upset
<1>3. traceUpsets' \in 0 .. MaxTraceUpsets
  BY <1>2, <1>t, NumbersOfTrace
<1>4. Carried(cable') \subseteq Carried(cable)
  BY <1>2
<1> QED
  BY <1>t, <1>1, <1>2, <1>3, <1>4, AskingStands

LEMMA HearTraceStep ==
  ASSUME TraceInv, HearTrace
  PROVE  TraceInv'
<1> DEFINE frame == cable.frames[1]
<1>t. /\ listed \in TraceList /\ lens \in Lenses /\ unseen \in BOOLEAN /\ TraceTypes
      /\ traceUpsets \in 0 .. MaxTraceUpsets /\ pageAsks \subseteq Answers
  BY TypesSplit DEF TraceInv, ViewSide
<1>1. /\ cable.frames # << >> /\ cable' = [cable EXCEPT !.frames = Tail(@)]
      /\ UNCHANGED runVars /\ unseen' = unseen /\ traceUpsets' = traceUpsets
      /\ frame.run = 0 => AskAgain(lens.show) /\ listed' = listed
      /\ frame.run # 0 => /\ listed' = IF Fits(frame.entry, lens.show)
                             THEN [listed EXCEPT ![frame.run] = MergedEntry(@, frame.entry)]
                             ELSE listed
                          /\ lens' = lens /\ pageAsks' = pageAsks
  BY DEF HearTrace
<1>2. /\ frame \in Frames /\ frame \in Carried(cable)
      /\ cable'.frames \in Seq(Frames) /\ cable'.open = cable.open
      /\ Carried(cable)' \subseteq Carried(cable)
      /\ \A fr \in Carried(cable) : fr = frame \/ fr \in Carried(cable)'
  BY <1>1, <1>t, FirstTaken
<1>3. cable' \in [open : BOOLEAN, frames : Seq(Frames)]
  <2>1. cable \in [open : BOOLEAN, frames : Seq(Frames)]
    BY TypesSplit DEF TraceInv, ViewSide
  <2> QED
    BY <1>1, <1>2, <2>1
<1> HIDE DEF frame
<1>4. CASE frame.run = 0
  <2>1. lens.show \in {"all", "running"}
    BY <1>t DEF Lenses
  <2> QED
    BY <1>1, <1>2, <1>3, <1>4, <1>t, <2>1, AskingStands
<1>5. CASE frame.run # 0
  <2>1. frame.run \in TraceRuns /\ frame.entry \in TraceEntries
    BY <1>2, <1>5 DEF Frames
  <2>2. ASSUME NEW r \in TraceRuns
        PROVE  /\ listed[r] \in TraceEntries
               /\ \/ listed'[r] = listed[r] /\ (frame.run = r => ~ Fits(frame.entry, lens.show))
                  \/ frame.run = r /\ listed'[r] = MergedEntry(listed[r], frame.entry)
    BY <1>1, <1>5, <1>t, <2>1 DEF TraceList
  <2>3. \A r \in TraceRuns : listed'[r] \in TraceEntries
    BY <2>1, <2>2, MergedIs
  <2>4. listed' \in TraceList
    <3>1. DOMAIN listed' = TraceRuns /\ listed' = [r \in TraceRuns |-> listed'[r]]
      BY <1>1, <1>5, <1>t DEF TraceList
    <3> QED
      BY <3>1, <2>3 DEF TraceList
  <2>6. ViewSide'
    BY <1>1, <1>3, <1>5, <1>t, <2>4 DEF ViewSide
  <2>7. AsksStand'
    BY <1>1, <1>5 DEF TraceInv, AsksStand
  <2>8. ASSUME NEW r \in TraceRuns PROVE Brings(r)
    <3> SUFFICES ASSUME NEW e \in TraceEntries, Tells(r, e)'
                 PROVE  \/ Tells(r, e)
                        \/ \E a, b \in TraceEntries : Tells(r, a) /\ Tells(r, b) /\ e = MergedEntry(a, b)
      BY DEF Brings
    <3>1. \/ e = listed'[r] \/ (\E h \in pageAsks : e = h.found[r])
          \/ (\E fr \in Carried(cable) : fr.run = r /\ e = fr.entry)
      BY <1>1, <1>2, <1>5 DEF Tells
    <3>2. ASSUME e = listed'[r], frame.run = r, listed'[r] = MergedEntry(listed[r], frame.entry)
          PROVE  \E a, b \in TraceEntries : Tells(r, a) /\ Tells(r, b) /\ e = MergedEntry(a, b)
      <4>1. Tells(r, listed[r]) /\ Tells(r, frame.entry)
        BY <1>2, <3>2 DEF Tells
      <4> QED
        BY <2>1, <2>2, <3>2, <4>1
    <3> QED
      BY <2>2, <3>1, <3>2 DEF Tells
  <2>9. ASSUME NEW r \in TraceRuns PROVE KeepsComing(r)
    <3> SUFFICES ASSUME NEW m \in Nat, 1 <= m, OnItsWay(r, m), lens.show = "all"
                 PROVE  OnItsWay(r, m)'
      BY <1>1, <1>5 DEF KeepsComing
    <3>n. \A e \in TraceEntries : e.at \in Nat
      BY NumbersOfTrace DEF TraceEntries
    <3>m. /\ listed'[r] \in TraceEntries /\ listed'[r].at >= listed[r].at
          /\ frame.run = r /\ frame.entry # NoEntry => listed'[r].at >= frame.entry.at
      <4>1. Fits(frame.entry, lens.show)
        BY DEF Fits
      <4>2. \/ listed'[r] = listed[r] /\ frame.run # r
            \/ frame.run = r /\ listed'[r] = MergedEntry(listed[r], frame.entry)
        BY <2>2, <4>1
      <4> QED
        BY <4>2, <2>1, <2>2, <3>n, MergedIs
    <3>1. CASE ~ cable.open \/ listed[r].at >= m
      <4>1. ~ cable'.open \/ listed'[r].at >= m
        BY <3>1, <3>m, <3>n, <2>2, <1>2
      <4> QED
        BY <4>1 DEF OnItsWay
    <3>2. ASSUME NEW fr \in Carried(cable), fr.run = 0 \/ (fr.run = r /\ fr.entry.at >= m)
          PROVE  OnItsWay(r, m)'
      <4>1. CASE fr = frame
        <5>1. fr.run = r /\ frame.entry.at >= m /\ frame.entry # NoEntry
          BY <3>2, <4>1, <1>5 DEF NoEntry
        <5>2. listed'[r].at >= m
          BY <5>1, <4>1, <3>m, <3>n, <2>1
        <5> QED
          BY <5>2 DEF OnItsWay
      <4>2. CASE fr # frame
        <5>1. fr \in Carried(cable)'
          BY <4>2, <1>2
        <5> QED
          BY <5>1, <3>2 DEF OnItsWay
      <4> QED
        BY <4>1, <4>2
    <3>3. CASE \/ \E f \in pageAsks : AsksNewest(f) /\ (f.st = "asked" \/ f.found[r].at >= m)
               \/ unseen /\ \A f \in pageAsks : ~ AsksNewest(f)
      BY <3>3, <1>1, <1>5 DEF OnItsWay
    <3> QED
      BY <3>1, <3>2, <3>3 DEF OnItsWay
  <2> QED
    BY <1>1, <2>6, <2>7, <2>8, <2>9, ViewStep
<1> QED
  BY <1>4, <1>5

LEMMA LoadMoreStep ==
  ASSUME TraceInv, LoadMore
  PROVE  TraceInv'
<1> DEFINE g == AskFor(lens.show, lens.cursor)
<1>t. /\ listed \in TraceList /\ lens \in Lenses /\ unseen \in BOOLEAN
      /\ traceUpsets \in 0 .. MaxTraceUpsets /\ pageAsks \subseteq Answers
  BY TypesSplit DEF TraceInv, ViewSide
<1>1. /\ UNCHANGED <<cable, listed, unseen>> /\ UNCHANGED runVars
      /\ pageAsks' = pageAsks \cup {g} /\ lens' = [lens EXCEPT !.more = TRUE]
      /\ traceUpsets < MaxTraceUpsets /\ traceUpsets' = traceUpsets + 1
  BY DEF LoadMore, Upset
<1>2. lens' \in Lenses /\ lens'.show = lens.show
  BY <1>1, <1>t DEF Lenses
<1>3. traceUpsets' \in 0 .. MaxTraceUpsets
  BY <1>1, <1>t, NumbersOfTrace
<1>4. /\ lens.show \in {"all", "running"} /\ lens.cursor \in 0 .. Cardinality(TraceRuns)
      /\ lens.cursor \in 0 .. Cardinality(TraceRuns) + 1
  BY <1>t, RunsAreNumbers DEF Lenses
<1>5. /\ g \in Answers /\ g.after = lens.cursor /\ g.show = lens.show
      /\ g.st = "asked" /\ g.found = Unlisted
  BY <1>4, AskIs
<1>n. ~ AsksNewest(g)
  BY <1>4, <1>5, RunsAreNumbers DEF AsksNewest
<1>u. \A r \in TraceRuns : Unlisted[r] = NoEntry
  BY DEF Unlisted
<1> HIDE DEF g
<1>6. ViewSide'
  BY <1>1, <1>2, <1>3, <1>5, <1>t, TypesSplit DEF TraceInv, ViewSide
<1>7. AsksStand'
  BY <1>1, <1>2, <1>5, <1>n DEF TraceInv, AsksStand
<1>8. ASSUME NEW r \in TraceRuns PROVE Brings(r)
  BY <1>1, <1>5, <1>u DEF Brings, Tells, Carried
<1>9. ASSUME NEW r \in TraceRuns PROVE KeepsComing(r)
  <2> SUFFICES ASSUME NEW m \in Nat, 1 <= m, OnItsWay(r, m)
               PROVE  OnItsWay(r, m)'
    BY <1>2 DEF KeepsComing
  <2> QED
    BY <1>1, <1>n DEF OnItsWay, Carried
<1> QED
  BY <1>1, <1>6, <1>7, <1>8, <1>9, ViewStep

-----------------------------------------------------------------------------
(* The steps of the runs and of their requests *)

RunsTyped == \A r \in TraceRuns : RunTypes(r)

\* Another run than the one a step is about.
LEMMA OthersTold ==
  ASSUME TraceInv, NEW r \in TraceRuns, NEW q \in TraceRuns, q # r, Brings(q), KeepsComing(q),
         \A p \in TraceRuns \ {r} :
           /\ places'[p] = places[p] /\ runRows'[p] = runRows[p] /\ liveRuns'[p] = liveRuns[p]
           /\ logged'[p] = logged[p]
           /\ (p \in posted') <=> (p \in posted)
           /\ (p \in silent') <=> (p \in silent),
         runRows[r] # NoRow => runRows'[r] # NoRow
  PROVE  NoneLater(q)' /\ EndTold(q)'
<1>1. runRows[q] # NoRow => (q \in FirstPage' => q \in FirstPage)
  BY FirstPageStays
<1>2. LastChange(runRows[q], liveRuns[q])' = LastChange(runRows[q], liveRuns[q])
  BY DEF LastChange
<1>3. /\ places'[q] = places[q] /\ runRows'[q] = runRows[q] /\ logged'[q] \in {logged[q], "none"}
      /\ (q \in posted') <=> (q \in posted)
      /\ (q \in silent') <=> (q \in silent)
  OBVIOUS
<1>4. CASE runRows[q] # NoRow
  BY <1>1, <1>2, <1>3, <1>4, EndStaysTold
<1>5. CASE runRows[q] = NoRow
  <2>1. EndTold(q)'
    BY <1>3, <1>5 DEF EndTold
  <2>2. RunTypes(q)
    BY RunTyped DEF TraceInv
  <2>3. NoneLater(q)'
    BY <1>2, <2>2, NoneLaterStays DEF RunTypes
  <2> QED
    BY <2>1, <2>3
<1> QED
  BY <1>4, <1>5

\* While the panel and the connection stay as they are, so does what is told.
LEMMA ViewKept ==
  ASSUME UNCHANGED viewVars, cable' = cable, NEW r \in TraceRuns
  PROVE  /\ Brings(r) /\ KeepsComing(r)
         /\ \A e : Tells(r, e)' <=> Tells(r, e)
         /\ \A m : OnItsWay(r, m)' <=> OnItsWay(r, m)
<1>1. \A e : Tells(r, e)' <=> Tells(r, e)
  BY DEF Tells, Carried, viewVars
<1>2. \A m : OnItsWay(r, m)' <=> OnItsWay(r, m)
  BY DEF OnItsWay, Carried, viewVars
<1>3. Brings(r)
  BY <1>1 DEF Brings
<1>4. KeepsComing(r)
  BY <1>2 DEF KeepsComing, viewVars
<1> QED
  BY <1>1, <1>2, <1>3, <1>4

LEMMA ViewSideKept ==
  ASSUME TraceInv, UNCHANGED viewVars, cable' = cable, traceUpsets' \in 0 .. MaxTraceUpsets
  PROVE  ViewSide' /\ AsksStand'
<1>1. ViewSide /\ AsksStand
  BY TypesSplit DEF TraceInv
<1>2. ViewSide'
  BY <1>1 DEF ViewSide, viewVars
<1>3. AsksStand'
  BY <1>1 DEF AsksStand, viewVars
<1> QED
  BY <1>2, <1>3

\* The request takes a checkpoint.
LEMMA CheckpointStep ==
  ASSUME TraceInv, NEW r \in TraceRuns, Checkpoint(r)
  PROVE  TraceInv'
<1>t. /\ TraceTypes /\ RunSide /\ RunsTyped /\ traceUpsets' \in 0 .. MaxTraceUpsets
  BY RunTyped, TypesSplit DEF TraceInv, ViewSide, RunsTyped, Checkpoint
<1>1. /\ places[r] = "none" /\ posted' = posted \cup {r}
      /\ places' = [places EXCEPT ![r] = "marked"]
      /\ baseline' = [baseline EXCEPT ![r] = [q \in TraceRuns |-> Materialized[q].at]]
      /\ UNCHANGED <<runRows, logged, liveRuns, timers, silent>> /\ UNCHANGED viewVars /\ cable' = cable
  BY DEF Checkpoint, NextRun
<1>2. runRows[r] = NoRow /\ liveRuns[r] = NoEntry /\ Phase(places[r], runRows[r], liveRuns[r], logged[r])
  BY <1>1 DEF TraceInv, RunsStand, Phase
<1>3. Materialized[r].at = 0
  <2>1. Materialized[r] = FromRow(NoRow, logged[r])
    BY <1>t, <1>2 DEF RunsTyped, RunTypes, Now, NoEntry
  <2> QED
    BY <2>1 DEF FromRow, NoRow
<1>4. RunSide'
  <2>1. \A q \in TraceRuns : Materialized[q].at \in Times
    BY <1>t DEF RunsTyped, RunTypes, TraceEntries, Times
  <2>2. [q \in TraceRuns |-> Materialized[q].at] \in [TraceRuns -> Times]
    BY <2>1
  <2> QED
    BY <1>1, <1>t, <2>2 DEF RunSide
<1>5. ViewSide' /\ AsksStand'
  BY <1>1, <1>t, ViewSideKept
<1>o. \A p \in TraceRuns \ {r} :
           /\ places'[p] = places[p] /\ runRows'[p] = runRows[p] /\ liveRuns'[p] = liveRuns[p]
           /\ logged'[p] = logged[p] /\ baseline'[p] = baseline[p]
           /\ (p \in posted') <=> (p \in posted)
           /\ (p \in silent') <=> (p \in silent)
  BY <1>1, <1>t DEF RunSide
<1>p. /\ places'[r] = "marked" /\ r \in posted' /\ baseline'[r][r] = 0
      /\ runRows'[r] = runRows[r] /\ liveRuns'[r] = liveRuns[r] /\ logged'[r] = logged[r]
  BY <1>1, <1>3, <1>t DEF RunSide
<1>6. RunsStand'
  <2>1. Phase(places'[r], runRows'[r], liveRuns'[r], logged'[r])
    BY <1>p, <1>1, <1>2 DEF Phase, TraceEnds
  <2> QED
    BY <2>1, <1>o, <1>p DEF TraceInv, RunsStand
<1>7. ASSUME NEW q \in TraceRuns PROVE NoneLater(q)' /\ EndTold(q)'
  <2>1. Brings(q) /\ KeepsComing(q)
    BY <1>1, ViewKept
  <2>2. CASE q # r
    BY <1>o, <1>p, <2>1, <2>2, OthersTold
  <2>3. CASE q = r
    <3>1. EndTold(r)'
      BY <1>p DEF EndTold, Over, TraceEnds
    <3>2. LastChange(runRows[r], liveRuns[r])' = LastChange(runRows[r], liveRuns[r])
      BY <1>p DEF LastChange
    <3>3. NoneLater(r)'
      BY <1>t, <2>1, <2>3, <3>2, NoneLaterStays DEF RunsTyped, RunTypes
    <3> QED
      BY <2>3, <3>1, <3>3
  <2> QED
    BY <2>2, <2>3
<1>8. TraceTypes'
  BY <1>4, <1>5, TypesSplitNext
<1> QED
  BY <1>5, <1>6, <1>7, <1>8 DEF TraceInv

OthersRest(r) ==
  \A p \in TraceRuns \ {r} :
    /\ places'[p] = places[p] /\ runRows'[p] = runRows[p] /\ liveRuns'[p] = liveRuns[p]
    /\ logged'[p] = logged[p] /\ baseline'[p] = baseline[p]
    /\ (p \in posted') <=> (p \in posted)
    /\ (p \in silent') <=> (p \in silent)

\* What is left to show of a step of one run.
LEMMA RunStep ==
  ASSUME TraceInv, NEW r \in TraceRuns, RunSide', ViewSide', AsksStand', OthersRest(r),
         runRows[r] # NoRow => runRows'[r] # NoRow,
         \A q \in TraceRuns \ {r} : Brings(q) /\ KeepsComing(q),
         Phase(places'[r], runRows'[r], liveRuns'[r], logged'[r]), baseline'[r][r] = 0,
         places'[r] = "none" => r \notin posted',
         places'[r] \in {"marked", "ended"} => r \in posted',
         NoneLater(r)', EndTold(r)'
  PROVE  TraceInv'
<1>1. TraceTypes'
  BY TypesSplitNext
<1>2. RunsStand'
  BY DEF TraceInv, RunsStand, OthersRest
<1>3. ASSUME NEW q \in TraceRuns \ {r} PROVE NoneLater(q)' /\ EndTold(q)'
  BY OthersTold DEF OthersRest
<1> QED
  BY <1>1, <1>2, <1>3 DEF TraceInv

\* The row of a run that moves on.
NewRow(to, r) == [status |-> to, at |-> Age(r) + 1]

LEMMA NewRowTyped ==
  ASSUME NEW to \in {"running", "completed", "failed"}, NEW r \in TraceRuns,
         Age(r) \in Nat, Age(r) <= MaxAge + 1
  PROVE  /\ NewRow(to, r) \in Rows /\ NewRow(to, r).status = to /\ NewRow(to, r).at = Age(r) + 1
         /\ NewRow(to, r) # NoRow
<1>1. Age(r) + 1 \in 0 .. MaxAge + 3
  BY NumbersOfTrace
<1>2. NewRow(to, r).status = to /\ NoRow.status = "none"
  BY DEF NewRow, NoRow
<1> QED
  BY <1>1, <1>2 DEF NewRow, Rows

\* How long a run has lasted.
LEMMA Ages ==
  ASSUME TraceInv, NEW r \in TraceRuns
  PROVE  /\ Age(r) \in Nat /\ Age(r) = LastChange(runRows[r], liveRuns[r])
         /\ runRows[r].at <= Age(r) /\ liveRuns[r].at <= Age(r)
         /\ places[r] \in {"none", "marked"} => Age(r) = 0
         /\ places[r] = "running" => Age(r) <= MaxAge
         /\ places[r] \in TraceEnds => Age(r) = liveRuns[r].at /\ Age(r) <= MaxAge + 1
         /\ places[r] \in {"ended", "done"} => Age(r) = runRows[r].at /\ Age(r) <= MaxAge + 2
<1>t. RunTypes(r)
  BY RunTyped DEF TraceInv
<1>p. Phase(places[r], runRows[r], liveRuns[r], logged[r])
  BY DEF TraceInv, RunsStand
<1>n. runRows[r].at \in Nat /\ liveRuns[r].at \in Nat /\ MaxAge \in Nat
  BY <1>t, NumbersOfTrace DEF RunTypes
<1>1. /\ Age(r) \in Nat /\ Age(r) = LastChange(runRows[r], liveRuns[r])
      /\ Age(r) = IF liveRuns[r].at > runRows[r].at THEN liveRuns[r].at ELSE runRows[r].at
  BY <1>t DEF RunTypes, LastChange
<1>2. places[r] \in {"none", "marked"} => Age(r) = 0
  BY <1>1, <1>p DEF Phase, NoRow, NoEntry
<1>3. places[r] = "running" => Age(r) <= MaxAge
  BY <1>1, <1>n, <1>p DEF Phase
<1>4. places[r] \in TraceEnds => Age(r) = liveRuns[r].at /\ Age(r) <= MaxAge + 1
  BY <1>1, <1>n, <1>p DEF Phase
<1>5. places[r] \in {"ended", "done"} => Age(r) = runRows[r].at /\ Age(r) <= MaxAge + 2
  BY <1>1, <1>n, <1>p DEF Phase, NoRow, NoEntry
<1> QED
  BY <1>1, <1>2, <1>3, <1>4, <1>5, <1>n

LEMMA StartRunStep ==
  ASSUME TraceInv, NEW r \in TraceRuns, StartRun(r)
  PROVE  TraceInv'
<1>t. /\ TraceTypes /\ RunSide /\ RunTypes(r) /\ traceUpsets' \in 0 .. MaxTraceUpsets
  BY RunTyped, TypesSplit DEF TraceInv, ViewSide, StartRun
<1>1. /\ places[r] \in {"none", "marked"} /\ places' = [places EXCEPT ![r] = "running"]
      /\ runRows' = [runRows EXCEPT ![r] = NewRow("running", r)]
      /\ UNCHANGED <<logged, liveRuns, timers, posted, baseline, silent>>
      /\ UNCHANGED viewVars /\ cable' = cable
  BY DEF StartRun, NextRun, Transition, NewRow
<1>2. runRows[r] = NoRow /\ liveRuns[r] = NoEntry /\ logged[r] = "none"
  BY <1>1 DEF TraceInv, RunsStand, Phase
<1>3. Age(r) = 0 /\ LastChange(runRows[r], liveRuns[r]) = 0
  BY <1>1, Ages
<1>4. NewRow("running", r) \in Rows /\ NewRow("running", r).status = "running"
      /\ NewRow("running", r).at = 1 /\ NewRow("running", r) # NoRow
  BY <1>3, NewRowTyped, NumbersOfTrace
<1>5. RunSide'
  BY <1>1, <1>4, <1>t DEF RunSide
<1>6. ViewSide' /\ AsksStand'
  BY <1>1, <1>t, ViewSideKept
<1>7. OthersRest(r)
  BY <1>1, <1>t DEF RunSide, OthersRest
<1>8. /\ places'[r] = "running" /\ runRows'[r] = NewRow("running", r) /\ liveRuns'[r] = NoEntry
      /\ logged'[r] = "none" /\ baseline'[r][r] = 0
  BY <1>1, <1>2, <1>t DEF RunSide, TraceInv, RunsStand
<1>9. Phase(places'[r], runRows'[r], liveRuns'[r], logged'[r])
  BY <1>4, <1>8, NumbersOfTrace DEF Phase, NoEntry, TraceEnds
<1>10. \A q \in TraceRuns : Brings(q) /\ KeepsComing(q)
  BY <1>1, ViewKept
<1>11. LastChange(runRows[r], liveRuns[r])' = 1
  BY <1>4, <1>8 DEF LastChange, NoEntry
<1>12. NoneLater(r)'
  BY <1>3, <1>10, <1>11, NoneLaterStays
<1>13. EndTold(r)'
  BY <1>8 DEF EndTold, Over, TraceEnds
<1> QED
  BY <1>2, <1>5, <1>6, <1>7, <1>8, <1>9, <1>10, <1>12, <1>13, RunStep

\* The entry that an event of a run keeps.
EventEntry(r, status) == [NoEntry EXCEPT !.status = status, !.at = Age(r) + 1]

LEMMA EmitStep ==
  ASSUME TraceInv, NEW r \in TraceRuns, NEW status, NEW place, Emit(r, status, place),
         \/ status \in {"running", "failed"} /\ place = "running" /\ Age(r) < MaxAge
         \/ status \in TraceEnds /\ place = status
  PROVE  TraceInv'
<1> DEFINE e == EventEntry(r, status)
           fr == [run |-> r, entry |-> e]
<1>t. /\ TraceTypes /\ RunSide /\ ViewSide /\ RunTypes(r) /\ traceUpsets' \in 0 .. MaxTraceUpsets
      /\ AsksStand
  BY RunTyped, TypesSplit DEF TraceInv, ViewSide, Emit
<1>1. /\ places[r] = "running" /\ places' = [places EXCEPT ![r] = place]
      /\ liveRuns' = [liveRuns EXCEPT ![r] = e] /\ timers' \in {timers, timers \cup {r}}
      /\ Publicize(<<fr>>)
      /\ UNCHANGED <<runRows, logged, posted, baseline, silent>> /\ UNCHANGED viewVars
      /\ traceUpsets' = traceUpsets
  BY DEF Emit, EventEntry
<1>2. /\ Age(r) \in Nat /\ Age(r) <= MaxAge /\ Age(r) = LastChange(runRows[r], liveRuns[r])
      /\ runRows[r].at <= Age(r)
  BY <1>1, Ages
<1>3. /\ e \in TraceEntries /\ e.status = status /\ e.at = Age(r) + 1 /\ e.model = "none"
  <2>1. Age(r) + 1 \in 0 .. MaxAge + 3 /\ status \in {"none", "running"} \cup TraceEnds
    BY <1>2, NumbersOfTrace DEF TraceEnds
  <2>2. NoEntry \in TraceEntries /\ NoEntry.model = "none"
    BY NoEntryTyped DEF NoEntry
  <2> HIDE DEF NoEntry
  <2> QED
    BY <2>1, <2>2 DEF EventEntry, TraceEntries
<1> HIDE DEF e
<1>4. fr \in Frames /\ fr.run = r /\ fr.entry = e
  BY <1>3 DEF Frames
<1> HIDE DEF fr
<1>5. RunSide'
  BY <1>1, <1>3, <1>t DEF RunSide, TraceEnds, TraceList
<1>6. /\ cable' \in [open : BOOLEAN, frames : Seq(Frames)] /\ cable'.open = cable.open
      /\ cable.open => Carried(cable)' = Carried(cable) \cup {fr}
      /\ ~ cable.open => cable' = cable
  <2>1. <<fr>> \in Seq(Frames) /\ {<<fr>>[k] : k \in DOMAIN <<fr>>} = {fr}
    BY <1>4
  <2> QED
    BY <2>1, <1>1, <1>t, MoreSent
<1>7. ViewSide' /\ AsksStand'
  BY <1>1, <1>6, <1>t DEF ViewSide, AsksStand, viewVars
<1>8. OthersRest(r)
  BY <1>1, <1>t DEF RunSide, OthersRest
<1>9. /\ places'[r] = place /\ runRows'[r] = runRows[r] /\ liveRuns'[r] = e
      /\ logged'[r] = logged[r] /\ baseline'[r][r] = 0
  BY <1>1, <1>t DEF RunSide, TraceInv, RunsStand, TraceList
<1>10. Phase(places[r], runRows[r], liveRuns[r], logged[r])
  BY DEF TraceInv, RunsStand
<1>11. Phase(places'[r], runRows'[r], liveRuns'[r], logged'[r])
  BY <1>1, <1>2, <1>3, <1>9, <1>10, <1>t, NumbersOfTrace DEF Phase, TraceEnds, RunTypes
<1>12. ASSUME NEW q \in TraceRuns, NEW x, Tells(q, x)'
       PROVE  Tells(q, x) \/ (q = r /\ x = e)
  BY <1>1, <1>4, <1>6, <1>12 DEF Tells, viewVars
<1>13. ASSUME NEW q \in TraceRuns \ {r} PROVE Brings(q) /\ KeepsComing(q)
  <2>1. Brings(q)
    BY <1>12 DEF Brings
  <2>2. \A m : OnItsWay(q, m) => OnItsWay(q, m)'
    BY <1>1, <1>6 DEF OnItsWay, viewVars
  <2>3. lens' = lens
    BY <1>1 DEF viewVars
  <2> QED
    BY <2>1, <2>2, <2>3 DEF KeepsComing
<1>14. LastChange(runRows[r], liveRuns[r])' = e.at
  BY <1>2, <1>3, <1>9, <1>t DEF LastChange, RunTypes
<1>15. \A x \in TraceEntries : x.at \in Nat
  BY NumbersOfTrace DEF TraceEntries
<1>16. \A x \in TraceEntries : Tells(r, x)' => x.at < e.at \/ x = e
  BY <1>2, <1>3, <1>12, <1>15 DEF TraceInv, NoneLater
<1>17. NoneLater(r)'
  BY <1>14, <1>15, <1>16, <1>3 DEF NoneLater
<1>18. EndTold(r)'
  <2>1. CASE place = "running"
    BY <2>1, <1>9 DEF EndTold, Over, TraceEnds
  <2>2. CASE place # "running"
    <3>1. place = status /\ status \in TraceEnds
      BY <2>2
    <3>2. logged'[r] = "none"
      BY <1>1, <1>9, <1>10 DEF Phase
    <3>3. Says(places'[r], runRows'[r], logged'[r], r \in posted', e)
      BY <3>1, <3>2, <1>3, <1>9 DEF Says, Word
    <3>m. PICK m \in Nat : m = e.at
      BY <1>3, <1>15
    <3>4. LateOnes(r, m)'
      BY <3>3, <3>m, <1>15, <1>16, <1>3 DEF LateOnes
    <3>5. OnItsWay(r, m)'
      <4>1. CASE ~ cable.open
        BY <4>1, <1>6 DEF OnItsWay
      <4>2. CASE cable.open
        <5>1. fr \in Carried(cable)' /\ fr.run = r /\ fr.entry.at >= m
          BY <4>2, <1>3, <1>4, <1>6, <1>15, <3>m
        <5>2. \E x \in Carried(cable)' : x.run = r /\ x.entry.at >= m
          BY <5>1
        <5> QED
          BY <5>2 DEF OnItsWay
      <4> QED
        BY <4>1, <4>2
    <3>6. 1 <= m /\ m <= LastChange(runRows[r], liveRuns[r])'
      BY <1>2, <1>3, <1>14, <3>m
    <3>7. Comes(r, m)'
      BY <3>5 DEF Comes
    <3> QED
      BY <3>4, <3>6, <3>7 DEF EndTold
  <2> QED
    BY <2>1, <2>2
<1>19. places'[r] \notin {"none", "marked", "ended"}
  BY <1>9 DEF TraceEnds
<1> QED
  BY <1>5, <1>7, <1>8, <1>9, <1>11, <1>13, <1>17, <1>18, <1>19, RunStep

LEMMA EndRunStep ==
  ASSUME TraceInv, NEW r \in TraceRuns, EndRun(r)
  PROVE  TraceInv'
<1>t. /\ TraceTypes /\ RunSide /\ RunTypes(r) /\ traceUpsets' \in 0 .. MaxTraceUpsets
  BY RunTyped, TypesSplit DEF TraceInv, ViewSide, EndRun
<1>0. PICK fate \in TraceEnds, end \in {"completed", "failed"} :
        /\ fate = IF places[r] = "running" THEN "failed" ELSE places[r]
        /\ RecordTurn(r, fate) /\ Transition(r, end)
        /\ silent' = IF r \notin posted /\ (places[r] = "running" \/ fate # TraceStatus(end))
                     THEN silent \cup {r} ELSE silent
  BY DEF EndRun
<1>1. /\ places[r] \in {"running"} \cup TraceEnds
      /\ places' = [places EXCEPT ![r] = IF r \in posted THEN "ended" ELSE "done"]
      /\ runRows' = [runRows EXCEPT ![r] = NewRow(end, r)]
      /\ logged' = [logged EXCEPT ![r] = fate]
      /\ UNCHANGED <<liveRuns, timers, posted, baseline>> /\ UNCHANGED viewVars /\ cable' = cable
  BY <1>0 DEF EndRun, Transition, NewRow, RecordTurn
<1>2. /\ Age(r) \in Nat /\ Age(r) <= MaxAge + 1 /\ Age(r) = LastChange(runRows[r], liveRuns[r])
      /\ liveRuns[r].at <= Age(r)
  BY <1>1, Ages, NumbersOfTrace
<1>3. Phase(places[r], runRows[r], liveRuns[r], logged[r])
  BY DEF TraceInv, RunsStand
<1>4. NewRow(end, r) \in Rows /\ NewRow(end, r).status = end
      /\ NewRow(end, r).at = Age(r) + 1 /\ NewRow(end, r) # NoRow
  BY <1>2, NewRowTyped
<1>5. RunSide'
  BY <1>0, <1>1, <1>4, <1>t DEF RunSide, Outcomes
<1>6. ViewSide' /\ AsksStand'
  BY <1>1, <1>t, ViewSideKept
<1>7. OthersRest(r)
  BY <1>0, <1>1, <1>t DEF RunSide, OthersRest
<1>8. /\ places'[r] = (IF r \in posted THEN "ended" ELSE "done") /\ runRows'[r] = NewRow(end, r)
      /\ liveRuns'[r] = liveRuns[r]
      /\ logged'[r] = fate /\ baseline'[r][r] = 0 /\ posted' = posted
  BY <1>1, <1>t DEF RunSide, TraceInv, RunsStand
<1>9. Phase(places'[r], runRows'[r], liveRuns'[r], logged'[r])
  BY <1>2, <1>3, <1>4, <1>8, NumbersOfTrace, <1>t DEF Phase, TraceEnds, RunTypes
<1>10. \A q \in TraceRuns : Brings(q) /\ KeepsComing(q)
  BY <1>1, ViewKept
<1>11. LastChange(runRows[r], liveRuns[r])' = Age(r) + 1
  BY <1>2, <1>4, <1>8, <1>t DEF LastChange, RunTypes
<1>12. NoneLater(r)'
  BY <1>2, <1>10, <1>11, NoneLaterStays
<1>w. /\ \A e : Tells(r, e)' <=> Tells(r, e)
      /\ \A m : OnItsWay(r, m)' <=> OnItsWay(r, m)
      /\ lens' = lens
  BY <1>1, ViewKept DEF viewVars
<1>n. \A e \in TraceEntries : e.at \in Nat
  BY NumbersOfTrace DEF TraceEntries
<1>13. ASSUME r \notin silent'
       PROVE  \E m \in Nat : /\ 1 <= m /\ m <= LastChange(runRows[r], liveRuns[r])'
                             /\ LateOnes(r, m)' /\ Comes(r, m)'
  <2>1. CASE r \in posted
    <3>1. PICK m \in Nat : m = Age(r) + 1
      BY <1>2
    <3>2. \A e \in TraceEntries : Tells(r, e)' => ~ (e.at >= m)
      BY <1>w, <1>n, <1>2, <3>1 DEF TraceInv, NoneLater
    <3>3. LateOnes(r, m)'
      BY <3>2 DEF LateOnes
    <3>4. Comes(r, m)'
      BY <2>1, <1>8 DEF Comes
    <3> QED
      BY <1>2, <1>11, <3>1, <3>3, <3>4
  <2>2. CASE r \notin posted
    <3>1. places[r] \in TraceEnds /\ fate = TraceStatus(end) /\ fate = places[r] /\ r \notin silent
      BY <1>0, <1>1, <1>13, <2>2
    <3>2. runRows[r] # NoRow
      BY <1>3, <3>1 DEF Phase, NoRow
    <3>3. PICK m \in Nat : /\ 1 <= m /\ m <= LastChange(runRows[r], liveRuns[r])
                           /\ LateOnes(r, m) /\ Comes(r, m)
      BY <3>1, <3>2 DEF TraceInv, EndTold, Over
    <3>4. Word(places'[r], runRows'[r]) = Word(places[r], runRows[r])
      BY <1>4, <1>8, <2>2, <3>1 DEF Word, TraceEnds
    <3>5. LateOnes(r, m)'
      <4>1. \A e \in TraceEntries : Tells(r, e) /\ e.at >= m => e.status = Word(places[r], runRows[r])
        BY <3>3 DEF LateOnes, Says
      <4>2. \A e \in TraceEntries : Tells(r, e)' /\ e.at >= m => e.status = Word(places'[r], runRows'[r])
        BY <1>w, <3>4, <4>1
      <4> QED
        BY <1>8, <2>2, <4>2 DEF LateOnes, Says
    <3>6. r \in FirstPage' => r \in FirstPage
      <4>1. \A q \in TraceRuns : runRows[q] # NoRow => runRows'[q] # NoRow
        BY <1>4, <1>7, <1>8 DEF OthersRest
      <4> QED
        BY <3>2, <4>1, FirstPageStays
    <3>7. Comes(r, m)'
      BY <1>w, <3>1, <3>3, <3>6 DEF Comes, TraceEnds
    <3> QED
      BY <1>2, <1>11, <3>3, <3>5, <3>7
  <2> QED
    BY <2>1, <2>2
<1>14. EndTold(r)'
  BY <1>13 DEF EndTold
<1> QED
  BY <1>4, <1>5, <1>6, <1>7, <1>8, <1>9, <1>10, <1>12, <1>14, RunStep

LEMMA DropLiveStep ==
  ASSUME TraceInv, NEW r \in TraceRuns, DropLive(r)
  PROVE  TraceInv'
<1>t. /\ TraceTypes /\ RunSide /\ RunTypes(r) /\ traceUpsets' \in 0 .. MaxTraceUpsets
  BY RunTyped, TypesSplit DEF TraceInv, ViewSide, DropLive
<1> DEFINE e == [liveRuns[r] EXCEPT !.status = "none"]
<1>1. /\ places[r] \notin TraceEnds /\ timers' = timers \ {r}
      /\ liveRuns' = [liveRuns EXCEPT ![r] = e]
      /\ UNCHANGED <<places, runRows, logged, posted, baseline, silent>>
      /\ UNCHANGED viewVars /\ cable' = cable
  BY DEF DropLive
<1>2. e \in TraceEntries /\ e.at = liveRuns[r].at /\ e.model = liveRuns[r].model /\ e.status = "none"
  BY <1>t DEF RunTypes, TraceEntries
<1>3. liveRuns[r] = NoEntry => e = NoEntry
  BY DEF NoEntry
<1> HIDE DEF e
<1>5. RunSide'
  BY <1>1, <1>2, <1>t DEF RunSide, TraceList
<1>6. ViewSide' /\ AsksStand'
  BY <1>1, <1>t, ViewSideKept
<1>7. OthersRest(r)
  BY <1>1, <1>t DEF RunSide, OthersRest, TraceList
<1>8. /\ places'[r] = places[r] /\ runRows'[r] = runRows[r] /\ liveRuns'[r] = e
      /\ logged'[r] = logged[r] /\ baseline'[r][r] = 0 /\ posted' = posted /\ silent' = silent
  BY <1>1, <1>t DEF RunSide, TraceInv, RunsStand, TraceList
<1>9. Phase(places[r], runRows[r], liveRuns[r], logged[r])
  BY DEF TraceInv, RunsStand
<1>10. Phase(places'[r], runRows'[r], liveRuns'[r], logged'[r])
  BY <1>1, <1>2, <1>3, <1>8, <1>9 DEF Phase
<1>11. \A q \in TraceRuns : Brings(q) /\ KeepsComing(q)
  BY <1>1, ViewKept
<1>12. LastChange(runRows[r], liveRuns[r])' = LastChange(runRows[r], liveRuns[r])
  BY <1>2, <1>8 DEF LastChange
<1>13. r \in FirstPage' => r \in FirstPage
  BY <1>1 DEF FirstPage
<1>14. NoneLater(r)' /\ EndTold(r)'
  BY <1>8, <1>11, <1>12, <1>13, EndStaysTold
<1>15. /\ places'[r] = "none" => r \notin posted'
       /\ places'[r] \in {"marked", "ended"} => r \in posted'
  BY <1>8 DEF TraceInv, RunsStand
<1> QED
  BY <1>5, <1>6, <1>7, <1>8, <1>10, <1>11, <1>14, <1>15, RunStep

LEMMA ClearLogsStep ==
  ASSUME TraceInv, ClearLogs
  PROVE  TraceInv'
<1>t. /\ TraceTypes /\ RunSide /\ ViewSide /\ traceUpsets \in 0 .. MaxTraceUpsets
  BY TypesSplit DEF TraceInv, ViewSide
<1>1. /\ logged' = [r \in TraceRuns |-> "none"]
      /\ UNCHANGED <<places, runRows, liveRuns, timers, posted, baseline, silent>>
      /\ UNCHANGED viewVars /\ cable' = cable
      /\ traceUpsets < MaxTraceUpsets /\ traceUpsets' = traceUpsets + 1
  BY DEF ClearLogs, Upset
<1>2. traceUpsets' \in 0 .. MaxTraceUpsets
  BY <1>1, <1>t, NumbersOfTrace
<1>3. ViewSide' /\ AsksStand'
  BY <1>1, <1>2, ViewSideKept
<1>4. RunSide'
  BY <1>1, <1>t DEF RunSide, Outcomes
<1>5. RunsStand'
  BY <1>1 DEF TraceInv, RunsStand, Phase
<1>6. ASSUME NEW r \in TraceRuns PROVE NoneLater(r)' /\ EndTold(r)'
  <2>1. Brings(r) /\ KeepsComing(r)
    BY <1>1, ViewKept
  <2>2. LastChange(runRows[r], liveRuns[r])' = LastChange(runRows[r], liveRuns[r])
    BY <1>1 DEF LastChange
  <2>3. r \in FirstPage' => r \in FirstPage
    BY <1>1 DEF FirstPage
  <2> QED
    BY <1>1, <2>1, <2>2, <2>3, EndStaysTold
<1>7. TraceTypes'
  BY <1>3, <1>4, TypesSplitNext
<1> QED
  BY <1>3, <1>5, <1>6, <1>7 DEF TraceInv

\* What the end of a request publishes.
Altered(r)    == Differing(r, Materialized)
Latest(r, k)  == CHOOSE q \in Altered(r) : Rank(Altered(r), q) = k
FramesFor(r)  == [k \in 1 .. Cardinality(Altered(r)) |->
                    [run |-> Latest(r, k), entry |-> Materialized[Latest(r, k)]]]

LEMMA FramesAre ==
  ASSUME TraceTypes, NEW r \in TraceRuns
  PROVE  /\ FramesFor(r) \in Seq(Frames)
         /\ \A k \in DOMAIN FramesFor(r) :
              /\ FramesFor(r)[k].run \in TraceRuns
              /\ FramesFor(r)[k].entry = Materialized[FramesFor(r)[k].run]
         /\ \A q \in Altered(r) : \E k \in DOMAIN FramesFor(r) : FramesFor(r)[k].run = q
<1> DEFINE C == Altered(r)
           n == Cardinality(C)
<1>1. C \in SUBSET TraceRuns /\ n \in Nat
  <2>1. C \in SUBSET TraceRuns
    BY DEF Altered, Differing
  <2> QED
    BY <2>1, SomeRuns
<1>2. /\ \A q \in C : Rank(C, q) \in 1 .. n
      /\ \A q, p \in C : Rank(C, q) = Rank(C, p) => q = p
      /\ \A k \in 1 .. n : \E q \in C : Rank(C, q) = k
  BY <1>1, RanksFit
<1>3. ASSUME NEW k \in 1 .. n PROVE Latest(r, k) \in C /\ Rank(C, Latest(r, k)) = k
  BY <1>2 DEF Latest
<1>4. ASSUME NEW q \in C PROVE Latest(r, Rank(C, q)) = q /\ Rank(C, q) \in 1 .. n
  BY <1>2, <1>3
<1>m. \A q \in TraceRuns : Materialized[q] \in TraceEntries
  BY RunTyped DEF RunTypes
<1>5. \A k \in 1 .. n : Latest(r, k) \in TraceRuns
  BY <1>1, <1>3
<1>6. \A k \in 1 .. n : [run |-> Latest(r, k), entry |-> Materialized[Latest(r, k)]] \in Frames
  BY <1>5, <1>m DEF Frames
<1>7. FramesFor(r) = [k \in 1 .. n |-> [run |-> Latest(r, k), entry |-> Materialized[Latest(r, k)]]]
  BY DEF FramesFor
<1> HIDE DEF C, n
<1>8. FramesFor(r) \in [1 .. n -> Frames]
  BY <1>6, <1>7
<1>9. FramesFor(r) \in Seq(Frames) /\ DOMAIN FramesFor(r) = 1 .. n
  BY <1>1, <1>8
<1>10. \A k \in 1 .. n : FramesFor(r)[k].run = Latest(r, k)
                         /\ FramesFor(r)[k].entry = Materialized[Latest(r, k)]
  BY <1>7
<1>11. \A q \in C : \E k \in 1 .. n : FramesFor(r)[k].run = q
  BY <1>4, <1>10
<1> QED
  BY <1>5, <1>9, <1>10, <1>11 DEF C

LEMMA PublishChangesStep ==
  ASSUME TraceInv, NEW r \in TraceRuns, PublishChanges(r)
  PROVE  TraceInv'
<1>t. /\ TraceTypes /\ RunSide /\ ViewSide /\ RunsTyped /\ traceUpsets' \in 0 .. MaxTraceUpsets
      /\ AsksStand
  BY RunTyped, TypesSplit DEF TraceInv, ViewSide, RunsTyped, PublishChanges
<1>1. /\ places[r] = "ended" /\ places' = [places EXCEPT ![r] = "done"]
      /\ UNCHANGED <<runRows, logged, liveRuns, timers, posted, baseline, silent>>
      /\ UNCHANGED viewVars /\ traceUpsets' = traceUpsets
  BY DEF PublishChanges
<1>2. Publicize(FramesFor(r))
  BY DEF PublishChanges, FramesFor, Latest, Altered, Rank
<1> DEFINE sent == {FramesFor(r)[k] : k \in DOMAIN FramesFor(r)}
<1>3. /\ cable' \in [open : BOOLEAN, frames : Seq(Frames)] /\ cable'.open = cable.open
      /\ cable.open => Carried(cable)' = Carried(cable) \cup sent
      /\ ~ cable.open => cable' = cable
  BY <1>2, <1>t, FramesAre, MoreSent
<1>4. /\ \A fr \in sent : fr.run \in TraceRuns /\ fr.entry = Materialized[fr.run]
      /\ \A q \in Altered(r) : \E fr \in sent : fr.run = q
  BY <1>t, FramesAre
<1> HIDE DEF sent
<1>5. RunSide'
  BY <1>1, <1>t DEF RunSide
<1>6. ViewSide' /\ AsksStand'
  BY <1>1, <1>3, <1>t DEF ViewSide, AsksStand, viewVars
<1>7. OthersRest(r)
  BY <1>1, <1>t DEF RunSide, OthersRest
<1>8. /\ places'[r] = "done" /\ runRows'[r] = runRows[r] /\ liveRuns'[r] = liveRuns[r]
      /\ logged'[r] = logged[r] /\ baseline'[r][r] = 0 /\ baseline[r][r] = 0
      /\ posted' = posted /\ silent' = silent
  BY <1>1, <1>t DEF RunSide, TraceInv, RunsStand
<1>9. Phase(places[r], runRows[r], liveRuns[r], logged[r])
  BY DEF TraceInv, RunsStand
<1>10. /\ runRows[r].status \in {"completed", "failed"} /\ liveRuns[r].at < runRows[r].at
       /\ runRows[r] # NoRow
  BY <1>1, <1>9 DEF Phase, NoRow
<1>11. Phase(places'[r], runRows'[r], liveRuns'[r], logged'[r])
  BY <1>1, <1>8, <1>9 DEF Phase, TraceEnds
<1>12. ASSUME NEW q \in TraceRuns, NEW x, Tells(q, x)'
       PROVE  Tells(q, x) \/ x = Now(runRows[q], liveRuns[q], logged[q])
  <2>1. \/ x = listed[q] \/ (\E f \in pageAsks : x = f.found[q])
        \/ (\E fr \in Carried(cable)' : fr.run = q /\ x = fr.entry)
    BY <1>1, <1>12 DEF Tells, viewVars
  <2>2. ASSUME NEW fr \in Carried(cable)', fr.run = q, x = fr.entry
        PROVE  Tells(q, x) \/ x = Now(runRows[q], liveRuns[q], logged[q])
    <3>1. CASE fr \in Carried(cable)
      BY <2>2, <3>1 DEF Tells
    <3>2. CASE fr \in sent
      BY <2>2, <3>2, <1>4, <1>t DEF RunsTyped, RunTypes
    <3> QED
      BY <3>1, <3>2, <1>3 DEF Carried
  <2> QED
    BY <2>1, <2>2 DEF Tells
<1>13. ASSUME NEW q \in TraceRuns PROVE Brings(q)
  BY <1>12 DEF Brings
<1>14. ASSUME NEW q \in TraceRuns PROVE KeepsComing(q)
  <2>2. \A m : OnItsWay(q, m) => OnItsWay(q, m)'
    BY <1>1, <1>3 DEF OnItsWay, viewVars
  <2>3. lens' = lens
    BY <1>1 DEF viewVars
  <2> QED
    BY <2>2, <2>3 DEF KeepsComing
<1>15. LastChange(runRows[r], liveRuns[r])' = LastChange(runRows[r], liveRuns[r])
  BY <1>8 DEF LastChange
<1>16. NoneLater(r)'
  BY <1>13, <1>15, <1>t, NoneLaterStays DEF RunsTyped, RunTypes
<1>17. ASSUME r \notin silent
       PROVE  \E m \in Nat : /\ 1 <= m /\ m <= LastChange(runRows[r], liveRuns[r])'
                             /\ LateOnes(r, m)' /\ Comes(r, m)'
  <2>1. PICK m \in Nat : /\ 1 <= m /\ m <= LastChange(runRows[r], liveRuns[r])
                         /\ LateOnes(r, m) /\ Comes(r, m)
    BY <1>1, <1>10, <1>17 DEF TraceInv, EndTold, Over
  <2>2. \A e \in TraceEntries : Tells(r, e)' /\ e.at >= m =>
          Says(places[r], runRows[r], logged[r], r \in posted, e)
    BY <2>1, <1>1, <1>10, <1>13, LateOnesStay DEF Over
  <2>3. Word(places'[r], runRows'[r]) = Word(places[r], runRows[r])
    BY <1>1, <1>8 DEF Word, TraceEnds
  <2>4. LateOnes(r, m)'
    <3>1. \A e \in TraceEntries : Tells(r, e)' /\ e.at >= m =>
            Says(places'[r], runRows'[r], logged'[r], r \in posted', e)
      BY <1>8, <2>2, <2>3 DEF Says
    <3> QED
      BY <3>1 DEF LateOnes
  <2>5. Materialized[r].at = LastChange(runRows[r], liveRuns[r]) /\ Materialized[r].at >= 1
    <3>1. /\ runRows[r] \in Rows /\ liveRuns[r] \in TraceEntries /\ logged[r] \in Outcomes
          /\ Materialized[r] = Now(runRows[r], liveRuns[r], logged[r])
          /\ LastChange(runRows[r], liveRuns[r]) \in Nat
      BY <1>t DEF RunsTyped, RunTypes
    <3>2. Now(runRows[r], liveRuns[r], logged[r]).at = LastChange(runRows[r], liveRuns[r])
      <4>1. places[r] \in Over
        BY <1>1 DEF Over
      <4> QED
        BY <3>1, <4>1, <1>9, <1>10, NowIsLast
    <3> QED
      BY <2>1, <3>1, <3>2
  <2>6. r \in Altered(r)
    BY <1>8, <2>5 DEF Altered, Differing
  <2>7. OnItsWay(r, m)'
    <3>1. CASE ~ cable.open
      BY <3>1, <1>3 DEF OnItsWay
    <3>2. CASE cable.open
      <4>1. PICK fr \in sent : fr.run = r
        BY <2>6, <1>4
      <4>2. fr \in Carried(cable)' /\ fr.run = r /\ fr.entry.at >= m
        BY <3>2, <4>1, <1>3, <1>4, <2>1, <2>5
      <4>3. \E x \in Carried(cable)' : x.run = r /\ x.entry.at >= m
        BY <4>2
      <4> QED
        BY <4>3 DEF OnItsWay
    <3> QED
      BY <3>1, <3>2
  <2>8. Comes(r, m)'
    BY <2>7 DEF Comes
  <2> QED
    BY <1>15, <2>1, <2>4, <2>8
<1>18. EndTold(r)'
  BY <1>8, <1>17 DEF EndTold
<1> QED
  BY <1>5, <1>6, <1>7, <1>8, <1>11, <1>13, <1>14, <1>16, <1>18, RunStep

\* The server dies.
LEMMA DieTracingStep ==
  ASSUME TraceInv, DieTracing
  PROVE  TraceInv'
<1>t. /\ TraceTypes /\ RunSide /\ ViewSide /\ RunsTyped /\ AsksStand
  BY RunTyped, TypesSplit DEF TraceInv, RunsTyped
<1> DEFINE gone == {f \in pageAsks : f.st # "answered"}
           old(r) == [liveRuns[r] EXCEPT !.status = "none"]
<1>1. /\ places' = [r \in TraceRuns |-> IF places[r] = "none" THEN "none" ELSE "done"]
      /\ runRows' = [r \in TraceRuns |-> IF runRows[r].status = "running" THEN NewRow("failed", r)
                                         ELSE runRows[r]]
      /\ liveRuns' = [r \in TraceRuns |-> old(r)] /\ timers' = {}
      /\ cable' = [open |-> FALSE, frames |-> << >>]
      /\ UNCHANGED <<logged, posted, baseline, silent, listed>>
      /\ pageAsks' = pageAsks \ gone
      /\ unseen' \in BOOLEAN
      /\ lens' = lens \/ lens' = [lens EXCEPT !.more = FALSE]
      /\ traceUpsets < MaxTraceUpsets /\ traceUpsets' = traceUpsets + 1
  BY <1>t DEF DieTracing, LosePages, Upset, NewRow, ViewSide
<1>2. lens' \in Lenses /\ lens'.show = lens.show
  BY <1>1, <1>t DEF Lenses, ViewSide
<1>3. traceUpsets' \in 0 .. MaxTraceUpsets
  BY <1>1, <1>t, NumbersOfTrace DEF ViewSide
<1>c. /\ cable' \in [open : BOOLEAN, frames : Seq(Frames)] /\ ~ cable'.open /\ Carried(cable)' = {}
  BY <1>1 DEF Carried
<1>4. ViewSide'
  BY <1>1, <1>2, <1>3, <1>c, <1>t DEF ViewSide
<1>5. AsksStand'
  BY <1>1, <1>2, <1>t DEF AsksStand
<1>p. ASSUME NEW r \in TraceRuns
      PROVE  /\ Phase(places[r], runRows[r], liveRuns[r], logged[r]) /\ RunTypes(r)
             /\ baseline[r][r] = 0 /\ (places[r] = "none" => r \notin posted)
  BY <1>t DEF TraceInv, RunsStand, RunsTyped
<1>o. ASSUME NEW r \in TraceRuns
      PROVE  /\ old(r) \in TraceEntries /\ old(r).at = liveRuns[r].at
             /\ old(r).model = liveRuns[r].model /\ old(r).status = "none"
             /\ (liveRuns[r] = NoEntry => old(r) = NoEntry)
  BY <1>p DEF RunTypes, TraceEntries, NoEntry
<1> HIDE DEF old
<1>6. ASSUME NEW r \in TraceRuns
      PROVE  /\ places'[r] = (IF places[r] = "none" THEN "none" ELSE "done")
             /\ liveRuns'[r] = old(r) /\ logged'[r] = logged[r] /\ baseline' = baseline
             /\ \/ /\ runRows[r].status = "running" /\ runRows'[r] = NewRow("failed", r)
                   /\ places[r] \in {"running"} \cup TraceEnds
                \/ /\ runRows[r].status # "running" /\ runRows'[r] = runRows[r]
                   /\ places[r] \notin {"running"} \cup TraceEnds
  <2>1. /\ places'[r] = (IF places[r] = "none" THEN "none" ELSE "done")
        /\ liveRuns'[r] = old(r) /\ logged'[r] = logged[r] /\ baseline' = baseline
        /\ runRows[r].status = "running" => runRows'[r] = NewRow("failed", r)
        /\ runRows[r].status # "running" => runRows'[r] = runRows[r]
    BY <1>1
  <2>2. runRows[r].status = "running" <=> places[r] \in {"running"} \cup TraceEnds
    <3>1. Phase(places[r], runRows[r], liveRuns[r], logged[r])
          /\ places[r] \in {"none", "marked", "running", "ended", "done"} \cup TraceEnds
      BY <1>p DEF RunTypes
    <3> QED
      BY <3>1 DEF Phase, NoRow, TraceEnds
  <2> QED
    BY <2>1, <2>2
<1>7. ASSUME NEW r \in TraceRuns, runRows[r].status = "running"
      PROVE  /\ Age(r) \in Nat /\ Age(r) <= MaxAge + 1 /\ liveRuns[r].at <= Age(r)
             /\ NewRow("failed", r) \in Rows /\ NewRow("failed", r).status = "failed"
             /\ NewRow("failed", r).at = Age(r) + 1 /\ NewRow("failed", r) # NoRow
             /\ Age(r) = LastChange(runRows[r], liveRuns[r])
  <2>1. Age(r) \in Nat /\ Age(r) <= MaxAge + 1 /\ liveRuns[r].at <= Age(r)
        /\ Age(r) = LastChange(runRows[r], liveRuns[r])
    BY <1>6, <1>7, Ages, NumbersOfTrace
  <2> QED
    BY <2>1, NewRowTyped
<1>8. RunSide'
  <2>1. \A r \in TraceRuns : places'[r] \in {"none", "done"} /\ runRows'[r] \in Rows
                             /\ liveRuns'[r] \in TraceEntries
    BY <1>6, <1>7, <1>o, <1>p DEF RunTypes
  <2>2. places' \in [TraceRuns -> {"none", "done"}] /\ runRows' \in [TraceRuns -> Rows]
        /\ liveRuns' \in [TraceRuns -> TraceEntries]
    BY <1>1, <2>1
  <2> QED
    BY <1>1, <1>t, <2>2 DEF RunSide, TraceList
<1>9. ASSUME NEW r \in TraceRuns PROVE Phase(places'[r], runRows'[r], liveRuns'[r], logged'[r])
  <2>1. CASE runRows[r].status = "running"
    <3>1. runRows'[r] = NewRow("failed", r) /\ places'[r] = "done"
      BY <1>6, <2>1 DEF TraceEnds
    <3> QED
      BY <3>1, <2>1, <1>6, <1>7, <1>o, <1>p, NumbersOfTrace DEF Phase, RunTypes, TraceEnds
  <2>2. CASE runRows[r].status # "running"
    <3>1. runRows'[r] = runRows[r] /\ places[r] \notin {"running"} \cup TraceEnds
      BY <1>6, <2>2
    <3>2. CASE places[r] \in {"none", "marked"}
      <4>1. runRows[r] = NoRow /\ liveRuns'[r] = NoEntry /\ logged'[r] = "none"
        BY <3>2, <1>6, <1>o, <1>p DEF Phase
      <4> QED
        BY <4>1, <3>1, <3>2, <1>6 DEF Phase, NoEntry, TraceEnds
    <3>3. CASE places[r] \in {"ended", "done"}
      BY <3>1, <3>3, <1>6, <1>o, <1>p DEF Phase, TraceEnds
    <3> QED
      BY <3>1, <3>2, <3>3, <1>p DEF RunTypes
  <2> QED
    BY <2>1, <2>2
<1>10. RunsStand'
  <2>1. \A r \in TraceRuns : /\ baseline'[r][r] = 0 /\ (places'[r] = "none" => r \notin posted')
                             /\ places'[r] \notin {"marked", "ended"}
    BY <1>1, <1>6, <1>p
  <2> QED
    BY <2>1, <1>9 DEF RunsStand
<1>n. \A e \in TraceEntries : e.at \in Nat
  BY NumbersOfTrace DEF TraceEntries
<1>11. ASSUME NEW r \in TraceRuns, NEW e, Tells(r, e)' PROVE Tells(r, e)
  BY <1>1, <1>c, <1>11 DEF Tells
<1>12. ASSUME NEW r \in TraceRuns
       PROVE  /\ LastChange(runRows[r], liveRuns[r])' \in Nat
              /\ LastChange(runRows[r], liveRuns[r]) <= LastChange(runRows[r], liveRuns[r])'
              /\ runRows[r].status = "running" => LastChange(runRows[r], liveRuns[r])' = Age(r) + 1
              /\ runRows[r].status # "running" =>
                   LastChange(runRows[r], liveRuns[r])' = LastChange(runRows[r], liveRuns[r])
  <2>1. CASE runRows[r].status = "running"
    <3>1. /\ runRows'[r].at = Age(r) + 1 /\ liveRuns'[r].at = liveRuns[r].at
          /\ Age(r) \in Nat /\ liveRuns[r].at <= Age(r) /\ liveRuns[r].at \in Nat
          /\ Age(r) = LastChange(runRows[r], liveRuns[r])
      BY <2>1, <1>6, <1>7, <1>o, <1>p DEF RunTypes
    <3>2. LastChange(runRows[r], liveRuns[r])' = Age(r) + 1
      BY <3>1 DEF LastChange
    <3> QED
      BY <2>1, <3>1, <3>2
  <2>2. CASE runRows[r].status # "running"
    BY <2>2, <1>6, <1>o, <1>p DEF LastChange, RunTypes
  <2> QED
    BY <2>1, <2>2
<1>13. ASSUME NEW r \in TraceRuns PROVE NoneLater(r)' /\ EndTold(r)'
  <2>1. Brings(r)
    BY <1>11 DEF Brings
  <2>2. NoneLater(r)'
    BY <2>1, <1>12, NoneLaterStays
  <2>3. ASSUME NEW m \in Nat PROVE Comes(r, m)'
    BY <1>c DEF Comes, OnItsWay
  <2>4. CASE runRows[r].status = "running"
    <3>1. PICK m \in Nat : m = Age(r) + 1
      BY <2>4, <1>7
    <3>2. \A e \in TraceEntries : Tells(r, e)' => ~ (e.at >= m)
      BY <1>11, <1>n, <1>7, <2>4, <3>1 DEF TraceInv, NoneLater
    <3>3. LateOnes(r, m)'
      BY <3>2 DEF LateOnes
    <3>4. 1 <= m /\ m <= LastChange(runRows[r], liveRuns[r])'
      BY <2>4, <3>1, <1>7, <1>12
    <3> QED
      BY <2>2, <2>3, <3>3, <3>4 DEF EndTold
  <2>5. CASE runRows[r].status # "running"
    <3>r. runRows'[r] = runRows[r] /\ places[r] \notin {"running"} \cup TraceEnds
      BY <1>6, <2>5
    <3>1. CASE places[r] \in {"none", "marked"}
      <4>1. runRows'[r] = NoRow
        BY <3>1, <3>r, <1>p DEF Phase
      <4> QED
        BY <4>1, <2>2 DEF EndTold
    <3>2. CASE places[r] \in {"ended", "done"}
      <4>1. ASSUME runRows[r] # NoRow, r \notin silent
            PROVE  \E m \in Nat : /\ 1 <= m /\ m <= LastChange(runRows[r], liveRuns[r])'
                                  /\ LateOnes(r, m)' /\ Comes(r, m)'
        <5>1. PICK m \in Nat : /\ 1 <= m /\ m <= LastChange(runRows[r], liveRuns[r])
                               /\ LateOnes(r, m)
          BY <3>2, <4>1 DEF TraceInv, EndTold, Over
        <5>2. Word(places'[r], runRows'[r]) = Word(places[r], runRows[r])
          BY <3>2, <3>r, <1>6 DEF Word, TraceEnds
        <5>3. \A e \in TraceEntries : Tells(r, e) /\ e.at >= m =>
                Says(places'[r], runRows'[r], logged'[r], r \in posted', e)
          BY <5>1, <5>2, <1>1, <1>6 DEF LateOnes, Says
        <5>4. LateOnes(r, m)'
          BY <5>3, <1>11 DEF LateOnes
        <5> QED
          BY <5>1, <5>4, <2>3, <2>5, <1>12
      <4> QED
        BY <2>2, <3>r, <4>1, <1>1 DEF EndTold
    <3> QED
      BY <3>1, <3>2, <3>r, <1>p DEF RunTypes
  <2> QED
    BY <2>4, <2>5
<1>14. TraceTypes'
  BY <1>4, <1>8, TypesSplitNext
<1> QED
  BY <1>5, <1>10, <1>13, <1>14 DEF TraceInv

-----------------------------------------------------------------------------
(* Any step, and the promise *)

LEMMA TraceStarts == TraceInit => TraceInv
<1> SUFFICES ASSUME TraceInit PROVE TraceInv
  OBVIOUS
<1> DEFINE past == [status |-> "completed", at |-> 2]
<1>1. \A r \in TraceRuns :
        /\ places[r] = (IF r \in Earlier THEN "done" ELSE "none")
        /\ runRows[r] = (IF r \in Earlier THEN past ELSE NoRow)
        /\ liveRuns[r] = NoEntry /\ listed[r] = NoEntry /\ logged[r] = "none" /\ baseline[r][r] = 0
  BY DEF TraceInit, Unlisted
<1>2. past \in Rows /\ past.status = "completed" /\ past.at = 2
  BY NumbersOfTrace DEF Rows
<1> HIDE DEF past
<1>f. /\ FirstOf("all") \in Answers /\ AsksNewest(FirstOf("all")) /\ FirstOf("all").show = "all"
      /\ FirstOf("all").st = "asked" /\ FirstOf("all").found = Unlisted
  BY FirstIs
<1>3. RunSide
  <2>1. runRows \in [TraceRuns -> Rows]
    BY <1>2, NoEntryTyped DEF TraceInit, past
  <2>2. Unlisted \in TraceList /\ 0 \in Times
    BY NoEntryTyped, NumbersOfTrace DEF Unlisted, TraceList, Times
  <2> QED
    BY <2>1, <2>2 DEF TraceInit, RunSide, Outcomes
<1>4. ViewSide
  <2>1. Unlisted \in TraceList /\ 0 \in 0 .. Cardinality(TraceRuns) /\ 0 \in 0 .. MaxTraceUpsets
    BY NoEntryTyped, RunsAreNumbers, NumbersOfTrace DEF Unlisted, TraceList
  <2>2. [show |-> "all", cursor |-> 0, more |-> FALSE] \in Lenses
    BY <2>1 DEF Lenses
  <2>3. [open |-> FALSE, frames |-> << >>] \in [open : BOOLEAN, frames : Seq(Frames)]
    OBVIOUS
  <2>4. {FirstOf("all")} \subseteq Answers
    BY <1>f
  <2> QED
    BY <2>1, <2>2, <2>3, <2>4 DEF TraceInit, ViewSide
<1>5. AsksStand
  BY <1>f DEF TraceInit, AsksStand
<1>6. RunsStand
  <2>1. ASSUME NEW r \in TraceRuns PROVE Phase(places[r], runRows[r], liveRuns[r], logged[r])
    BY <1>1, <1>2, NumbersOfTrace DEF Phase, TraceEnds, NoEntry
  <2> QED
    BY <1>1, <2>1 DEF RunsStand, TraceInit
<1>7. ASSUME NEW r \in TraceRuns PROVE NoneLater(r) /\ EndTold(r)
  <2>1. \A e : Tells(r, e) => e = NoEntry
    <3>1. Carried(cable) = {} /\ pageAsks = {FirstOf("all")} /\ Unlisted[r] = NoEntry
      BY DEF TraceInit, Carried, Unlisted
    <3> QED
      BY <1>1, <1>f, <3>1 DEF Tells
  <2>2. NoEntry.at = 0
    BY DEF NoEntry
  <2>3. RunTypes(r)
    BY <1>3, <1>4, TypesSplit, RunTyped
  <2>4. NoneLater(r)
    BY <2>1, <2>2, <2>3 DEF NoneLater, RunTypes
  <2>5. EndTold(r)
    <3>1. SUFFICES ASSUME places[r] \in Over, runRows[r] # NoRow
                   PROVE  \E m \in Nat : /\ 1 <= m /\ m <= LastChange(runRows[r], liveRuns[r])
                                         /\ LateOnes(r, m) /\ Comes(r, m)
      BY DEF EndTold
    <3>2. LastChange(runRows[r], liveRuns[r]) = 2
      BY <1>1, <1>2, <2>2, <3>1 DEF LastChange
    <3>3. LateOnes(r, 2)
      BY <2>1, <2>2 DEF LateOnes
    <3>4. ~ cable.open
      BY DEF TraceInit
    <3>5. Comes(r, 2)
      BY <3>4 DEF Comes, OnItsWay
    <3> QED
      BY <3>2, <3>3, <3>5
  <2> QED
    BY <2>4, <2>5
<1> QED
  BY <1>3, <1>4, <1>5, <1>6, <1>7, TypesSplit DEF TraceInv

LEMMA StepOfTrace ==
  ASSUME TraceInv, [TraceNext]_traceVars
  PROVE  TraceInv'
<1>1. ASSUME NEW r \in TraceRuns, Checkpoint(r) PROVE TraceInv'
  BY <1>1, CheckpointStep
<1>2. ASSUME NEW r \in TraceRuns, StartRun(r) PROVE TraceInv'
  BY <1>2, StartRunStep
<1>3. ASSUME NEW r \in TraceRuns, ReportProgress(r) PROVE TraceInv'
  <2>1. PICK s \in {"running", "failed"} : Emit(r, s, "running") /\ Age(r) < MaxAge
    BY <1>3 DEF ReportProgress
  <2> QED
    BY <2>1, EmitStep
<1>4. ASSUME NEW r \in TraceRuns, ReportEnd(r) PROVE TraceInv'
  <2>1. PICK s \in TraceEnds : Emit(r, s, s)
    BY <1>4 DEF ReportEnd
  <2> QED
    BY <2>1, EmitStep
<1>5. ASSUME NEW r \in TraceRuns, EndRun(r) PROVE TraceInv'
  BY <1>5, EndRunStep
<1>6. ASSUME NEW r \in TraceRuns, PublishChanges(r) PROVE TraceInv'
  BY <1>6, PublishChangesStep
<1>7. ASSUME NEW r \in TraceRuns, DropLive(r) PROVE TraceInv'
  BY <1>7, DropLiveStep
<1>8. CASE ClearLogs
  BY <1>8, ClearLogsStep
<1>9. CASE DieTracing
  BY <1>9, DieTracingStep
<1>10. ASSUME NEW f \in pageAsks, AnswerPage(f) \/ TakePage(f) \/ FailPage(f) PROVE TraceInv'
  BY <1>10, AnswerPageStep, TakePageStep, FailPageStep
<1>11. CASE ConnectTrace \/ CutTrace
  BY <1>11, CableSteps
<1>12. CASE HearTrace
  BY <1>12, HearTraceStep
<1>13. CASE ChangeFilter
  BY <1>13, ChangeFilterStep
<1>14. CASE LoadMore
  BY <1>14, LoadMoreStep
<1>15. CASE UNCHANGED traceVars
  <2>1. UNCHANGED runVars /\ UNCHANGED viewVars /\ cable' = cable /\ traceUpsets' = traceUpsets
    BY <1>15 DEF traceVars
  <2>2. ViewSide' /\ AsksStand'
    <3>1. traceUpsets' \in 0 .. MaxTraceUpsets
      BY <2>1, TypesSplit DEF TraceInv, ViewSide
    <3> QED
      BY <2>1, <3>1, ViewSideKept
  <2>3. \A r \in TraceRuns : Brings(r) /\ KeepsComing(r)
    BY <2>1, ViewKept
  <2> QED
    BY <2>1, <2>2, <2>3, ViewStep
<1> QED
  BY <1>1, <1>2, <1>3, <1>4, <1>5, <1>6, <1>7, <1>8, <1>9, <1>10, <1>11, <1>12, <1>13, <1>14, <1>15
     DEF TraceNext

\* When all is quiet, what was on its way has come.
LEMMA TraceHolds == TraceInv => TraceTypes /\ PanelTellsTheEnd
<1> SUFFICES ASSUME TraceInv PROVE PanelTellsTheEnd
  BY DEF TraceInv
<1> SUFFICES ASSUME AllQuiet, ~unseen, lens.show = "all", NEW r \in FirstPage \ silent
             PROVE  /\ listed[r].status = TraceStatus(runRows[r].status)
                    /\ r \in posted /\ logged[r] # "none" => listed[r].model = logged[r]
  BY DEF PanelTellsTheEnd
<1>1. r \in TraceRuns /\ runRows[r] # NoRow /\ r \notin silent
  BY DEF FirstPage
<1>2. places[r] = "done"
  BY <1>1 DEF AllQuiet, TraceInv, RunsStand, Phase
<1>3. PICK m \in Nat : LateOnes(r, m) /\ Comes(r, m) /\ 1 <= m
  BY <1>1, <1>2 DEF TraceInv, EndTold, Over
<1>4. OnItsWay(r, m)
  BY <1>2, <1>3 DEF Comes
<1>5. Carried(cable) = {} /\ cable.open /\ pageAsks = {}
  BY DEF AllQuiet, Carried
<1>6. listed[r].at >= m
  BY <1>4, <1>5 DEF OnItsWay
<1>7. Tells(r, listed[r]) /\ listed[r] \in TraceEntries
  BY <1>1, RunTyped DEF Tells, TraceInv, RunTypes
<1>8. Says(places[r], runRows[r], logged[r], r \in posted, listed[r])
  BY <1>3, <1>6, <1>7 DEF LateOnes
<1>9. Word(places[r], runRows[r]) = TraceStatus(runRows[r].status)
  BY <1>2 DEF Word, TraceEnds
<1> QED
  BY <1>8, <1>9 DEF Says

-----------------------------------------------------------------------------
(* The settings of worlds *)

(* What the pages and the saves hold *)

FileType  == [rev : Nat, has : Contents]
ShownType == [of : Places, rev : Nat, has : Contents, model : Values]

PageType ==
  [at : Places, load : {"asked", "answered", "done"}, shows : {Nothing} \cup ShownType,
   answer : {Nothing} \cup ShownType, open : BOOLEAN]

PatchType == UNION {[F -> Int] : F \in SUBSET Fields}

WorkType ==
  [phase : {"sent", "writing"}, to : Places, patch : PatchType, model : Values,
   expected : Nat, base : Contents, read : FileType, astray : BOOLEAN]
BriefType == [phase : {"refused", "failed"}, to : Places]
ToldType  == [phase : {"reread", "answered"}, to : Places, answer : ShownType]
SaveType  == {NoSave} \cup WorkType \cup BriefType \cup ToldType

\* A page shows what it has been answered.
PageInOrder(g) ==
  /\ g.load = "answered" => g.answer # Nothing
  /\ g.load = "done" => g.shows # Nothing
  /\ g.open => g.load = "done"

StoreTypes ==
  /\ file \in [Places -> FileType]
  /\ assigned \in [Places -> Values]
  /\ edits \in 0 .. MaxEdits
  /\ lost \subseteq Places
  /\ mixed \subseteq Places

PageTypes ==
  /\ pages \in [Pages -> PageType]
  /\ \A p \in Pages : PageInOrder(pages[p])

SaveTypes ==
  /\ saves \in [Authors -> SaveType]
  /\ \A a \in Authors : saves[a].phase \in {"refused", "reread"} => a \in Pages

(* What is known of a world by its revision, of the worlds F that are not in M *)

\* Shown settings are not newer than the file, and those of its revision are its
\* own: a revision names one content.
Shows(s, F, M) ==
  s.of \notin M => /\ s.rev <= F[s.of].rev
                   /\ s.rev = F[s.of].rev => s.has = F[s.of].has

KnownPage(g, F, M) ==
  /\ g.shows # Nothing => Shows(g.shows, F, M)
  /\ g.answer # Nothing => Shows(g.answer, F, M)

\* So it is with what a save was made on, and it goes on with that revision.
KnownSave(s, F, M) ==
  /\ s.phase \in {"sent", "writing"} /\ ~s.astray /\ s.to \notin M =>
       /\ s.expected <= F[s.to].rev
       /\ s.expected = F[s.to].rev => s.base = F[s.to].has
  /\ s.phase = "writing" => s.read.rev = s.expected
  /\ s.phase \in {"reread", "answered"} => Shows(s.answer, F, M)

PagesKnown == \A p \in Pages : KnownPage(pages[p], file, mixed)
SavesKnown == \A a \in Authors : KnownSave(saves[a], file, mixed)

\* The inductive invariant
SettingsInv ==
  StoreTypes /\ PageTypes /\ SaveTypes /\ PagesKnown /\ SavesKnown /\ SeenBeforeReplaced

-----------------------------------------------------------------------------
LEMMA ValueFacts == 0 \in Values /\ (\A v : Normal(v) \in Values)
BY SettingsAssumption DEF Values, Normal

LEMMA MergedType == ASSUME NEW c, NEW d PROVE Merged(c, d) \in Contents
BY ValueFacts DEF Merged, Contents

LEMMA FreshType == Fresh \in FileType /\ Fresh.has \in Contents
BY ValueFacts DEF Fresh, FileType, Contents

LEMMA ShownIsSomething == ASSUME NEW s \in ShownType PROVE s # Nothing
<1>1. "rev" \in DOMAIN s
  BY DEF ShownType
<1>2. "rev" \notin DOMAIN Nothing
  BY DEF Nothing
<1> QED
  BY <1>1, <1>2

LEMMA SnapshotType ==
  ASSUME StoreTypes, NEW w \in Places
  PROVE  /\ Snapshot(w) \in ShownType
         /\ Snapshot(w) # Nothing
         /\ \A M : Shows(Snapshot(w), file, M)
<1>1. Snapshot(w) \in ShownType
  BY DEF Snapshot, ShownType, StoreTypes, FileType
<1>2. \A M : Shows(Snapshot(w), file, M)
  BY DEF Snapshot, Shows, StoreTypes, FileType
<1> QED
  BY <1>1, <1>2, ShownIsSomething

\* A save is in one of four forms, told by its phase.
LEMMA SaveForms ==
  ASSUME NEW s \in SaveType
  PROVE  /\ s.phase \in {"none", "sent", "writing", "refused", "reread", "answered", "failed"}
         /\ s.phase \in {"sent", "writing"} => s \in WorkType
         /\ s.phase \in {"reread", "answered"} => s \in ToldType
         /\ s.phase \in {"refused", "failed"} => s \in BriefType
         /\ s.phase = "none" => s = NoSave
BY DEF SaveType, NoSave, WorkType, BriefType, ToldType

LEMMA WrittenType ==
  ASSUME NEW s \in WorkType
  PROVE  Written(s) \in FileType /\ Written(s).rev = s.read.rev + 1
BY MergedType DEF Written, WorkType, FileType

\* What is known stays known when files get newer or their world is mixed.
LEMMA KnownStays ==
  ASSUME NEW F \in [Places -> FileType], NEW H \in [Places -> FileType],
         NEW M, NEW N, M \subseteq N,
         \A w \in Places : H[w] = F[w] \/ w \in N \/ H[w].rev > F[w].rev
  PROVE  /\ \A s \in ShownType : Shows(s, F, M) => Shows(s, H, N)
         /\ \A g \in PageType : KnownPage(g, F, M) => KnownPage(g, H, N)
         /\ \A s \in SaveType : KnownSave(s, F, M) => KnownSave(s, H, N)
<1>0. \A w \in Places : F[w].rev \in Nat /\ H[w].rev \in Nat
  BY DEF FileType
<1>1. ASSUME NEW s \in ShownType, Shows(s, F, M) PROVE Shows(s, H, N)
  <2>1. s.of \in Places /\ s.rev \in Nat
    BY DEF ShownType
  <2> QED
    BY <1>0, <1>1, <2>1 DEF Shows
<1>2. ASSUME NEW g \in PageType, KnownPage(g, F, M) PROVE KnownPage(g, H, N)
  <2>1. g.shows \in {Nothing} \cup ShownType /\ g.answer \in {Nothing} \cup ShownType
    BY DEF PageType
  <2> QED
    BY <1>1, <1>2, <2>1 DEF KnownPage
<1>3. ASSUME NEW s \in SaveType, KnownSave(s, F, M) PROVE KnownSave(s, H, N)
  <2>1. CASE s.phase \in {"sent", "writing"}
    <3>1. s.to \in Places /\ s.expected \in Nat
      BY <2>1, SaveForms DEF WorkType
    <3> QED
      BY <1>0, <1>3, <2>1, <3>1 DEF KnownSave
  <2>2. CASE s.phase \in {"reread", "answered"}
    <3>1. s.answer \in ShownType
      BY <2>2, SaveForms DEF ToldType
    <3> QED
      BY <1>1, <1>3, <2>2, <3>1 DEF KnownSave
  <2>3. CASE s.phase \notin {"sent", "writing", "reread", "answered"}
    BY <2>3 DEF KnownSave
  <2> QED
    BY <2>1, <2>2, <2>3
<1> QED
  BY <1>1, <1>2, <1>3

LEMMA InitSettings == SettingsInit => SettingsInv
<1> SUFFICES ASSUME SettingsInit PROVE SettingsInv
  OBVIOUS
<1>1. StoreTypes
  BY FreshType, ValueFacts, SettingsAssumption DEF SettingsInit, StoreTypes
<1>2. PageTypes
  <2> DEFINE First(w) == [at |-> w, load |-> "asked", shows |-> Nothing, answer |-> Nothing,
                          open |-> FALSE]
  <2>1. pages \in [Pages -> {First(w) : w \in Places}]
    BY DEF SettingsInit
  <2>2. \A w \in Places : First(w) \in PageType /\ PageInOrder(First(w))
    BY DEF PageType, PageInOrder
  <2> HIDE DEF First
  <2> QED
    BY <2>1, <2>2 DEF PageTypes
<1>3. SaveTypes
  BY DEF SettingsInit, SaveTypes, SaveType, NoSave
<1>4. PagesKnown
  <2>1. \A p \in Pages : pages[p].shows = Nothing /\ pages[p].answer = Nothing
    BY DEF SettingsInit
  <2> QED
    BY <2>1 DEF PagesKnown, KnownPage
<1>5. SavesKnown
  BY DEF SettingsInit, SavesKnown, KnownSave, NoSave
<1>6. SeenBeforeReplaced
  BY DEF SettingsInit, SeenBeforeReplaced
<1> QED
  BY <1>1, <1>2, <1>3, <1>4, <1>5, <1>6 DEF SettingsInv

\* A save that is renamed over the file makes it newer, or mixes its world; it
\* overwrites nothing unseen unless the world is mixed.
LEMMA Landing ==
  ASSUME SettingsInv, NEW a \in Authors, saves[a].phase = "writing", Land(saves[a])
  PROVE  /\ file' \in [Places -> FileType] /\ lost' \subseteq Places /\ mixed' \subseteq Places
         /\ mixed \subseteq mixed'
         /\ \A w \in Places : file'[w] = file[w] \/ w \in mixed' \/ file'[w].rev > file[w].rev
         /\ file'[saves[a].to] = Written(saves[a])
         /\ SeenBeforeReplaced'
<1> DEFINE s == saves[a]
<1>1. s \in WorkType /\ s.to \in Places /\ s.base \in Contents /\ s.read \in FileType
  BY SaveForms DEF SettingsInv, SaveTypes, WorkType
<1>2. Written(s) \in FileType /\ Written(s).rev = s.read.rev + 1
  BY <1>1, WrittenType
<1>3. file' = [file EXCEPT ![s.to] = Written(s)] /\ file \in [Places -> FileType]
  BY DEF Land, SettingsInv, StoreTypes
<1>4. /\ lost' = IF Overwrites(s) THEN lost \union {s.to} ELSE lost
      /\ mixed' = IF s.astray \/ file[s.to] # s.read THEN mixed \union {s.to} ELSE mixed
  BY DEF Land
<1>5. lost \subseteq Places /\ mixed \subseteq Places /\ lost \subseteq mixed
  BY DEF SettingsInv, StoreTypes, SeenBeforeReplaced
<1>6. mixed \subseteq mixed' /\ mixed' \subseteq Places /\ lost' \subseteq Places
  BY <1>1, <1>4, <1>5
<1>7. s.to \notin mixed' => ~s.astray /\ s.read = file[s.to] /\ s.to \notin mixed
  BY <1>4
<1>8. s.to \notin mixed' => s.base = file[s.to].has
  BY <1>7 DEF SettingsInv, SavesKnown, KnownSave
<1>9. Overwrites(s) => s.to \in mixed'
  BY <1>8 DEF Overwrites
<1>10. \A w \in Places : file'[w] = file[w] \/ w \in mixed' \/ file'[w].rev > file[w].rev
  <2> SUFFICES ASSUME NEW w \in Places, w = s.to, w \notin mixed'
               PROVE  file'[w].rev > file[w].rev
    BY <1>3
  <2>1. file'[w].rev = file[w].rev + 1 /\ file[w].rev \in Nat
    BY <1>2, <1>3, <1>7 DEF FileType
  <2> QED
    BY <2>1
<1>11. lost' \subseteq mixed'
  BY <1>4, <1>5, <1>6, <1>9
<1>12. file' \in [Places -> FileType] /\ file'[s.to] = Written(s)
  BY <1>1, <1>2, <1>3
<1> QED
  BY <1>6, <1>10, <1>11, <1>12 DEF SeenBeforeReplaced

-----------------------------------------------------------------------------
(* The steps of a page.  The files and what is known of them stay. *)

StoreStays == UNCHANGED <<file, assigned, lost, mixed>>

\* A step that changes a page in an orderly way, and no save.
LEMMA PageStays ==
  ASSUME SettingsInv, StoreStays, UNCHANGED <<saves, edits>>, NEW p \in Pages, NEW g,
         pages' = [pages EXCEPT ![p] = g], g \in PageType, PageInOrder(g),
         KnownPage(g, file, mixed)
  PROVE  SettingsInv'
<1>1. StoreTypes' /\ SaveTypes' /\ SavesKnown' /\ SeenBeforeReplaced'
  BY DEF SettingsInv, StoreStays, StoreTypes, SaveTypes, SavesKnown, SeenBeforeReplaced
<1>2. PageTypes' /\ PagesKnown'
  BY DEF SettingsInv, StoreStays, PageTypes, PagesKnown
<1> QED
  BY <1>1, <1>2 DEF SettingsInv

\* A step that changes a save in an orderly way, and no page.
LEMMA SaveStays ==
  ASSUME SettingsInv, StoreStays, UNCHANGED pages, edits' \in 0 .. MaxEdits,
         NEW a \in Authors, NEW s,
         saves' = [saves EXCEPT ![a] = s], s \in SaveType,
         s.phase \in {"refused", "reread"} => a \in Pages,
         KnownSave(s, file, mixed)
  PROVE  SettingsInv'
<1>1. StoreTypes' /\ PageTypes' /\ PagesKnown' /\ SeenBeforeReplaced'
  BY DEF SettingsInv, StoreStays, StoreTypes, PageTypes, PagesKnown, SeenBeforeReplaced
<1>2. SaveTypes' /\ SavesKnown'
  BY DEF SettingsInv, StoreStays, SaveTypes, SavesKnown
<1> QED
  BY <1>1, <1>2 DEF SettingsInv

LEMMA NoSaveKnown == NoSave \in SaveType /\ (\A F, M : KnownSave(NoSave, F, M)) /\ NoSave.phase = "none"
BY DEF NoSave, SaveType, KnownSave

\* What a page shows once it is done is the settings of some world.
LEMMA OpenShows ==
  ASSUME SettingsInv, NEW p \in Pages, pages[p].open
  PROVE  /\ pages[p].shows \in ShownType
         /\ Shows(pages[p].shows, file, mixed)
         /\ pages[p].at \in Places
<1>1. pages[p] \in PageType /\ PageInOrder(pages[p]) /\ KnownPage(pages[p], file, mixed)
  BY DEF SettingsInv, PageTypes, PagesKnown
<1> QED
  BY <1>1 DEF PageType, PageInOrder, KnownPage

LEMMA PagesKeep ==
  ASSUME SettingsInv, NEW p \in Pages, PageStep(p)
  PROVE  SettingsInv'
<1>0. /\ pages[p] \in PageType /\ PageInOrder(pages[p]) /\ KnownPage(pages[p], file, mixed)
      /\ saves[p] \in SaveType /\ KnownSave(saves[p], file, mixed) /\ p \in Authors
      /\ edits \in 0 .. MaxEdits /\ pages[p].at \in Places /\ StoreTypes
  BY DEF SettingsInv, PageTypes, PagesKnown, SaveTypes, SavesKnown, StoreTypes, Authors, PageType
<1>1. ASSUME NEW w \in Places, GoTo(p, w) PROVE SettingsInv'
  <2> DEFINE g == [at |-> w, load |-> "asked", shows |-> Nothing, answer |-> Nothing,
                   open |-> FALSE]
  <2>1. g \in PageType /\ PageInOrder(g) /\ KnownPage(g, file, mixed)
    BY DEF PageType, PageInOrder, KnownPage
  <2> QED
    BY <1>1, <2>1, PageStays DEF GoTo, StoreStays
<1>2. ASSUME AnswerLoad(p) PROVE SettingsInv'
  <2> DEFINE g == [pages[p] EXCEPT !.load = "answered", !.answer = Snapshot(pages[p].at)]
  <2>1. g \in PageType /\ PageInOrder(g) /\ KnownPage(g, file, mixed)
    BY <1>0, <1>2, SnapshotType DEF AnswerLoad, PageType, PageInOrder, KnownPage
  <2>2. pages' = [pages EXCEPT ![p] = g]
    BY <1>0, <1>2 DEF AnswerLoad
  <2> QED
    BY <1>2, <2>1, <2>2, PageStays DEF AnswerLoad, StoreStays
<1>3. ASSUME TakeLoad(p) PROVE SettingsInv'
  <2> DEFINE g == [pages[p] EXCEPT !.load = "done", !.shows = pages[p].answer,
                                   !.answer = Nothing]
  <2>1. g \in PageType /\ PageInOrder(g) /\ KnownPage(g, file, mixed)
    BY <1>0, <1>3 DEF TakeLoad, PageType, PageInOrder, KnownPage
  <2> QED
    BY <1>3, <2>1, PageStays DEF TakeLoad, StoreStays
<1>4. ASSUME OpenDialog(p) PROVE SettingsInv'
  <2> DEFINE g == [pages[p] EXCEPT !.open = TRUE]
  <2>1. g \in PageType /\ PageInOrder(g) /\ KnownPage(g, file, mixed)
    BY <1>0, <1>4 DEF OpenDialog, PageType, PageInOrder, KnownPage
  <2> QED
    BY <1>4, <2>1, PageStays DEF OpenDialog, StoreStays
<1>5. ASSUME CloseDialog(p) PROVE SettingsInv'
  <2> DEFINE g == [pages[p] EXCEPT !.open = FALSE]
  <2>1. g \in PageType /\ PageInOrder(g) /\ KnownPage(g, file, mixed)
    BY <1>0, <1>5 DEF PageType, PageInOrder, KnownPage
  <2> QED
    BY <1>5, <2>1, PageStays DEF CloseDialog, StoreStays
<1>6. ASSUME NEW F \in SUBSET Fields, NEW m \in {0, pages[p].shows.model, edits + 1},
             Save(p, F, m)
      PROVE  SettingsInv'
  <2>1. /\ pages[p].shows \in ShownType /\ Shows(pages[p].shows, file, mixed)
        /\ edits < MaxEdits /\ edits' = edits + 1 /\ edits + 1 \in 0 .. MaxEdits
    BY <1>0, <1>6, OpenShows, SettingsAssumption DEF Save
  <2> DEFINE g == pages[p].shows
             d == [f \in Fields |-> IF f \in F THEN edits + 1 ELSE g.has[f]]
             s == [phase |-> "sent", to |-> pages[p].at, patch |-> d, model |-> m,
                   expected |-> g.rev, base |-> g.has, read |-> Fresh,
                   astray |-> g.of # pages[p].at]
  <2>2. g.has \in Contents /\ g.rev \in Nat /\ g.model \in Values
    BY <2>1 DEF ShownType
  <2>3. d \in PatchType
    <3>1. d \in [Fields -> Int]
      BY <1>0, <2>2 DEF Contents, Values
    <3> QED
      BY <3>1 DEF PatchType
  <2>4. m \in Values
    BY <2>1, <2>2, ValueFacts DEF Values
  <2> HIDE DEF d
  <2>5. s \in WorkType
    BY <1>0, <2>2, <2>3, <2>4, FreshType DEF WorkType
  <2>6. KnownSave(s, file, mixed)
    BY <2>1 DEF KnownSave, Shows
  <2>7. s \in SaveType /\ s.phase = "sent"
    BY <2>5 DEF SaveType
  <2>8. saves' = [saves EXCEPT ![p] = s]
    BY <1>6 DEF Save, d
  <2>9. StoreStays /\ UNCHANGED pages /\ edits' \in 0 .. MaxEdits
    BY <1>6, <2>1 DEF Save, StoreStays
  <2> HIDE DEF s
  <2> QED
    BY <1>0, <2>6, <2>7, <2>8, <2>9, SaveStays
<1>7. ASSUME AnswerAgain(p) PROVE SettingsInv'
  <2> DEFINE s == [phase |-> "reread", to |-> saves[p].to, answer |-> Snapshot(saves[p].to)]
  <2>1. saves[p].to \in Places
    BY <1>0, <1>7, SaveForms DEF AnswerAgain, BriefType
  <2>2. s \in ToldType /\ KnownSave(s, file, mixed)
    BY <1>0, <2>1, SnapshotType DEF ToldType, KnownSave
  <2>3. s \in SaveType /\ s.phase = "reread"
    BY <2>2 DEF SaveType
  <2> QED
    BY <1>0, <1>7, <2>2, <2>3, SaveStays DEF AnswerAgain, StoreStays
<1>8. ASSUME FailAgain(p) PROVE SettingsInv'
  <2> DEFINE s == [phase |-> "failed", to |-> saves[p].to]
  <2>1. s \in SaveType /\ s.phase = "failed" /\ KnownSave(s, file, mixed)
    BY <1>0, <1>8, SaveForms DEF FailAgain, BriefType, SaveType, KnownSave
  <2> QED
    BY <1>0, <1>8, <2>1, SaveStays DEF FailAgain, StoreStays
<1>9. ASSUME TakeSaved(p) \/ TakeReread(p) PROVE SettingsInv'
  <2>1. saves[p] \in ToldType /\ saves[p].answer \in ShownType
    BY <1>0, <1>9, SaveForms DEF TakeSaved, TakeReread, ToldType
  <2>2. Shows(saves[p].answer, file, mixed) /\ saves[p].answer # Nothing
    BY <1>0, <1>9, <2>1, ShownIsSomething DEF TakeSaved, TakeReread, KnownSave
  <2>3. PICK b \in BOOLEAN :
          /\ pages' = [pages EXCEPT ![p].shows = saves[p].answer, ![p].open = b]
          /\ b => pages[p].open
    BY <1>0, <1>9 DEF TakeSaved, TakeReread, PageType, SettingsInv, PageTypes
  <2> DEFINE g == [pages[p] EXCEPT !.shows = saves[p].answer, !.open = b]
  <2>4. g \in PageType /\ PageInOrder(g) /\ KnownPage(g, file, mixed)
    BY <1>0, <2>1, <2>2, <2>3 DEF PageType, PageInOrder, KnownPage
  <2>5. pages' = [pages EXCEPT ![p] = g]
    BY <2>3
  <2>6. saves' = [saves EXCEPT ![p] = NoSave] /\ StoreStays /\ UNCHANGED edits
    BY <1>9 DEF TakeSaved, TakeReread, StoreStays
  <2> HIDE DEF g
  <2>7. StoreTypes' /\ SeenBeforeReplaced'
    BY <2>6 DEF SettingsInv, StoreStays, StoreTypes, SeenBeforeReplaced
  <2>8. PageTypes' /\ PagesKnown'
    BY <2>4, <2>5, <2>6 DEF SettingsInv, StoreStays, PageTypes, PagesKnown
  <2>9. SaveTypes' /\ SavesKnown'
    BY <1>0, <2>6, NoSaveKnown DEF SettingsInv, StoreStays, SaveTypes, SavesKnown
  <2> QED
    BY <2>7, <2>8, <2>9 DEF SettingsInv
<1>10. ASSUME TakeFailure(p) PROVE SettingsInv'
  BY <1>0, <1>10, NoSaveKnown, SaveStays DEF TakeFailure, StoreStays
<1> QED
  BY <1>1, <1>2, <1>3, <1>4, <1>5, <1>6, <1>7, <1>8, <1>9, <1>10 DEF PageStep

-----------------------------------------------------------------------------
(* The steps of an administrator's action and of the server *)

LEMMA ClerksKeep ==
  ASSUME SettingsInv, NEW a \in Clerks, ClerkStep(a)
  PROVE  SettingsInv'
<1>0. /\ a \in Authors /\ edits \in 0 .. MaxEdits /\ StoreTypes
      /\ saves[a] \in SaveType
  BY DEF SettingsInv, StoreTypes, SaveTypes, Authors
<1>1. ASSUME NEW w \in Places, NEW f \in Fields, StartClerk(a, w, f) PROVE SettingsInv'
  <2>1. PICK v \in {Odd, edits + 1} :
          saves' = [saves EXCEPT ![a] =
            [phase |-> "sent", to |-> w, patch |-> [g \in {f} |-> v], model |-> 0,
             expected |-> file[w].rev, base |-> file[w].has, read |-> Fresh,
             astray |-> FALSE]]
    BY <1>1 DEF StartClerk
  <2> DEFINE d == [g \in {f} |-> v]
             s == [phase |-> "sent", to |-> w, patch |-> d, model |-> 0,
                   expected |-> file[w].rev, base |-> file[w].has, read |-> Fresh,
                   astray |-> FALSE]
  <2>2. v \in Int
    BY <1>0 DEF Odd
  <2>3. d \in [{f} -> Int] /\ {f} \in SUBSET Fields
    BY <2>2
  <2>4. d \in PatchType
    BY <2>3 DEF PatchType
  <2>5. file[w] \in FileType
    BY <1>0 DEF StoreTypes
  <2> HIDE DEF d
  <2>6. s \in WorkType
    BY <2>4, <2>5, FreshType, ValueFacts DEF WorkType, FileType
  <2>7. s \in SaveType /\ s.phase = "sent" /\ KnownSave(s, file, mixed)
    BY <2>5, <2>6 DEF SaveType, KnownSave, FileType
  <2>8. StoreStays /\ UNCHANGED pages /\ edits' \in 0 .. MaxEdits
    BY <1>0, <1>1, SettingsAssumption DEF StartClerk, StoreStays
  <2>9. saves' = [saves EXCEPT ![a] = s]
    BY <2>1 DEF d
  <2> HIDE DEF s
  <2> QED
    BY <1>0, <2>7, <2>8, <2>9, SaveStays
<1>2. ASSUME NEW w \in Places, AssignModel(a, w) PROVE SettingsInv'
  <2>1. StoreTypes'
    BY <1>0, <1>2, SettingsAssumption DEF AssignModel, StoreTypes, Values
  <2>2. PageTypes' /\ SaveTypes' /\ PagesKnown' /\ SavesKnown' /\ SeenBeforeReplaced'
    BY <1>2 DEF AssignModel, SettingsInv, PageTypes, SaveTypes, PagesKnown, SavesKnown,
                SeenBeforeReplaced
  <2> QED
    BY <2>1, <2>2 DEF SettingsInv
<1>3. ASSUME EndClerk(a) PROVE SettingsInv'
  BY <1>0, <1>3, NoSaveKnown, SaveStays DEF EndClerk, StoreStays
<1> QED
  BY <1>1, <1>2, <1>3 DEF ClerkStep

LEMMA ReadKeeps ==
  ASSUME SettingsInv, NEW a \in Authors, ReadCurrent(a)
  PROVE  SettingsInv'
<1> DEFINE s == saves[a]
<1>1. /\ s \in WorkType /\ KnownSave(s, file, mixed) /\ s.phase = "sent"
      /\ s.to \in Places /\ file[s.to] \in FileType /\ edits \in 0 .. MaxEdits
  BY SaveForms DEF ReadCurrent, SettingsInv, SaveTypes, SavesKnown, StoreTypes, WorkType
<1>2. StoreStays /\ UNCHANGED <<pages, edits>>
  BY DEF ReadCurrent, StoreStays
<1>3. CASE UpToDate(s)
  <2> DEFINE r == [s EXCEPT !.phase = "writing", !.read = file[s.to]]
  <2>1. r \in WorkType /\ r.phase = "writing"
    BY <1>1 DEF WorkType
  <2>2. KnownSave(r, file, mixed)
    BY <1>1, <1>3 DEF KnownSave, UpToDate, WorkType
  <2>3. saves' = [saves EXCEPT ![a] = r]
    BY <1>3 DEF ReadCurrent
  <2>4. r \in SaveType
    BY <2>1 DEF SaveType
  <2> HIDE DEF r, s
  <2> QED
    BY <1>1, <1>2, <2>1, <2>2, <2>3, <2>4, SaveStays
<1>4. CASE ~UpToDate(s)
  <2> DEFINE r == [phase |-> IF a \in Pages THEN "refused" ELSE "failed", to |-> s.to]
  <2>1. r \in SaveType /\ KnownSave(r, file, mixed) /\ (r.phase = "refused" => a \in Pages)
        /\ r.phase # "reread"
    BY <1>1 DEF SaveType, BriefType, KnownSave
  <2>2. saves' = [saves EXCEPT ![a] = r]
    BY <1>4 DEF ReadCurrent
  <2> HIDE DEF r, s
  <2> QED
    BY <1>1, <1>2, <2>1, <2>2, SaveStays
<1> QED
  BY <1>3, <1>4

LEMMA CommitKeeps ==
  ASSUME SettingsInv, NEW a \in Authors, Commit(a)
  PROVE  SettingsInv'
<1> DEFINE s == saves[a]
           r == [phase |-> "answered", to |-> s.to,
                 answer |-> [of |-> s.to, rev |-> Written(s).rev, has |-> Written(s).has,
                             model |-> RowAfter(s)]]
<1>1. s \in WorkType /\ s.to \in Places /\ s.phase = "writing" /\ s.model \in Values
  BY SaveForms DEF Commit, SettingsInv, SaveTypes, WorkType
<1>2. /\ Land(s) /\ assigned' = [assigned EXCEPT ![s.to] = RowAfter(s)]
      /\ saves' = [saves EXCEPT ![a] = r] /\ UNCHANGED <<pages, edits>>
  BY DEF Commit
<1>3. Written(s) \in FileType
  BY <1>1, WrittenType
<1>4. RowAfter(s) \in Values
  BY <1>1 DEF RowAfter, SettingsInv, StoreTypes
<1>5. r.answer \in ShownType /\ r \in ToldType /\ r.phase = "answered"
  BY <1>1, <1>3, <1>4 DEF ShownType, ToldType, FileType
<1>6. /\ file' \in [Places -> FileType] /\ lost' \subseteq Places /\ mixed' \subseteq Places
      /\ mixed \subseteq mixed'
      /\ \A w \in Places : file'[w] = file[w] \/ w \in mixed' \/ file'[w].rev > file[w].rev
      /\ file'[s.to] = Written(s)
      /\ SeenBeforeReplaced'
  BY <1>1, <1>2, Landing
<1>7. StoreTypes'
  BY <1>1, <1>2, <1>4, <1>6 DEF SettingsInv, StoreTypes
<1>8. KnownSave(r, file', mixed')
  BY <1>3, <1>5, <1>6 DEF KnownSave, Shows, FileType
<1>9. r \in SaveType
  BY <1>5 DEF SaveType
<1> HIDE DEF r, s
<1>10. PageTypes' /\ SaveTypes'
  BY <1>2, <1>5, <1>9 DEF SettingsInv, PageTypes, SaveTypes
<1>11. file \in [Places -> FileType]
  BY DEF SettingsInv, StoreTypes
<1>12. PagesKnown'
  BY <1>2, <1>6, <1>11, KnownStays DEF SettingsInv, PageTypes, PagesKnown
<1>13. SavesKnown'
  BY <1>2, <1>6, <1>8, <1>11, KnownStays DEF SettingsInv, SaveTypes, SavesKnown
<1> QED
  BY <1>6, <1>7, <1>10, <1>12, <1>13 DEF SettingsInv

LEMMA FailureKeeps ==
  ASSUME SettingsInv, NEW a \in Authors, FailWrite(a)
  PROVE  SettingsInv'
<1> DEFINE r == [phase |-> "failed", to |-> saves[a].to]
<1>1. saves[a].to \in Places /\ edits \in 0 .. MaxEdits
  BY SaveForms DEF FailWrite, SettingsInv, SaveTypes, StoreTypes, WorkType
<1>2. r \in SaveType /\ KnownSave(r, file, mixed) /\ r.phase = "failed"
  BY <1>1 DEF SaveType, BriefType, KnownSave
<1> QED
  BY <1>1, <1>2, SaveStays DEF FailWrite, StoreStays

LEMMA DyingKeeps == ASSUME SettingsInv, DieSaving PROVE SettingsInv'
<1>1. /\ saves' = [a \in Authors |-> Unanswered(a)] /\ UNCHANGED <<assigned, pages, edits>>
      /\ file \in [Places -> FileType]
  BY DEF DieSaving, SettingsInv, StoreTypes
<1>2. \A a \in Authors : /\ Unanswered(a) \in SaveType
                         /\ Unanswered(a).phase \notin {"refused", "reread"}
                         /\ \A F, M : KnownSave(Unanswered(a), F, M)
  <2> SUFFICES ASSUME NEW a \in Authors
               PROVE  /\ Unanswered(a) \in SaveType
                      /\ Unanswered(a).phase \notin {"refused", "reread"}
                      /\ \A F, M : KnownSave(Unanswered(a), F, M)
    OBVIOUS
  <2>1. saves[a] \in SaveType
    BY DEF SettingsInv, SaveTypes
  <2>2. saves[a] # NoSave => saves[a].to \in Places
    BY <2>1 DEF SaveType, WorkType, BriefType, ToldType
  <2> QED
    BY <2>2, NoSaveKnown DEF Unanswered, SaveType, BriefType, KnownSave
<1>3. /\ file' \in [Places -> FileType] /\ lost' \subseteq Places /\ mixed' \subseteq Places
      /\ mixed \subseteq mixed'
      /\ \A w \in Places : file'[w] = file[w] \/ w \in mixed' \/ file'[w].rev > file[w].rev
      /\ SeenBeforeReplaced'
  <2>1. CASE \E a \in Authors : saves[a].phase = "writing" /\ Land(saves[a])
    BY <2>1, Landing
  <2>2. CASE UNCHANGED <<file, lost, mixed>>
    BY <1>1, <2>2 DEF SettingsInv, StoreTypes, SeenBeforeReplaced
  <2> QED
    BY <2>1, <2>2 DEF DieSaving
<1>4. StoreTypes' /\ PageTypes' /\ SaveTypes'
  BY <1>1, <1>2, <1>3 DEF SettingsInv, StoreTypes, PageTypes, SaveTypes
<1>5. PagesKnown'
  BY <1>1, <1>3, KnownStays DEF SettingsInv, PageTypes, PagesKnown
<1>6. SavesKnown'
  BY <1>1, <1>2 DEF SavesKnown
<1> QED
  BY <1>3, <1>4, <1>5, <1>6 DEF SettingsInv

-----------------------------------------------------------------------------
LEMMA SettingsStep == SettingsInv /\ [SettingsNext]_settingsVars => SettingsInv'
<1> SUFFICES ASSUME SettingsInv, [SettingsNext]_settingsVars PROVE SettingsInv'
  OBVIOUS
<1>1. CASE \E p \in Pages : PageStep(p)
  BY <1>1, PagesKeep
<1>2. CASE \E a \in Clerks : ClerkStep(a)
  BY <1>2, ClerksKeep
<1>3. CASE \E a \in Authors : ReadCurrent(a) \/ Commit(a) \/ FailWrite(a)
  BY <1>3, ReadKeeps, CommitKeeps, FailureKeeps
<1>4. CASE DieSaving
  BY <1>4, DyingKeeps
<1>5. CASE UNCHANGED settingsVars
  BY <1>5 DEF settingsVars, SettingsInv, StoreTypes, PageTypes, SaveTypes, PagesKnown,
              SavesKnown, SeenBeforeReplaced
<1> QED
  BY <1>1, <1>2, <1>3, <1>4, <1>5 DEF SettingsNext

LEMMA SettingsHold == SettingsInv => SettingsTypes /\ SeenBeforeReplaced
<1> SUFFICES ASSUME SettingsInv
             PROVE  SettingsTypes
  BY DEF SettingsInv
<1>1. \A a \in Authors :
        saves[a].phase \in {"none", "sent", "writing", "refused", "reread", "answered", "failed"}
  BY SaveForms DEF SettingsInv, SaveTypes
<1> QED
  BY <1>1 DEF SettingsInv, SettingsTypes, StoreTypes, PageTypes, PageType, PageInOrder, FileType

\* Every variable of the settings keeps its type: only values of the right kind
\* reach the file, whatever administrators ask for, and no dialog is open over a
\* page that shows nothing.
THEOREM SettingsTyped == SettingsSpec => []SettingsTypes
  BY InitSettings, SettingsStep, SettingsHold, PTL DEF SettingsSpec

\* The revision protects every author: a change is overwritten unseen only in a
\* world where two saves crossed or another world's settings were saved, however
\* many pages and administrators edit, fail and crash (savePatch, saveWorldSettings).
THEOREM RevisionProtects == SettingsSpec => []SeenBeforeReplaced
  BY InitSettings, SettingsStep, SettingsHold, PTL DEF SettingsSpec

-----------------------------------------------------------------------------
(* Attachments *)

UploadType == [step : UploadSteps, home : Worlds \cup {NoWorld}]
PostType   == [to : Worlds, with : SUBSET Uploads]
ServedType == [of : Uploads, was : {"none", "whole", "changed"}]

FileTyped ==
  /\ disk \in [Uploads -> {"none", "whole", "changed"}]
  /\ described \subseteq Uploads
  /\ upload \in [Uploads -> UploadType]
  /\ composer \in [at : Worlds, tray : SUBSET Uploads]
  /\ posts \subseteq PostType
  /\ messages \subseteq PostType
  /\ served \subseteq ServedType

\* What is described has been stored, so that no failure undoes it any more.
Settled == {"stored", "over", "failed"}
DescribedLast == \A i \in described : upload[i].step \in Settled

\* A file on its way to its description lies in its place.
PlacedIsWhole == \A i \in Uploads : upload[i].step = "placed" => disk[i] = "whole"

\* The three parts of CarriedIsReal.
DescribedIsThere == \A i \in described : disk[i] = "whole" \/ i \in damaged
CarriedBelongs   == \A m \in messages : \A i \in m.with : i \in described /\ Belongs(i, m.to)
ServedWhole      == \A s \in served : s.was = "whole"

FilesInv ==
  /\ FileTyped
  /\ DescribedLast
  /\ PlacedIsWhole
  /\ DescribedIsThere
  /\ CarriedBelongs
  /\ ServedWhole

(***************************************************************************)
(* Frames                                                                  *)
(***************************************************************************)

\* A step that moves one upload forward, and touches no file, description,
\* message or page, keeps the invariant when what it moves is not described or
\* comes to rest.
LEMMA MoveKeeps ==
  ASSUME FilesInv, NEW i \in Uploads, NEW u \in UploadType,
         upload' = [upload EXCEPT ![i] = u],
         i \in described => u.step \in Settled /\ u.home = upload[i].home,
         u.step = "placed" => disk[i] = "whole",
         composer' \in [at : Worlds, tray : SUBSET Uploads],
         UNCHANGED <<disk, described, posts, messages, served, damaged>>
  PROVE  FilesInv'
<1>1. upload \in [Uploads -> UploadType]
  BY DEF FilesInv, FileTyped
<1>2. /\ upload'[i] = u
      /\ \A j \in Uploads : j # i => upload'[j] = upload[j]
  BY <1>1
<1>3. FileTyped'
  BY <1>1 DEF FilesInv, FileTyped
<1>4. DescribedLast' /\ PlacedIsWhole'
  BY <1>2 DEF FilesInv, FileTyped, DescribedLast, PlacedIsWhole
<1>5. DescribedIsThere' /\ ServedWhole'
  BY DEF FilesInv, DescribedIsThere, ServedWhole
<1>6. CarriedBelongs'
  BY <1>2 DEF FilesInv, FileTyped, CarriedBelongs, Belongs
<1> QED
  BY <1>3, <1>4, <1>5, <1>6 DEF FilesInv

\* A step that touches neither uploads nor files keeps the invariant when the
\* composer, the messages on their way and those stored, and what pages were
\* shown, keep what is said of them.
LEMMA OthersKeep ==
  ASSUME FilesInv,
         composer' \in [at : Worlds, tray : SUBSET Uploads],
         posts' \subseteq PostType,
         messages' \subseteq PostType,
         CarriedBelongs',
         served' \subseteq ServedType,
         ServedWhole',
         UNCHANGED <<disk, described, upload, damaged>>
  PROVE  FilesInv'
BY DEF FilesInv, FileTyped, DescribedLast, PlacedIsWhole, DescribedIsThere

\* Uploads and their worlds as they were: so is what messages carry.
LEMMA CarriedStays ==
  ASSUME CarriedBelongs, UNCHANGED <<described, upload, messages>>
  PROVE  CarriedBelongs'
BY DEF CarriedBelongs, Belongs

\* The fields of an upload of which one is changed.
LEMMA NewStep ==
  ASSUME NEW u \in UploadType, NEW s \in UploadSteps
  PROVE  /\ [u EXCEPT !.step = s] \in UploadType
         /\ [u EXCEPT !.step = s].step = s
         /\ [u EXCEPT !.step = s].home = u.home
BY DEF UploadType

\* An upload that moves to another step stays what it is.
LEMMA MovedUpload ==
  ASSUME upload \in [Uploads -> UploadType], NEW i \in Uploads, NEW s \in UploadSteps,
         upload' = [upload EXCEPT ![i].step = s]
  PROVE  /\ upload' \in [Uploads -> UploadType]
         /\ upload'[i].step = s
         /\ \A j \in Uploads : j # i => upload'[j] = upload[j]
         /\ \A j \in Uploads : upload'[j].home = upload[j].home
<1> DEFINE u == [upload[i] EXCEPT !.step = s]
<1>1. u \in UploadType /\ u.step = s /\ u.home = upload[i].home
  BY NewStep
<1>2. upload' = [upload EXCEPT ![i] = u]
  OBVIOUS
<1> HIDE DEF u
<1> QED
  BY <1>1, <1>2

(***************************************************************************)
(* The steps                                                               *)
(***************************************************************************)

\* The composer and the uploads it waits for.
LEMMA ComposerKeeps ==
  ASSUME FilesInv, NEW i \in Uploads,
         Pick(i) \/ TakeBack(i) \/ TakeStored(i) \/ MissStored(i)
  PROVE  FilesInv'
<1>1. /\ upload \in [Uploads -> UploadType]
      /\ composer \in [at : Worlds, tray : SUBSET Uploads]
      /\ CarriedBelongs /\ ServedWhole
      /\ posts \subseteq PostType /\ messages \subseteq PostType /\ served \subseteq ServedType
  BY DEF FilesInv, FileTyped
<1>2. CASE Pick(i)
  <2> DEFINE u == [step |-> "sent", home |-> composer.at]
  <2>1. u \in UploadType /\ u.step = "sent"
    BY <1>1 DEF UploadType, UploadSteps
  <2>2. i \notin described
    BY <1>2 DEF Pick, FilesInv, DescribedLast, Settled
  <2>3. /\ upload' = [upload EXCEPT ![i] = u]
        /\ UNCHANGED <<disk, described, composer, posts, messages, served, damaged>>
    BY <1>2 DEF Pick
  <2> HIDE DEF u
  <2> QED
    BY <1>1, <2>1, <2>2, <2>3, MoveKeeps
<1>3. CASE TakeBack(i)
  <2>1. composer' \in [at : Worlds, tray : SUBSET Uploads]
    BY <1>1, <1>3 DEF TakeBack
  <2>2. UNCHANGED <<disk, described, upload, posts, messages, served, damaged>>
    BY <1>3 DEF TakeBack
  <2>3. CarriedBelongs' /\ ServedWhole'
    BY <1>1, <2>2, CarriedStays DEF ServedWhole
  <2> QED
    BY <1>1, <2>1, <2>2, <2>3, OthersKeep
<1>4. CASE TakeStored(i) \/ MissStored(i)
  <2> DEFINE u == [upload[i] EXCEPT !.step = "over"]
  <2>1. u \in UploadType /\ u.step = "over" /\ u.home = upload[i].home
    BY <1>1, NewStep DEF UploadSteps
  <2>2. /\ upload' = [upload EXCEPT ![i] = u]
        /\ UNCHANGED <<disk, described, posts, messages, served, damaged>>
    BY <1>4 DEF TakeStored, MissStored
  <2>3. composer' \in [at : Worlds, tray : SUBSET Uploads]
    BY <1>1, <1>4 DEF TakeStored, MissStored
  <2> HIDE DEF u
  <2> QED
    BY <2>1, <2>2, <2>3, MoveKeeps DEF Settled
<1> QED
  BY <1>2, <1>3, <1>4

\* A file is accepted or refused, put in its place, and described; only what is
\* in its place is described.
LEMMA StoringKeeps ==
  ASSUME FilesInv, NEW i \in Uploads, Receive(i) \/ Place(i) \/ Describe(i)
  PROVE  FilesInv'
<1>1. /\ upload \in [Uploads -> UploadType]
      /\ disk \in [Uploads -> {"none", "whole", "changed"}]
      /\ composer \in [at : Worlds, tray : SUBSET Uploads]
  BY DEF FilesInv, FileTyped
<1>2. CASE Receive(i)
  <2>1. PICK s \in {"writing", "failed"} : UploadTo(i, s)
    BY <1>2 DEF Receive, AcceptAsset, AcceptFile
  <2> DEFINE u == [upload[i] EXCEPT !.step = s]
  <2>2. s \in UploadSteps /\ upload[i] \in UploadType
    BY <1>1, <2>1 DEF UploadSteps
  <2>3. u \in UploadType /\ u.step = s /\ u.home = upload[i].home
    BY <2>2, NewStep
  <2>4. /\ upload' = [upload EXCEPT ![i] = u]
        /\ UNCHANGED <<disk, described, composer, posts, messages, served, damaged>>
    BY <1>2, <2>1 DEF Receive, UploadTo
  <2>5. i \notin described
    BY <1>2 DEF Receive, FilesInv, DescribedLast, Settled
  <2> HIDE DEF u
  <2> QED
    BY <1>1, <2>3, <2>4, <2>5, MoveKeeps
<1>3. CASE Place(i)
  <2>1. /\ upload[i].step = "writing"
        /\ upload' = [upload EXCEPT ![i].step = "placed"]
        /\ disk' = [disk EXCEPT ![i] = "whole"]
        /\ UNCHANGED <<described, composer, posts, messages, served, damaged>>
    BY <1>3 DEF Place, UploadTo, PlaceAsset, PlaceFile
  <2>2. i \notin described
    BY <2>1 DEF FilesInv, DescribedLast, Settled
  <2>3. /\ upload' \in [Uploads -> UploadType]
        /\ \A j \in Uploads : j # i => upload'[j] = upload[j]
        /\ \A j \in Uploads : upload'[j].home = upload[j].home
    BY <1>1, <2>1, MovedUpload DEF UploadSteps
  <2>4. /\ \A j \in Uploads : j # i => disk'[j] = disk[j]
        /\ disk'[i] = "whole"
    BY <1>1, <2>1
  <2>5. /\ upload' \in [Uploads -> UploadType]
        /\ \A j \in Uploads : j # i => upload'[j] = upload[j] /\ disk'[j] = disk[j]
        /\ disk'[i] = "whole"
        /\ \A j \in Uploads : upload'[j].home = upload[j].home
    BY <2>3, <2>4
  <2>6. FileTyped'
    BY <2>1, <2>5 DEF FilesInv, FileTyped
  <2>7. DescribedLast' /\ PlacedIsWhole' /\ DescribedIsThere'
    BY <2>1, <2>2, <2>5
       DEF FilesInv, FileTyped, DescribedLast, PlacedIsWhole, DescribedIsThere
  <2>8. CarriedBelongs' /\ ServedWhole'
    BY <2>1, <2>5 DEF FilesInv, FileTyped, CarriedBelongs, Belongs, ServedWhole
  <2> QED
    BY <2>6, <2>7, <2>8 DEF FilesInv
<1>4. CASE Describe(i)
  <2>1. /\ upload[i].step = "placed"
        /\ upload' = [upload EXCEPT ![i].step = "stored"]
        /\ described' = described \union {i}
        /\ UNCHANGED <<disk, composer, posts, messages, served, damaged>>
    BY <1>4 DEF Describe, UploadTo, DescribeAsset, DescribeFile
  <2>2. disk[i] = "whole"
    BY <2>1 DEF FilesInv, PlacedIsWhole
  <2>3. /\ upload' \in [Uploads -> UploadType]
        /\ \A j \in Uploads : j # i => upload'[j] = upload[j]
        /\ upload'[i].step = "stored"
        /\ \A j \in Uploads : upload'[j].home = upload[j].home
    BY <1>1, <2>1, MovedUpload DEF UploadSteps
  <2>4. FileTyped'
    BY <2>1, <2>3 DEF FilesInv, FileTyped
  <2>5. DescribedLast' /\ PlacedIsWhole' /\ DescribedIsThere'
    BY <2>1, <2>2, <2>3
       DEF FilesInv, FileTyped, DescribedLast, PlacedIsWhole, DescribedIsThere, Settled
  <2>6. CarriedBelongs' /\ ServedWhole'
    BY <2>1, <2>3 DEF FilesInv, FileTyped, CarriedBelongs, Belongs, ServedWhole
  <2> QED
    BY <2>4, <2>5, <2>6 DEF FilesInv
<1> QED
  BY <1>2, <1>3, <1>4

\* A failure takes away only what is not described; somebody else may harm what
\* is, and is known to have.
LEMMA MishapKeeps ==
  ASSUME FilesInv, NEW i \in Uploads, FailStoring(i) \/ Damage(i)
  PROVE  FilesInv'
<1>1. /\ upload \in [Uploads -> UploadType]
      /\ disk \in [Uploads -> {"none", "whole", "changed"}]
  BY DEF FilesInv, FileTyped
<1>2. CASE FailStoring(i)
  <2>1. /\ upload[i].step \in {"writing", "placed"}
        /\ upload' = [upload EXCEPT ![i].step = "failed"]
        /\ disk' = [disk EXCEPT ![i] = "none"] \/ disk' = disk
        /\ UNCHANGED <<described, composer, posts, messages, served, damaged>>
    BY <1>2 DEF FailStoring, UploadTo, Undo
  <2>2. i \notin described
    BY <2>1 DEF FilesInv, DescribedLast, Settled
  <2>3. /\ upload' \in [Uploads -> UploadType]
        /\ disk' \in [Uploads -> {"none", "whole", "changed"}]
        /\ \A j \in Uploads : j # i => upload'[j] = upload[j] /\ disk'[j] = disk[j]
        /\ upload'[i].step = "failed"
        /\ \A j \in Uploads : upload'[j].home = upload[j].home
    BY ZenonT(40), <1>1, <2>1, MovedUpload DEF UploadSteps
  <2>4. FileTyped'
    BY <2>1, <2>3 DEF FilesInv, FileTyped
  <2>5. DescribedLast' /\ PlacedIsWhole' /\ DescribedIsThere'
    BY <2>1, <2>2, <2>3
       DEF FilesInv, FileTyped, DescribedLast, PlacedIsWhole, DescribedIsThere
  <2>6. CarriedBelongs' /\ ServedWhole'
    BY <2>1, <2>3 DEF FilesInv, FileTyped, CarriedBelongs, Belongs, ServedWhole
  <2> QED
    BY <2>4, <2>5, <2>6 DEF FilesInv
<1>3. CASE Damage(i)
  <2>1. PICK s \in {"changed", "none"} : disk' = [disk EXCEPT ![i] = s]
    BY <1>3 DEF Damage
  <2>2. /\ upload[i].step \in {"stored", "over"}
        /\ damaged' = damaged \union {i}
        /\ UNCHANGED <<described, upload, composer, posts, messages, served>>
    BY <1>3 DEF Damage
  <2>3. FileTyped'
    BY <1>1, <2>1, <2>2 DEF FilesInv, FileTyped
  <2>4. DescribedLast' /\ PlacedIsWhole' /\ DescribedIsThere'
    BY <1>1, <2>1, <2>2
       DEF FilesInv, FileTyped, DescribedLast, PlacedIsWhole, DescribedIsThere
  <2>5. CarriedBelongs' /\ ServedWhole'
    BY <2>2 DEF FilesInv, CarriedBelongs, Belongs, ServedWhole
  <2> QED
    BY <2>3, <2>4, <2>5 DEF FilesInv
<1> QED
  BY <1>2, <1>3

\* The owner moves about and sends what is in the composer.
LEMMA OwnerKeeps ==
  ASSUME FilesInv,
         (\E w \in Worlds : Visit(w)) \/ (\E addressed \in BOOLEAN : Submit(addressed))
  PROVE  FilesInv'
<1>1. /\ composer \in [at : Worlds, tray : SUBSET Uploads]
      /\ CarriedBelongs /\ ServedWhole
      /\ posts \subseteq PostType /\ messages \subseteq PostType /\ served \subseteq ServedType
  BY DEF FilesInv, FileTyped
<1>2. UNCHANGED <<disk, described, upload, messages, served, damaged>>
  BY DEF Visit, Submit
<1>3. composer' \in [at : Worlds, tray : SUBSET Uploads]
  BY <1>1 DEF Visit, Submit
<1>4. [to |-> composer.at, with |-> composer.tray] \in PostType
  BY <1>1 DEF PostType
<1>5. posts' \subseteq PostType
  BY <1>1, <1>4 DEF Visit, Submit
<1>6. CarriedBelongs' /\ ServedWhole'
  BY <1>1, <1>2, CarriedStays DEF ServedWhole
<1> QED
  BY <1>1, <1>2, <1>3, <1>5, <1>6, OthersKeep

\* A message is stored only when all it carries is known in its world.
LEMMA StoreKeeps ==
  ASSUME FilesInv, NEW m \in posts, StoreMessage(m)
  PROVE  FilesInv'
<1>1. /\ composer \in [at : Worlds, tray : SUBSET Uploads]
      /\ CarriedBelongs /\ ServedWhole
      /\ posts \subseteq PostType /\ messages \subseteq PostType /\ served \subseteq ServedType
  BY DEF FilesInv, FileTyped
<1>2. /\ UNCHANGED <<disk, described, upload, composer, served, damaged>>
      /\ posts' = posts \ {m}
      /\ \/ messages' = messages
         \/ messages' = messages \union {m} /\ \A i \in m.with : Known(i, m.to)
  BY DEF StoreMessage
<1>3. CarriedBelongs'
  BY <1>1, <1>2 DEF CarriedBelongs, Belongs, Known, KnownAsset, KnownFile, DescribedIn
<1>4. ServedWhole' /\ posts' \subseteq PostType /\ messages' \subseteq PostType
  BY <1>1, <1>2 DEF ServedWhole
<1> QED
  BY <1>1, <1>2, <1>3, <1>4, OthersKeep

\* A page is shown only what is still as it was uploaded.
LEMMA ShowKeeps ==
  ASSUME FilesInv, NEW m \in messages, NEW i \in Uploads, Show(i, m)
  PROVE  FilesInv'
<1>1. /\ composer \in [at : Worlds, tray : SUBSET Uploads]
      /\ disk \in [Uploads -> {"none", "whole", "changed"}]
      /\ CarriedBelongs /\ ServedWhole
      /\ posts \subseteq PostType /\ messages \subseteq PostType /\ served \subseteq ServedType
  BY DEF FilesInv, FileTyped
<1>2. /\ UNCHANGED <<disk, described, upload, composer, posts, messages, damaged>>
      /\ served' = served \union {[of |-> i, was |-> disk[i]]}
      /\ disk[i] = "whole"
  BY DEF Show, Intact
<1>3. served' \subseteq ServedType /\ ServedWhole'
  BY <1>1, <1>2 DEF ServedType, ServedWhole
<1> QED
  BY <1>1, <1>2, <1>3, CarriedStays, OthersKeep

\* The process ends: what was being stored stays as far as it came.
LEMMA DeathKeeps ==
  ASSUME FilesInv, DieStoring
  PROVE  FilesInv'
<1>1. /\ upload \in [Uploads -> UploadType]
      /\ described \subseteq Uploads
  BY DEF FilesInv, FileTyped
<1>2. /\ upload' = [i \in Uploads |->
           IF upload[i].step \in {"sent", "writing", "placed", "stored"}
           THEN [upload[i] EXCEPT !.step = "failed"] ELSE upload[i]]
      /\ posts' = {}
      /\ UNCHANGED <<disk, described, composer, messages, served, damaged>>
  BY DEF DieStoring
<1>3. \A i \in Uploads :
        /\ upload'[i] \in UploadType
        /\ upload'[i].home = upload[i].home
        /\ upload'[i].step = "failed" \/ upload'[i] = upload[i]
        /\ upload'[i].step # "placed"
  BY <1>1, <1>2, NewStep DEF UploadSteps, UploadType
<1>4. FileTyped'
  BY <1>2, <1>3 DEF FilesInv, FileTyped
<1>5. DescribedLast' /\ PlacedIsWhole' /\ DescribedIsThere'
  BY <1>1, <1>2, <1>3
     DEF FilesInv, DescribedLast, PlacedIsWhole, DescribedIsThere, Settled
<1>6. CarriedBelongs' /\ ServedWhole'
  BY <1>1, <1>2, <1>3 DEF FilesInv, CarriedBelongs, Belongs, ServedWhole
<1> QED
  BY <1>4, <1>5, <1>6 DEF FilesInv

LEMMA InitFiles == FilesInit => FilesInv
<1> SUFFICES ASSUME FilesInit PROVE FilesInv
  OBVIOUS
<1>1. FileTyped
  BY DEF FilesInit, FileTyped, UploadType, UploadSteps
<1> QED
  BY <1>1 DEF FilesInit, FilesInv, DescribedLast, PlacedIsWhole, DescribedIsThere,
              CarriedBelongs, ServedWhole

LEMMA FilesStep == FilesInv /\ [FilesNext]_fileVars => FilesInv'
<1> SUFFICES ASSUME FilesInv, [FilesNext]_fileVars PROVE FilesInv'
  OBVIOUS
<1>1. CASE \E i \in Uploads : UploadStep(i)
  BY <1>1, ComposerKeeps, StoringKeeps, MishapKeeps DEF UploadStep
<1>2. CASE (\E w \in Worlds : Visit(w)) \/ (\E addressed \in BOOLEAN : Submit(addressed))
  BY <1>2, OwnerKeeps
<1>3. CASE (\E m \in posts : StoreMessage(m)) \/ (\E m \in messages : \E i \in Uploads : Show(i, m))
  BY <1>3, StoreKeeps, ShowKeeps
<1>4. CASE DieStoring
  BY <1>4, DeathKeeps
<1>5. CASE UNCHANGED fileVars
  BY <1>5 DEF fileVars, FilesInv, FileTyped, DescribedLast, PlacedIsWhole, DescribedIsThere,
              CarriedBelongs, Belongs, ServedWhole
<1> QED
  BY <1>1, <1>2, <1>3, <1>4, <1>5 DEF FilesNext

LEMMA FilesHold == FilesInv => FileTypes /\ CarriedIsReal
  BY DEF FilesInv, FileTyped, FileTypes, UploadType, PostType,
         CarriedIsReal, DescribedIsThere, CarriedBelongs, ServedWhole

\* Files, uploads and messages keep their types (uploadAttachment, ChatAttachment).
THEOREM FilesTyped == FilesSpec => []FileTypes
  BY InitFiles, FilesStep, FilesHold, PTL DEF FilesSpec

\* However storing fails and whenever the process ends, what has a description or
\* a row is in its place unless somebody else touched it, a stored message carries
\* only what belongs to its world, and a page is shown what was uploaded
\* (world-file-service, asset-service, validatedChatAttachments).
THEOREM CarriedStaysReal == FilesSpec => []CarriedIsReal
  BY InitFiles, FilesStep, FilesHold, PTL DEF FilesSpec
=============================================================================
