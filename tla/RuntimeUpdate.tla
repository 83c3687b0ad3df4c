---------------------------- MODULE RuntimeUpdate ----------------------------
(***************************************************************************)
(* Updates of the agent runtime (runtime-update-service.ts).  A candidate  *)
(* directory is verified, contract tested, tried by a canary and activated *)
(* with approval: the pointer file then names it, and the next start of    *)
(* the server runs it.  A transaction row records how far it came.         *)
(*                                                                         *)
(* A request works on its own copy of the row over many awaits, and the    *)
(* directory belongs to the user: its content may change at any time.  The *)
(* row and the pointer are written one after the other.  The command       *)
(* runtime-rollback is a process of its own.                               *)
(***************************************************************************)
EXTENDS Naturals

CONSTANTS
  Roots,       \* directories of candidates
  Versions,    \* the versions of the compatibility matrix
  Handlers,    \* requests the server serves at a time
  MaxTx,       \* bound: transactions
  MaxChanges,  \* bound: changes of the content of directories
  MaxCrashes,  \* bound: crashes of the server or the command
  CliOnline,   \* may the command run while the server does?
  None         \* no directory, no version

ASSUME RuntimeAssumption ==
  /\ MaxTx \in Nat /\ MaxChanges \in Nat /\ MaxCrashes \in Nat
  /\ CliOnline \in BOOLEAN
  /\ None \notin Roots /\ None \notin Versions

VARIABLES
  tx,       \* runtime_update_transactions; its prev is previousRuntimeRoot
  pointer,  \* active-runtime.json: directory, version, and the transaction that
            \* activated it, 0 after a rollback
  content,  \* the version an inspection finds in a directory, None for none
  request,  \* the request a handler works on, and the local copies it holds
  cli,      \* the command runtime-rollback
  up,       \* the server lives
  changes, crashes, \* history: how often content changed, a process died
  passed,   \* history: transactions whose canary was recorded as passed
  tried     \* history: the contents canaries went well with

vars == <<tx, pointer, content, request, cli, up, changes, crashes, passed, tried>>

Txs     == 1 .. MaxTx
Bundled == [root |-> None, version |-> None, by |-> 0]   \* no file
Idle    == [op |-> "none", tx |-> 0, root |-> None, at |-> "none", version |-> None,
            saved |-> Bundled]
NoCli   == [at |-> "idle", seen |-> Bundled, tx |-> 0]

Statuses == {"none", "verified", "contract-tested", "canary-passed", "activated",
             "rejected", "rolled-back"}

-----------------------------------------------------------------------------
(* Mutated forms of operators below *)

\* Ready: a contract test is enough.
MutReady(t) == tx[t].status \in {"contract-tested", "canary-passed"}
\* Accepted: activation takes any version of the matrix.
MutAccepted(r, v) == r.op \in {"contract", "canary"} \/ v # None
\* Accepted: rollback does not ask whether the inspection went well.
MutUninspected(r, v) ==
  r.op # "activate" \/ v = tx[r.tx].version
\* Returned: the pointer names the transaction that is rolled back.
MutReturned(r) == [root |-> r.root, version |-> r.version, by |-> r.tx]
\* Cleared: only for a transaction that is recorded as activated.
MutCleared(t) == IF t = 0 THEN pointer ELSE Bundled

-----------------------------------------------------------------------------
(* The state machine of a row: transitionRuntimeUpdate *)

Allowed(from) ==
  CASE from = "verified"        -> {"contract-tested", "rejected"}
    [] from = "contract-tested" -> {"canary-passed", "rejected"}
    [] from = "canary-passed"   -> {"activated", "rejected"}
    [] from = "activated"       -> {"rolled-back"}
    [] OTHER                    -> {}

CanMove(t, to) == to \in Allowed(tx[t].status)
Move(t, to)    == tx' = [tx EXCEPT ![t].status = to]

-----------------------------------------------------------------------------
(* Requests *)

Receive(h, op, t, root, at) ==
  /\ up /\ request[h] = Idle
  /\ request' = [request EXCEPT ![h] =
                   [Idle EXCEPT !.op = op, !.tx = t, !.root = root, !.at = at]]
  /\ UNCHANGED <<tx, pointer, content, cli, up, changes, crashes, passed, tried>>

At(h, op, at) == request[h].op = op /\ request[h].at = at
End(h)        == request' = [request EXCEPT ![h] = Idle]

\* Not more candidates at a time than there are rows left
Verify(h, root) ==
  /\ \E t \in Txs : tx[t].status = "none"
  /\ \A g \in Handlers : request[g].op # "verify"
  /\ Receive(h, "verify", 0, root, "inspect")

\* Neither asks for the status of the row.
ContractTest(h, t) == tx[t].status # "none" /\ Receive(h, "contract", t, tx[t].root, "inspect")
Canary(h, t)       == tx[t].status # "none" /\ Receive(h, "canary", t, tx[t].root, "inspect")

Ready(t)       == tx[t].status = "canary-passed"
Activate(h, t) == Ready(t) /\ Receive(h, "activate", t, tx[t].root, "inspect")

Rollback(h, t) ==
  /\ tx[t].status = "activated"
  /\ Receive(h, "rollback", t, tx[t].prev, IF tx[t].prev = None THEN "write" ELSE "inspect")

\* What each request asks of the version v its inspection found
Accepted(r, v) ==
  CASE r.op \in {"contract", "canary"} -> TRUE     \* their catch handles a failure
    [] r.op = "activate"               -> v = tx[r.tx].version
    [] OTHER                           -> v # None

AfterInspection(op) ==
  CASE op \in {"contract", "canary"} -> "record"
    [] op = "rollback"               -> "write"
    [] OTHER                         -> "read"

Inspect(h) ==
  LET r == request[h]
      v == content[r.root] IN
  /\ r.at = "inspect"
  /\ IF Accepted(r, v)
     THEN request' = [request EXCEPT ![h].version = v, ![h].at = AfterInspection(r.op)]
     ELSE End(h)
  /\ UNCHANGED <<tx, pointer, content, cli, up, changes, crashes, passed, tried>>

\* readActiveHarnessRuntime, of activate after the backup
ReadPointer(h) ==
  LET r == request[h] IN
  /\ At(h, "verify", "read") \/ At(h, "activate", "read")
  /\ request' = [request EXCEPT ![h].saved = pointer,
                                ![h].at = IF r.op = "verify" THEN "record" ELSE "write"]
  /\ UNCHANGED <<tx, pointer, content, cli, up, changes, crashes, passed, tried>>

\* A step before anything is written fails, as does the write of a rollback.
GiveUp(h) ==
  /\ request[h].at \in {"inspect", "read"} \/ At(h, "rollback", "write")
  /\ request[h].op \in {"verify", "activate", "rollback"}
  /\ End(h)
  /\ UNCHANGED <<tx, pointer, content, cli, up, changes, crashes, passed, tried>>

\* beginRuntimeUpdate: what a later rollback returns to is what was active when
\* the candidate was verified.
Begin(h) ==
  LET r == request[h] IN
  /\ At(h, "verify", "record")
  /\ \E t \in Txs :
       /\ tx[t].status = "none" /\ \A u \in Txs : u < t => tx[u].status # "none"
       /\ tx' = [tx EXCEPT ![t] = [status |-> "verified", root |-> r.root,
                                   version |-> r.version, prev |-> r.saved.root]]
  /\ End(h)
  /\ UNCHANGED <<pointer, content, cli, up, changes, crashes, passed, tried>>

\* The end of a contract test or a canary.  What it may not record it rejects, so
\* that a second test of a candidate that passed the first rejects it.
Passes(h, to) ==
  /\ request[h].version # None
  /\ CanMove(request[h].tx, to)
  /\ Move(request[h].tx, to)

Fails(h) ==
  LET t == request[h].tx IN
  Move(t, IF CanMove(t, "rejected") THEN "rejected" ELSE tx[t].status)

ConcludeContract(h) ==
  /\ At(h, "contract", "record")
  /\ Passes(h, "contract-tested") \/ Fails(h)
  /\ End(h)
  /\ UNCHANGED <<pointer, content, cli, up, changes, crashes, passed, tried>>

\* Two turns of the model with what is in the directory by then; the version is
\* not compared with that of the transaction.
ConcludeCanary(h) ==
  LET r == request[h] IN
  /\ At(h, "canary", "record")
  /\ \/ /\ Passes(h, "canary-passed") /\ content[r.root] # None
        /\ passed' = passed \cup {r.tx}
        /\ tried' = tried \cup {<<r.root, content[r.root]>>}
     \/ Fails(h) /\ UNCHANGED <<passed, tried>>
  /\ End(h)
  /\ UNCHANGED <<pointer, content, cli, up, changes, crashes>>

-----------------------------------------------------------------------------
(* The switch of the pointer *)

WritePointer(h) ==
  LET r == request[h] IN
  /\ At(h, "activate", "write")
  /\ \/ /\ pointer' = [root |-> r.root, version |-> tx[r.tx].version, by |-> r.tx]
        /\ request' = [request EXCEPT ![h].at = "record"]
     \/ /\ UNCHANGED pointer      \* the write fails
        /\ request' = [request EXCEPT ![h].at = "restore"]
  /\ UNCHANGED <<tx, content, cli, up, changes, crashes, passed, tried>>

RecordActivation(h) ==
  LET t == request[h].tx IN
  /\ At(h, "activate", "record")
  /\ IF CanMove(t, "activated")
     THEN Move(t, "activated") /\ End(h)
     ELSE request' = [request EXCEPT ![h].at = "restore"] /\ UNCHANGED tx
  /\ UNCHANGED <<pointer, content, cli, up, changes, crashes, passed, tried>>

Restore(h) ==
  /\ At(h, "activate", "restore")
  /\ pointer' = request[h].saved
  /\ End(h)
  /\ UNCHANGED <<tx, content, cli, up, changes, crashes, passed, tried>>

\* What a rollback leaves: the runtime before, or the bundled one
Returned(r) ==
  IF r.root = None THEN Bundled ELSE [root |-> r.root, version |-> r.version, by |-> 0]

ReturnPointer(h) ==
  /\ At(h, "rollback", "write")
  /\ pointer' = Returned(request[h])
  /\ request' = [request EXCEPT ![h].at = "record"]
  /\ UNCHANGED <<tx, content, cli, up, changes, crashes, passed, tried>>

RecordRollback(h) ==
  LET t == request[h].tx IN
  /\ At(h, "rollback", "record")
  /\ Move(t, IF CanMove(t, "rolled-back") THEN "rolled-back" ELSE tx[t].status)
  /\ End(h)
  /\ UNCHANGED <<pointer, content, cli, up, changes, crashes, passed, tried>>

-----------------------------------------------------------------------------
(* The command runtime-rollback *)

CliBegin ==
  /\ cli = NoCli
  /\ CliOnline \/ ~up
  /\ cli' = [NoCli EXCEPT !.at = "look", !.seen = pointer]
  /\ UNCHANGED <<tx, pointer, content, request, up, changes, crashes, passed, tried>>

\* The transaction of the pointer, or the last that is activated when there is none
Latest(t) ==
  tx[t].status = "activated" /\ \A u \in Txs : tx[u].status = "activated" => u <= t

CliLook ==
  /\ cli.at = "look"
  /\ cli' = [cli EXCEPT !.at = "clear",
       !.tx = IF cli.seen = Bundled
              THEN IF \E t \in Txs : Latest(t) THEN CHOOSE t \in Txs : Latest(t) ELSE 0
              ELSE IF cli.seen.by \in Txs /\ tx[cli.seen.by].status = "activated"
                   THEN cli.seen.by ELSE 0]
  /\ UNCHANGED <<tx, pointer, content, request, up, changes, crashes, passed, tried>>

\* The pointer is cleared with or without a transaction t to record it in.
Cleared(t) == Bundled

CliClear ==
  /\ cli.at = "clear"
  /\ pointer' = Cleared(cli.tx)
  /\ cli' = IF cli.tx = 0 THEN NoCli ELSE [cli EXCEPT !.at = "record"]
  /\ UNCHANGED <<tx, content, request, up, changes, crashes, passed, tried>>

CliRecord ==
  /\ cli.at = "record"
  /\ Move(cli.tx, IF CanMove(cli.tx, "rolled-back") THEN "rolled-back" ELSE tx[cli.tx].status)
  /\ cli' = NoCli
  /\ UNCHANGED <<pointer, content, request, up, changes, crashes, passed, tried>>

-----------------------------------------------------------------------------
(* The directories, the processes *)

Change(root) ==
  /\ changes < MaxChanges
  /\ changes' = changes + 1
  /\ \E v \in Versions \cup {None} : content' = [content EXCEPT ![root] = v]
  /\ UNCHANGED <<tx, pointer, request, cli, up, crashes, passed, tried>>

\* The server ends, by a crash or for the restart an activation asks for.
Stop ==
  /\ up
  /\ crashes < MaxCrashes
  /\ crashes' = crashes + 1
  /\ up' = FALSE
  /\ request' = [h \in Handlers |-> Idle]
  /\ UNCHANGED <<tx, pointer, content, cli, changes, passed, tried>>

CliCrash ==
  /\ cli # NoCli
  /\ crashes < MaxCrashes
  /\ crashes' = crashes + 1
  /\ cli' = NoCli
  /\ UNCHANGED <<tx, pointer, content, request, up, changes, passed, tried>>

\* resolveActiveRuntime refuses a directory that is not what was activated.
Runnable == pointer # Bundled => content[pointer.root] = pointer.version

Start ==
  /\ ~up
  /\ CliOnline \/ cli = NoCli
  /\ Runnable
  /\ up' = TRUE
  /\ UNCHANGED <<tx, pointer, content, request, cli, changes, crashes, passed, tried>>

-----------------------------------------------------------------------------
(* The specification *)

Init ==
  /\ tx = [t \in Txs |-> [status |-> "none", root |-> None, version |-> None, prev |-> None]]
  /\ pointer = Bundled
  /\ content \in [Roots -> Versions]
  /\ request = [h \in Handlers |-> Idle]
  /\ cli = NoCli
  /\ up = TRUE
  /\ changes = 0 /\ crashes = 0
  /\ passed = {} /\ tried = {}

Asked(h) ==
  \/ \E root \in Roots : Verify(h, root)
  \/ \E t \in Txs : ContractTest(h, t) \/ Canary(h, t) \/ Activate(h, t) \/ Rollback(h, t)

Work(h) ==
  \/ Inspect(h) \/ ReadPointer(h) \/ GiveUp(h) \/ Begin(h)
  \/ ConcludeContract(h) \/ ConcludeCanary(h)
  \/ WritePointer(h) \/ RecordActivation(h) \/ Restore(h)
  \/ ReturnPointer(h) \/ RecordRollback(h)

CliStep == CliLook \/ CliClear \/ CliRecord

Next ==
  \/ \E h \in Handlers : Asked(h) \/ Work(h)
  \/ CliBegin \/ CliStep
  \/ \E root \in Roots : Change(root)
  \/ Stop \/ CliCrash \/ Start

\* The server is started again (between two commands: the fairness is strong), the
\* user does what a refused start asks for, and a command that runs ends.
Refused  == ~up /\ ~Runnable
Fairness == SF_vars(Start) /\ WF_vars(Refused /\ CliBegin) /\ WF_vars(CliStep)

Spec     == Init /\ [][Next]_vars
FairSpec == Spec /\ Fairness

-----------------------------------------------------------------------------
(* Properties *)

PointerType ==
  {Bundled} \cup [root : Roots, version : Versions, by : Txs \cup {0}]

TxType == [status : Statuses, root : Roots \cup {None},
           version : Versions \cup {None}, prev : Roots \cup {None}]

RequestType ==
  [op : {"none", "verify", "contract", "canary", "activate", "rollback"},
   tx : Txs \cup {0}, root : Roots \cup {None},
   at : {"none", "inspect", "read", "write", "record", "restore"},
   version : Versions \cup {None}, saved : PointerType]

CliType == [at : {"idle", "look", "clear", "record"}, seen : PointerType, tx : Txs \cup {0}]

\* Every variable has its type, and a pointer to a directory names a version.
TypeOK ==
  /\ tx \in [Txs -> TxType]
  /\ pointer \in PointerType
  /\ content \in [Roots -> Versions \cup {None}]
  /\ request \in [Handlers -> RequestType]
  /\ cli \in CliType
  /\ up \in BOOLEAN
  /\ changes \in 0 .. MaxChanges
  /\ crashes \in 0 .. MaxCrashes
  /\ passed \subseteq Txs
  /\ tried \subseteq Roots \X (Versions \cup {None})

\* No transaction becomes the active runtime, by an activation or by the restore
\* of one that failed, unless its canary passed.
OnlyPassed == pointer.by # 0 => pointer.by \in passed

\* What an activation points to is the very content a canary went well with,
\* though the directory may have changed once between any two steps.
ActivatedTried == pointer.by # 0 => <<pointer.root, pointer.version>> \in tried

\* The same of every runtime that is not the bundled one, one that a rollback
\* returned to included.
OnlyTried == pointer # Bundled => <<pointer.root, pointer.version>> \in tried

\* What was rolled back is not active again: the row is written after the
\* pointer, by the service and the command, and no crash turns the order.
RollbackStands == \A t \in Txs : tx[t].status = "rolled-back" => pointer.by # t

\* A server that is down comes up again: whatever the pointer names, broken or
\* changed, recorded or not, the command can clear it.
RuntimeStarts == ~up ~> up
=============================================================================
