------------------------ MODULE RuntimeUpdateProofs ------------------------
(***************************************************************************)
(* Theorems about RuntimeUpdate, for all directories, versions and bounds, *)
(* any number of requests at a time, and the command at any time.          *)
(***************************************************************************)
EXTENDS RuntimeUpdate, TLAPS

(* What the copies of requests rest on *)

\* The row of t names a candidate that can be inspected.
GoodRow(T, t, P) ==
  /\ T[t].status # "none" => T[t].root \in Roots /\ T[t].version \in Versions
  /\ T[t].status = "canary-passed" => t \in P

\* A request works on a row there is, with a version it has found, and restores
\* nothing that did not pass.
GoodCopy(r, T, P) ==
  /\ r.op \in {"contract", "canary", "activate", "rollback"} =>
       r.tx \in Txs /\ T[r.tx].status # "none"
  /\ r.op \in {"verify", "contract", "canary", "activate"} => r.root \in Roots
  /\ r.at = "inspect" => r.root \in Roots
  /\ r.op = "verify" /\ r.at \in {"read", "record"} => r.version \in Versions
  /\ r.op = "rollback" /\ r.at = "write" /\ r.root # None => r.version \in Versions
  /\ r.op = "activate" => r.tx \in P
  /\ r.saved.by # 0 => r.saved.by \in P

RowInv  == \A t \in Txs : GoodRow(tx, t, passed)
CopyInv == \A h \in Handlers : GoodCopy(request[h], tx, passed)
CliInv  == cli.at = "record" => cli.tx \in Txs

\* The inductive invariant
IInv == TypeOK /\ RowInv /\ CopyInv /\ CliInv /\ OnlyPassed

-----------------------------------------------------------------------------
LEMMA BundledType ==
  /\ Bundled \in PointerType /\ Bundled.by = 0 /\ Bundled.root = None
  /\ Idle \in RequestType /\ NoCli \in CliType
  /\ Idle.op = "none" /\ Idle.at = "none" /\ Idle.saved.by = 0 /\ NoCli.at = "idle"
BY DEF Bundled, PointerType, Idle, NoCli, RequestType, CliType

\* An idle handler holds no copy that could be wrong.
LEMMA IdleCopy == ASSUME NEW T, NEW P PROVE GoodCopy(Idle, T, P)
BY BundledType DEF GoodCopy

\* A copy stays good as long as no row disappears and history only grows.
LEMMA CopyStays ==
  ASSUME NEW r, NEW T, NEW U, NEW P, NEW Q, GoodCopy(r, T, P), P \subseteq Q,
         \A t \in Txs : T[t].status # "none" => U[t].status # "none"
  PROVE  GoodCopy(r, U, Q)
BY DEF GoodCopy

LEMMA InitInv == Init => IInv
<1> SUFFICES ASSUME Init PROVE IInv
  OBVIOUS
<1>1. [status |-> "none", root |-> None, version |-> None, prev |-> None] \in TxType
  BY DEF TxType, Statuses
<1>2. 0 \in 0 .. MaxChanges /\ 0 \in 0 .. MaxCrashes
  BY RuntimeAssumption
<1>3. content \in [Roots -> Versions \cup {None}]
  BY DEF Init
<1>4. TypeOK
  BY <1>1, <1>2, <1>3, BundledType DEF Init, TypeOK
<1>5. RowInv
  BY DEF Init, RowInv, GoodRow
<1>6. CopyInv
  BY IdleCopy DEF Init, CopyInv
<1> QED
  BY <1>4, <1>5, <1>6, BundledType DEF Init, IInv, CliInv, OnlyPassed

-----------------------------------------------------------------------------
(* Two shapes of steps cover the requests: those that only go on with a copy, *)
(* and those that move a row.                                                 *)

\* A step that replaces the copy of one handler and nothing else but the pointer
LEMMA CopyStep ==
  ASSUME IInv, NEW h \in Handlers, NEW r \in RequestType, GoodCopy(r, tx, passed),
         request' = [request EXCEPT ![h] = r],
         pointer' \in PointerType, pointer'.by # 0 => pointer'.by \in passed,
         UNCHANGED <<tx, content, cli, up, changes, crashes, passed, tried>>
  PROVE  IInv'
<1>1. request' \in [Handlers -> RequestType]
  BY DEF IInv, TypeOK
<1>2. TypeOK'
  BY <1>1 DEF IInv, TypeOK
<1>3. CopyInv'
  <2>1. ASSUME NEW g \in Handlers PROVE GoodCopy(request'[g], tx, passed)
    BY DEF IInv, TypeOK, CopyInv
  <2> QED
    BY <2>1 DEF CopyInv
<1>4. RowInv'
  BY DEF IInv, RowInv
<1> QED
  BY <1>2, <1>3, <1>4 DEF IInv, CliInv, OnlyPassed

\* Moving a row keeps what its copies and the others' rely on.
LEMMA MoveKeeps ==
  ASSUME IInv, NEW t \in Txs, NEW to \in Statuses \ {"none"}, Move(t, to),
         NEW P, passed \subseteq P, to = "canary-passed" => t \in P,
         tx[t].status # "none"
  PROVE  /\ tx' \in [Txs -> TxType]
         /\ \A u \in Txs : GoodRow(tx', u, P)
         /\ \A u \in Txs : tx[u].status # "none" => tx'[u].status # "none"
<1>1. tx \in [Txs -> TxType] /\ \A u \in Txs : GoodRow(tx, u, passed)
  BY DEF IInv, TypeOK, RowInv
<1>2. tx' = [tx EXCEPT ![t] = [tx[t] EXCEPT !.status = to]]
  BY <1>1 DEF Move
<1>3. [tx[t] EXCEPT !.status = to] \in TxType
  BY <1>1 DEF TxType
<1>4. tx' \in [Txs -> TxType]
  BY <1>1, <1>2, <1>3
<1>5. ASSUME NEW u \in Txs
      PROVE  GoodRow(tx', u, P) /\ (tx[u].status # "none" => tx'[u].status # "none")
  <2>1. CASE u = t
    <3>1. /\ tx'[u].status = to /\ tx'[u].root = tx[u].root
          /\ tx'[u].version = tx[u].version
      BY <1>1, <1>2, <2>1 DEF TxType
    <3> QED
      BY <1>1, <2>1, <3>1 DEF GoodRow
  <2>2. CASE u # t
    <3>1. tx'[u] = tx[u]
      BY <1>1, <1>2, <2>2
    <3> QED
      BY <1>1, <3>1 DEF GoodRow
  <2> QED
    BY <2>1, <2>2
<1> QED
  BY <1>4, <1>5

\* A step that ends a request after it changed the rows
LEMMA RowStep ==
  ASSUME IInv, NEW h \in Handlers, End(h),
         tx' \in [Txs -> TxType], RowInv',
         \A u \in Txs : tx[u].status # "none" => tx'[u].status # "none",
         passed \subseteq passed', passed' \subseteq Txs,
         tried' \subseteq Roots \X (Versions \cup {None}),
         UNCHANGED <<pointer, content, cli, up, changes, crashes>>
  PROVE  IInv'
<1>1. request' = [request EXCEPT ![h] = Idle] /\ request' \in [Handlers -> RequestType]
  BY BundledType DEF IInv, TypeOK, End
<1>2. TypeOK'
  BY <1>1 DEF IInv, TypeOK
<1>3. ASSUME NEW g \in Handlers PROVE GoodCopy(request'[g], tx', passed')
  <2>1. CASE g = h
    BY <1>1, <2>1, IdleCopy DEF IInv, TypeOK
  <2>2. CASE g # h
    <3>1. request'[g] = request[g] /\ GoodCopy(request[g], tx, passed)
      BY <1>1, <2>2 DEF IInv, TypeOK, CopyInv
    <3> QED
      BY <3>1, CopyStays
  <2> QED
    BY <2>1, <2>2
<1>4. CopyInv'
  BY <1>3 DEF CopyInv
<1>5. CliInv' /\ OnlyPassed'
  BY DEF IInv, CliInv, OnlyPassed
<1> QED
  BY <1>2, <1>4, <1>5 DEF IInv

-----------------------------------------------------------------------------
LEMMA AskedInv == ASSUME IInv, NEW h \in Handlers, Asked(h) PROVE IInv'
<1>0. request[h] \in RequestType /\ GoodCopy(request[h], tx, passed) /\ tx \in [Txs -> TxType]
  BY DEF IInv, TypeOK, CopyInv
<1>p. pointer \in PointerType /\ (pointer.by # 0 => pointer.by \in passed)
  BY DEF IInv, TypeOK, OnlyPassed
<1>1. ASSUME NEW op \in {"verify", "contract", "canary", "activate", "rollback"},
             NEW t \in Txs \cup {0}, NEW root \in Roots \cup {None},
             NEW at \in {"inspect", "write"}, Receive(h, op, t, root, at),
             GoodCopy([Idle EXCEPT !.op = op, !.tx = t, !.root = root, !.at = at], tx, passed)
      PROVE  IInv'
  <2> DEFINE r == [Idle EXCEPT !.op = op, !.tx = t, !.root = root, !.at = at]
  <2>1. r \in RequestType
    BY ZenonT(40), BundledType DEF RequestType
  <2>2. request' = [request EXCEPT ![h] = r]
    BY <1>1 DEF Receive
  <2> HIDE DEF r
  <2>3. pointer' = pointer /\ UNCHANGED <<tx, content, cli, up, changes, crashes, passed, tried>>
    BY <1>1 DEF Receive
  <2>4. GoodCopy(r, tx, passed)
    BY <1>1 DEF r
  <2> QED
    BY <2>1, <2>2, <2>3, <2>4, <1>p, CopyStep
<1>2. ASSUME NEW root \in Roots, Verify(h, root) PROVE IInv'
  <2>1. GoodCopy([Idle EXCEPT !.op = "verify", !.tx = 0, !.root = root, !.at = "inspect"],
                 tx, passed)
    BY BundledType DEF GoodCopy, Idle
  <2> QED
    BY <1>1, <1>2, <2>1 DEF Verify
<1>3. ASSUME NEW t \in Txs, ContractTest(h, t) \/ Canary(h, t) PROVE IInv'
  <2>1. tx[t].status # "none" /\ tx[t].root \in Roots
    BY <1>3 DEF ContractTest, Canary, IInv, RowInv, GoodRow
  <2>2. ASSUME NEW op \in {"contract", "canary"}
        PROVE GoodCopy([Idle EXCEPT !.op = op, !.tx = t, !.root = tx[t].root, !.at = "inspect"],
                       tx, passed)
    BY <2>1, BundledType DEF GoodCopy, Idle
  <2> QED
    BY <1>1, <1>3, <2>1, <2>2 DEF ContractTest, Canary
<1>4. ASSUME NEW t \in Txs, Activate(h, t) PROVE IInv'
  <2>1. tx[t].status # "none" /\ tx[t].root \in Roots /\ t \in passed
    BY <1>4 DEF Activate, Ready, IInv, RowInv, GoodRow
  <2>2. GoodCopy([Idle EXCEPT !.op = "activate", !.tx = t, !.root = tx[t].root, !.at = "inspect"],
                 tx, passed)
    BY <2>1, BundledType DEF GoodCopy, Idle
  <2> QED
    BY <1>1, <1>4, <2>1, <2>2 DEF Activate
<1>5. ASSUME NEW t \in Txs, Rollback(h, t) PROVE IInv'
  <2> DEFINE at == IF tx[t].prev = None THEN "write" ELSE "inspect"
  <2>1. tx[t].status # "none" /\ tx[t].prev \in Roots \cup {None}
    BY <1>0, <1>5 DEF Rollback, TxType
  <2>2. GoodCopy([Idle EXCEPT !.op = "rollback", !.tx = t, !.root = tx[t].prev, !.at = at],
                 tx, passed)
    BY <2>1, BundledType DEF GoodCopy, Idle
  <2>3. at \in {"inspect", "write"} /\ Receive(h, "rollback", t, tx[t].prev, at)
    BY <1>5 DEF Rollback
  <2> HIDE DEF at
  <2> QED
    BY <1>1, <2>1, <2>2, <2>3
<1> QED
  BY <1>2, <1>3, <1>4, <1>5 DEF Asked

LEMMA WorkInv == ASSUME IInv, NEW h \in Handlers, Work(h) PROVE IInv'
<1> DEFINE r == request[h]
<1>0. /\ r \in RequestType /\ GoodCopy(r, tx, passed) /\ tx \in [Txs -> TxType]
      /\ request \in [Handlers -> RequestType]
  BY DEF IInv, TypeOK, CopyInv
<1>p. pointer \in PointerType /\ (pointer.by # 0 => pointer.by \in passed)
  BY DEF IInv, TypeOK, OnlyPassed
<1>s. r.saved \in PointerType /\ (r.saved.by # 0 => r.saved.by \in passed)
  BY <1>0 DEF RequestType, GoodCopy
\* A request that ends without a change of the rows
<1>e. ASSUME End(h), pointer' \in PointerType, pointer'.by # 0 => pointer'.by \in passed,
             UNCHANGED <<tx, content, cli, up, changes, crashes, passed, tried>>
      PROVE  IInv'
  BY <1>e, BundledType, IdleCopy, CopyStep DEF End
\* A request that goes on with another copy
<1>c. ASSUME NEW q \in RequestType, request' = [request EXCEPT ![h] = q],
             GoodCopy(q, tx, passed),
             pointer' \in PointerType, pointer'.by # 0 => pointer'.by \in passed,
             UNCHANGED <<tx, content, cli, up, changes, crashes, passed, tried>>
      PROVE  IInv'
  BY <1>c, CopyStep
<1>1. ASSUME Inspect(h) PROVE IInv'
  <2> DEFINE v == content[r.root]
             q == [r EXCEPT !.version = v, !.at = AfterInspection(r.op)]
  <2>1. r.at = "inspect" /\ r.root \in Roots /\ v \in Versions \cup {None}
    BY <1>0, <1>1 DEF Inspect, GoodCopy, IInv, TypeOK
  <2>2. CASE Accepted(r, v)
    <3>1. request' = [request EXCEPT ![h] = q]
      BY <1>0, <1>1, <2>2 DEF Inspect
    <3>2. q \in RequestType
      BY <1>0, <2>1 DEF RequestType, AfterInspection
    <3>3. GoodCopy(q, tx, passed)
      <4>1. /\ q.op = r.op /\ q.tx = r.tx /\ q.root = r.root /\ q.saved = r.saved
            /\ q.version = v /\ q.at = AfterInspection(r.op) /\ q.at # "inspect"
        BY <1>0 DEF RequestType, AfterInspection
      <4>2. r.op \in {"verify", "rollback"} => v \in Versions
        BY <2>1, <2>2 DEF Accepted
      <4> HIDE DEF q, v
      <4> QED
        BY <1>0, <4>1, <4>2 DEF GoodCopy
    <3> HIDE DEF q
    <3> QED
      BY <1>1, <1>p, <1>c, <3>1, <3>2, <3>3 DEF Inspect
  <2>3. CASE ~Accepted(r, v)
    BY <1>1, <1>p, <1>e, <2>3 DEF Inspect
  <2> QED
    BY <2>2, <2>3
<1>2. ASSUME ReadPointer(h) PROVE IInv'
  <2> DEFINE q == [r EXCEPT !.saved = pointer,
                            !.at = IF r.op = "verify" THEN "record" ELSE "write"]
  <2>1. r.at = "read" /\ request' = [request EXCEPT ![h] = q]
    BY <1>0, <1>2 DEF ReadPointer, At
  <2>2. q \in RequestType
    BY <1>0, <1>p DEF RequestType
  <2>3. /\ q.op = r.op /\ q.tx = r.tx /\ q.root = r.root /\ q.saved = pointer
        /\ q.version = r.version /\ q.at = IF r.op = "verify" THEN "record" ELSE "write"
    BY <1>0 DEF RequestType
  <2>r. r.op # "rollback"
    BY <1>2 DEF ReadPointer, At
  <2> HIDE DEF q
  <2>4. GoodCopy(q, tx, passed)
    BY <1>0, <1>p, <2>1, <2>3, <2>r DEF GoodCopy
  <2> QED
    BY <1>2, <1>p, <1>c, <2>1, <2>2, <2>4 DEF ReadPointer
<1>3. ASSUME GiveUp(h) PROVE IInv'
  BY <1>3, <1>p, <1>e DEF GiveUp
<1>4. ASSUME Begin(h) PROVE IInv'
  <2>1. PICK t \in Txs :
          /\ tx[t].status = "none"
          /\ tx' = [tx EXCEPT ![t] = [status |-> "verified", root |-> r.root,
                                      version |-> r.version, prev |-> r.saved.root]]
    BY <1>4 DEF Begin
  <2>2. r.root \in Roots /\ r.version \in Versions /\ r.saved.root \in Roots \cup {None}
    BY <1>0, <1>4, <1>s DEF Begin, At, GoodCopy, PointerType, Bundled
  <2> DEFINE n == [status |-> "verified", root |-> r.root, version |-> r.version,
                   prev |-> r.saved.root]
  <2>3. /\ n \in TxType /\ n.status = "verified" /\ n.root \in Roots /\ n.version \in Versions
        /\ tx' = [tx EXCEPT ![t] = n]
    BY <2>1, <2>2 DEF TxType, Statuses
  <2> HIDE DEF n
  <2>4. tx' \in [Txs -> TxType]
    BY <1>0, <2>3
  <2>5. /\ \A u \in Txs : GoodRow(tx', u, passed)
        /\ \A u \in Txs : tx[u].status # "none" => tx'[u].status # "none"
    BY <1>0, <2>3 DEF IInv, RowInv, GoodRow
  <2>6. passed' = passed /\ tried' = tried /\ RowInv'
    BY <1>4, <2>5 DEF Begin, RowInv
  <2> QED
    BY <1>4, <2>4, <2>5, <2>6, RowStep DEF Begin, IInv, TypeOK
\* A request that ends after it moved its row
<1>m. ASSUME NEW t \in Txs, tx[t].status # "none", NEW to \in Statuses \ {"none"},
             Move(t, to), End(h),
             passed \subseteq passed', passed' \subseteq Txs, to = "canary-passed" => t \in passed',
             tried' \subseteq Roots \X (Versions \cup {None}),
             UNCHANGED <<pointer, content, cli, up, changes, crashes>>
      PROVE  IInv'
  <2>1. /\ tx' \in [Txs -> TxType]
        /\ \A u \in Txs : GoodRow(tx', u, passed')
        /\ \A u \in Txs : tx[u].status # "none" => tx'[u].status # "none"
    BY <1>m, MoveKeeps
  <2>2. RowInv'
    BY <2>1 DEF RowInv
  <2> QED
    BY <1>m, <2>1, <2>2, RowStep
\* Of a status that is left as it is
<1>k. ASSUME NEW t \in Txs, tx[t].status # "none"
      PROVE  /\ tx[t].status \in Statuses \ {"none"}
             /\ tx[t].status = "canary-passed" => t \in passed
  BY <1>0, <1>k DEF TxType, IInv, RowInv, GoodRow
<1>t. tried \subseteq Roots \X (Versions \cup {None}) /\ passed \subseteq Txs
  BY DEF IInv, TypeOK
<1>f. ASSUME Fails(h), r.op \in {"contract", "canary"}, End(h),
             UNCHANGED <<pointer, content, cli, up, changes, crashes, passed, tried>>
      PROVE  IInv'
  <2> DEFINE to == IF CanMove(r.tx, "rejected") THEN "rejected" ELSE tx[r.tx].status
  <2>1. r.tx \in Txs /\ tx[r.tx].status # "none"
    BY <1>0, <1>f DEF GoodCopy
  <2>2. to \in Statuses \ {"none"} /\ (to = "canary-passed" => r.tx \in passed)
    BY <1>k, <2>1 DEF Statuses
  <2>3. Move(r.tx, to)
    BY <1>f DEF Fails
  <2> HIDE DEF to
  <2> QED
    BY <1>f, <1>m, <1>t, <2>1, <2>2, <2>3
<1>5. ASSUME ConcludeContract(h) PROVE IInv'
  <2>0. r.op = "contract"
    BY <1>5 DEF ConcludeContract, At
  <2>1. CASE Passes(h, "contract-tested")
    <3>1. r.tx \in Txs /\ tx[r.tx].status # "none"
      BY <1>0, <2>0 DEF GoodCopy
    <3> QED
      BY <1>5, <1>m, <1>t, <2>1, <3>1 DEF ConcludeContract, Passes, Statuses
  <2>2. CASE Fails(h)
    BY <1>5, <1>f, <2>0, <2>2 DEF ConcludeContract
  <2> QED
    BY <1>5, <2>1, <2>2 DEF ConcludeContract
<1>6. ASSUME ConcludeCanary(h) PROVE IInv'
  <2>0. r.op = "canary" /\ r.tx \in Txs /\ tx[r.tx].status # "none" /\ r.root \in Roots
    BY <1>0, <1>6 DEF ConcludeCanary, At, GoodCopy
  <2>1. CASE /\ Passes(h, "canary-passed")
             /\ passed' = passed \cup {r.tx}
             /\ tried' = tried \cup {<<r.root, content[r.root]>>}
    <3>1. content[r.root] \in Versions \cup {None}
      BY <2>0 DEF IInv, TypeOK
    <3>2. tried' \subseteq Roots \X (Versions \cup {None})
      BY <1>t, <2>0, <2>1, <3>1
    <3>3. Move(r.tx, "canary-passed") /\ "canary-passed" \in Statuses \ {"none"}
      BY <2>1 DEF Passes, Statuses
    <3>4. passed \subseteq passed' /\ passed' \subseteq Txs /\ r.tx \in passed'
      BY <1>t, <2>0, <2>1
    <3> QED
      BY <1>6, <1>m, <2>0, <3>2, <3>3, <3>4 DEF ConcludeCanary
  <2>2. CASE Fails(h) /\ UNCHANGED <<passed, tried>>
    BY <1>6, <1>f, <2>0, <2>2 DEF ConcludeCanary
  <2> QED
    BY <1>6, <2>1, <2>2 DEF ConcludeCanary
<1>7. ASSUME WritePointer(h) PROVE IInv'
  <2>0. r.op = "activate" /\ r.at = "write"
    BY <1>7 DEF WritePointer, At
  <2>1. /\ r.tx \in Txs /\ r.tx \in passed /\ r.root \in Roots
        /\ tx[r.tx].version \in Versions
    BY <1>0, <2>0 DEF GoodCopy, IInv, RowInv, GoodRow
  <2>2. ASSUME NEW at \in {"record", "restore"}
        PROVE  [r EXCEPT !.at = at] \in RequestType /\ GoodCopy([r EXCEPT !.at = at], tx, passed)
    <3> DEFINE q == [r EXCEPT !.at = at]
    <3>1. /\ q \in RequestType /\ q.op = r.op /\ q.tx = r.tx /\ q.root = r.root
          /\ q.saved = r.saved /\ q.version = r.version /\ q.at = at
      BY <1>0 DEF RequestType
    <3> HIDE DEF q
    <3>2. GoodCopy(q, tx, passed)
      BY <1>0, <2>0, <3>1 DEF GoodCopy
    <3> QED
      BY <3>1, <3>2 DEF q
  <2>3. pointer' \in PointerType /\ (pointer'.by # 0 => pointer'.by \in passed)
    <3>1. CASE pointer' = [root |-> r.root, version |-> tx[r.tx].version, by |-> r.tx]
      BY <2>1, <3>1 DEF PointerType
    <3> QED
      BY <1>7, <1>p, <3>1 DEF WritePointer
  <2>4. PICK at \in {"record", "restore"} : request' = [request EXCEPT ![h] = [r EXCEPT !.at = at]]
    BY <1>0, <1>7 DEF WritePointer
  <2> QED
    BY <1>7, <1>c, <2>2, <2>3, <2>4 DEF WritePointer
<1>8. ASSUME RecordActivation(h) PROVE IInv'
  <2>0. r.op = "activate" /\ r.at = "record" /\ r.tx \in Txs /\ tx[r.tx].status # "none"
    BY <1>0, <1>8 DEF RecordActivation, At, GoodCopy
  <2>1. CASE CanMove(r.tx, "activated")
    BY <1>8, <1>m, <1>t, <2>0, <2>1 DEF RecordActivation, Statuses
  <2>2. CASE ~CanMove(r.tx, "activated")
    <3> DEFINE q == [r EXCEPT !.at = "restore"]
    <3>1. /\ q \in RequestType /\ q.op = r.op /\ q.tx = r.tx /\ q.root = r.root
          /\ q.saved = r.saved /\ q.version = r.version /\ q.at = "restore"
          /\ request' = [request EXCEPT ![h] = q]
      BY <1>0, <1>8, <2>2 DEF RequestType, RecordActivation
    <3> HIDE DEF q
    <3>2. GoodCopy(q, tx, passed)
      BY <1>0, <2>0, <3>1 DEF GoodCopy
    <3> QED
      BY <1>8, <1>c, <1>p, <2>2, <3>1, <3>2 DEF RecordActivation
  <2> QED
    BY <2>1, <2>2
<1>9. ASSUME Restore(h) PROVE IInv'
  BY <1>9, <1>e, <1>s DEF Restore
<1>10. ASSUME ReturnPointer(h) PROVE IInv'
  <2>0. r.op = "rollback" /\ r.at = "write"
    BY <1>10 DEF ReturnPointer, At
  <2>1. pointer' \in PointerType /\ pointer'.by = 0
    <3>1. CASE r.root = None
      BY <1>10, <3>1, BundledType DEF ReturnPointer, Returned
    <3>2. CASE r.root # None
      <4>1. r.root \in Roots /\ r.version \in Versions
        BY <1>0, <2>0, <3>2 DEF RequestType, GoodCopy
      <4> QED
        BY <1>10, <3>2, <4>1 DEF ReturnPointer, Returned, PointerType
    <3> QED
      BY <3>1, <3>2
  <2> DEFINE q == [r EXCEPT !.at = "record"]
  <2>2. /\ q \in RequestType /\ q.op = r.op /\ q.tx = r.tx /\ q.root = r.root
        /\ q.saved = r.saved /\ q.version = r.version /\ q.at = "record"
        /\ request' = [request EXCEPT ![h] = q]
    BY <1>0, <1>10 DEF RequestType, ReturnPointer
  <2> HIDE DEF q
  <2>3. GoodCopy(q, tx, passed)
    BY <1>0, <2>0, <2>2 DEF GoodCopy
  <2> QED
    BY <1>10, <1>c, <2>1, <2>2, <2>3 DEF ReturnPointer
<1>11. ASSUME RecordRollback(h) PROVE IInv'
  <2> DEFINE to == IF CanMove(r.tx, "rolled-back") THEN "rolled-back" ELSE tx[r.tx].status
  <2>1. r.tx \in Txs /\ tx[r.tx].status # "none"
    BY <1>0, <1>11 DEF RecordRollback, At, GoodCopy
  <2>2. to \in Statuses \ {"none"} /\ (to = "canary-passed" => r.tx \in passed)
    BY <1>k, <2>1 DEF Statuses
  <2>3. Move(r.tx, to)
    BY <1>11 DEF RecordRollback
  <2> HIDE DEF to
  <2> QED
    BY <1>11, <1>m, <1>t, <2>1, <2>2, <2>3 DEF RecordRollback
<1> QED
  BY <1>1, <1>2, <1>3, <1>4, <1>5, <1>6, <1>7, <1>8, <1>9, <1>10, <1>11 DEF Work

-----------------------------------------------------------------------------
LEMMA NextInv == ASSUME IInv, [Next]_vars PROVE IInv'
<1>0. /\ tx \in [Txs -> TxType] /\ pointer \in PointerType /\ cli \in CliType
      /\ request \in [Handlers -> RequestType]
  BY DEF IInv, TypeOK
\* A step of the command, or none, that leaves rows, requests and history alone
<1>o. ASSUME cli' \in CliType, cli'.at # "record" \/ cli'.tx \in Txs,
             pointer' = pointer \/ pointer' = Bundled,
             UNCHANGED <<tx, content, request, up, changes, passed, tried>>,
             crashes' \in 0 .. MaxCrashes
      PROVE  IInv'
  <2>1. pointer' \in PointerType /\ (pointer'.by # 0 => pointer'.by \in passed)
    BY <1>o, <1>0, BundledType DEF IInv, OnlyPassed
  <2> QED
    BY <1>o, <2>1 DEF IInv, TypeOK, RowInv, CopyInv, CliInv, OnlyPassed
<1>1. ASSUME NEW h \in Handlers, Asked(h) \/ Work(h) PROVE IInv'
  BY <1>1, AskedInv, WorkInv
<1>2. ASSUME CliBegin PROVE IInv'
  <2>1. cli' \in CliType /\ cli'.at = "look"
    BY <1>0, <1>2, BundledType DEF CliBegin, CliType, NoCli
  <2> QED
    BY <1>2, <1>o, <2>1 DEF CliBegin, IInv, TypeOK
<1>3. ASSUME CliLook PROVE IInv'
  <2> DEFINE t == IF cli.seen = Bundled
                  THEN IF \E u \in Txs : Latest(u) THEN CHOOSE u \in Txs : Latest(u) ELSE 0
                  ELSE IF cli.seen.by \in Txs /\ tx[cli.seen.by].status = "activated"
                       THEN cli.seen.by ELSE 0
  <2>1. t \in Txs \cup {0}
    OBVIOUS
  <2>2. cli' = [cli EXCEPT !.at = "clear", !.tx = t]
    BY <1>3 DEF CliLook
  <2> HIDE DEF t
  <2>3. cli' \in CliType /\ cli'.at = "clear"
    BY <1>0, <2>1, <2>2 DEF CliType
  <2> QED
    BY <1>3, <1>o, <2>3 DEF CliLook, IInv, TypeOK
<1>4. ASSUME CliClear PROVE IInv'
  <2>1. cli.tx \in Txs \cup {0}
    BY <1>0 DEF CliType
  <2>2. cli' \in CliType /\ (cli'.at # "record" \/ cli'.tx \in Txs)
    <3>1. CASE cli.tx = 0
      BY <1>4, <3>1, BundledType DEF CliClear
    <3>2. CASE cli.tx # 0
      BY <1>0, <1>4, <2>1, <3>2 DEF CliClear, CliType
    <3> QED
      BY <3>1, <3>2
  <2> QED
    BY <1>4, <1>o, <2>2 DEF CliClear, Cleared, IInv, TypeOK
<1>5. ASSUME CliRecord PROVE IInv'
  <2>0. cli.tx \in Txs
    BY <1>5 DEF CliRecord, IInv, CliInv
  <2>1. CASE CanMove(cli.tx, "rolled-back")
    <3>1. tx[cli.tx].status # "none" /\ "rolled-back" \in Statuses \ {"none"}
      BY <2>1 DEF CanMove, Allowed, Statuses
    <3>2. Move(cli.tx, "rolled-back")
      BY <1>5, <2>1 DEF CliRecord
    <3>3. /\ tx' \in [Txs -> TxType]
          /\ \A u \in Txs : GoodRow(tx', u, passed)
          /\ \A u \in Txs : tx[u].status # "none" => tx'[u].status # "none"
      BY <2>0, <3>1, <3>2, MoveKeeps
    <3>4. UNCHANGED <<pointer, content, request, up, changes, crashes, passed, tried>>
      BY <1>5 DEF CliRecord
    <3>5. \A h \in Handlers : GoodCopy(request[h], tx', passed)
      BY <3>3, CopyStays DEF IInv, CopyInv
    <3>6. cli' \in CliType /\ cli'.at # "record"
      BY <1>5, BundledType DEF CliRecord
    <3> QED
      BY <3>3, <3>4, <3>5, <3>6 DEF IInv, TypeOK, RowInv, CopyInv, CliInv, OnlyPassed
  <2>2. CASE ~CanMove(cli.tx, "rolled-back")
    <3>1. tx' = [tx EXCEPT ![cli.tx] = [tx[cli.tx] EXCEPT !.status = tx[cli.tx].status]]
      BY <1>0, <1>5, <2>2 DEF CliRecord, Move
    <3>2. [tx[cli.tx] EXCEPT !.status = tx[cli.tx].status] = tx[cli.tx]
      BY <1>0, <2>0 DEF TxType
    <3>3. tx' = tx
      BY <1>0, <3>1, <3>2
    <3>4. cli' \in CliType /\ cli'.at # "record"
      BY <1>5, BundledType DEF CliRecord
    <3> QED
      BY <1>5, <1>o, <3>3, <3>4 DEF CliRecord, IInv, TypeOK
  <2> QED
    BY <2>1, <2>2
<1>6. ASSUME NEW root \in Roots, Change(root) PROVE IInv'
  <2>1. content' \in [Roots -> Versions \cup {None}]
    BY <1>6 DEF Change, IInv, TypeOK
  <2>2. changes' \in 0 .. MaxChanges
    BY <1>6, RuntimeAssumption DEF Change, IInv, TypeOK
  <2>3. UNCHANGED <<tx, pointer, request, cli, up, crashes, passed, tried>>
    BY <1>6 DEF Change
  <2> QED
    BY <2>1, <2>2, <2>3 DEF IInv, TypeOK, RowInv, CopyInv, CliInv, OnlyPassed
<1>7. ASSUME Stop PROVE IInv'
  <2>1. crashes' \in 0 .. MaxCrashes
    BY <1>7, RuntimeAssumption DEF Stop, IInv, TypeOK
  <2>2. request' \in [Handlers -> RequestType] /\ \A h \in Handlers : request'[h] = Idle
    BY <1>7, BundledType DEF Stop
  <2>3. \A h \in Handlers : GoodCopy(request'[h], tx, passed)
    BY <2>2, IdleCopy
  <2>4. up' = FALSE /\ UNCHANGED <<tx, pointer, content, cli, changes, passed, tried>>
    BY <1>7 DEF Stop
  <2> QED
    BY <2>1, <2>2, <2>3, <2>4 DEF IInv, TypeOK, RowInv, CopyInv, CliInv, OnlyPassed
<1>8. ASSUME CliCrash PROVE IInv'
  <2>1. crashes' \in 0 .. MaxCrashes
    BY <1>8, RuntimeAssumption DEF CliCrash, IInv, TypeOK
  <2> QED
    BY <1>8, <1>o, <2>1, BundledType DEF CliCrash
<1>9. ASSUME Start PROVE IInv'
  BY <1>9 DEF Start, IInv, TypeOK, RowInv, CopyInv, CliInv, OnlyPassed
<1>10. CASE UNCHANGED vars
  BY <1>10 DEF vars, IInv, TypeOK, RowInv, CopyInv, CliInv, OnlyPassed
<1> QED
  BY <1>1, <1>2, <1>3, <1>4, <1>5, <1>6, <1>7, <1>8, <1>9, <1>10 DEF Next, CliStep

\* The inductive invariant holds in every state that can be reached.
THEOREM Inductive == Spec => []IInv
<1> QED
  BY InitInv, NextInv, PTL DEF Spec

\* Every variable keeps its type; in particular a request never inspects or
\* records a directory that no row names.
THEOREM RuntimeTypes == Spec => []TypeOK
<1>1. IInv => TypeOK
  BY DEF IInv
<1> QED
  BY <1>1, Inductive, PTL

\* No transaction becomes the active runtime unless its canary passed: not by a
\* second request for it, a restore of a failed activation, a command that runs
\* meanwhile, or a crash anywhere between.
THEOREM ActiveHasPassed == Spec => []OnlyPassed
<1>1. IInv => OnlyPassed
  BY DEF IInv
<1> QED
  BY <1>1, Inductive, PTL

-----------------------------------------------------------------------------
(* What is activated was tried *)

\* While no content changed a row names the version its directory still has.
FreshRow(T, t, C, n) == T[t].status # "none" /\ n = 0 => C[T[t].root] = T[t].version

\* A canary went well with the content of the row, or its directory holds another
\* by now, for good.
TriedRow(T, t, C, n, S) ==
  /\ T[t].status # "none"
  /\ \/ <<T[t].root, T[t].version>> \in S
     \/ n >= MaxChanges /\ C[T[t].root] # T[t].version

\* The same of what a request carries from one step to the next
TriedCopy(r, T, C, n, S) ==
  /\ r.op = "verify" /\ r.at \in {"read", "record"} /\ n = 0 => C[r.root] = r.version
  /\ r.op \in {"canary", "activate"} => r.root = T[r.tx].root
  /\ r.op = "activate" /\ r.at # "inspect" => <<T[r.tx].root, T[r.tx].version>> \in S
  /\ r.saved.by # 0 => <<r.saved.root, r.saved.version>> \in S

TriedInv ==
  /\ \A t \in Txs : FreshRow(tx, t, content, changes)
  /\ \A t \in passed : TriedRow(tx, t, content, changes, tried)
  /\ \A h \in Handlers : TriedCopy(request[h], tx, content, changes, tried)
  /\ ActivatedTried

\* Rows are never taken away and keep what they name.
RowKept(T, U) ==
  \A t \in Txs : T[t].status # "none" =>
    U[t].status # "none" /\ U[t].root = T[t].root /\ U[t].version = T[t].version

LEMMA MoveOnly ==
  ASSUME TypeOK, NEW t \in Txs, tx[t].status # "none", NEW to \in Statuses \ {"none"}, Move(t, to)
  PROVE  RowKept(tx, tx') /\ \A u \in Txs : tx'[u].status # "none" => tx[u].status # "none"
<1>1. tx \in [Txs -> TxType]
  BY DEF TypeOK
<1>2. \A u \in Txs : u # t => tx'[u] = tx[u]
  BY <1>1 DEF Move
<1>3. tx'[t].status = to /\ tx'[t].root = tx[t].root /\ tx'[t].version = tx[t].version
  BY <1>1 DEF Move, TxType
<1> QED
  BY <1>2, <1>3 DEF RowKept

\* What a copy carries stays true while rows are kept, more is tried, and no
\* content changes without being counted.
LEMMA TriedStays ==
  ASSUME NEW r, NEW T, NEW U, NEW C, NEW D, NEW n, NEW m, NEW P, NEW S, NEW Z,
         GoodCopy(r, T, P), TriedCopy(r, T, C, n, S), RowKept(T, U), S \subseteq Z,
         m = 0 => n = 0 /\ D = C
  PROVE  TriedCopy(r, U, D, m, Z)
<1>1. r.op \in {"canary", "activate"} =>
        U[r.tx].root = T[r.tx].root /\ U[r.tx].version = T[r.tx].version
  BY DEF GoodCopy, RowKept
<1> QED
  BY <1>1 DEF TriedCopy

\* What a step has to show for the invariant: of the row it adds, the
\* transaction whose canary passed, the pointer and the copies it wrote.
LEMMA TriedStep ==
  ASSUME IInv, TriedInv, RowKept(tx, tx'), tried \subseteq tried',
         changes' = 0 => changes = 0 /\ content' = content,
         changes >= MaxChanges => changes' = changes /\ content' = content,
         \A t \in Txs : tx'[t].status # "none" => tx[t].status # "none"
                                                  \/ FreshRow(tx', t, content', changes'),
         \A t \in passed' : t \in passed \/ TriedRow(tx', t, content', changes', tried'),
         pointer' = pointer \/ (pointer'.by # 0 => <<pointer'.root, pointer'.version>> \in tried'),
         \A h \in Handlers : request'[h] = request[h]
                             \/ TriedCopy(request'[h], tx', content', changes', tried')
  PROVE  TriedInv'
<1>1. ASSUME NEW t \in Txs PROVE FreshRow(tx', t, content', changes')
  BY DEF TriedInv, FreshRow, RowKept
<1>2. ASSUME NEW t \in passed' PROVE TriedRow(tx', t, content', changes', tried')
  <2>1. CASE t \in passed
    <3>1. TriedRow(tx, t, content, changes, tried) /\ t \in Txs
      BY <2>1 DEF TriedInv, IInv, TypeOK
    <3> QED
      BY <3>1 DEF TriedRow, RowKept
  <2> QED
    BY <2>1
<1>3. ASSUME NEW h \in Handlers PROVE TriedCopy(request'[h], tx', content', changes', tried')
  <2>1. CASE request'[h] = request[h]
    <3>1. /\ GoodCopy(request[h], tx, passed)
          /\ TriedCopy(request[h], tx, content, changes, tried)
      BY DEF IInv, CopyInv, TriedInv
    <3> QED
      BY <2>1, <3>1, TriedStays
  <2> QED
    BY <2>1
<1>4. ActivatedTried'
  BY DEF TriedInv, ActivatedTried
<1> QED
  BY <1>1, <1>2, <1>3, <1>4 DEF TriedInv

LEMMA IdleTried == ASSUME NEW T, NEW C, NEW n, NEW S PROVE TriedCopy(Idle, T, C, n, S)
BY BundledType DEF TriedCopy

LEMMA InitTried == Init => TriedInv
<1> SUFFICES ASSUME Init PROVE TriedInv
  OBVIOUS
<1>1. \A t \in Txs : tx[t].status = "none"
  BY DEF Init
<1>2. \A h \in Handlers : request[h] = Idle
  BY DEF Init
<1> QED
  BY <1>1, <1>2, IdleTried, BundledType DEF Init, TriedInv, FreshRow, ActivatedTried

\* The steps of a request, when content changes at most once
LEMMA WorkTried ==
  ASSUME MaxChanges <= 1, IInv, TriedInv, NEW h \in Handlers, Work(h) PROVE TriedInv'
<1> DEFINE r == request[h]
<1>0. /\ r \in RequestType /\ GoodCopy(r, tx, passed) /\ tx \in [Txs -> TxType]
      /\ TriedCopy(r, tx, content, changes, tried)
      /\ request \in [Handlers -> RequestType]
      /\ changes \in Nat
  BY RuntimeAssumption DEF IInv, TypeOK, CopyInv, TriedInv
<1>p. pointer.by # 0 => <<pointer.root, pointer.version>> \in tried
  BY DEF TriedInv, ActivatedTried
\* A step that writes the copy q and perhaps the pointer
<1>c. ASSUME NEW q, request' = [request EXCEPT ![h] = q],
             TriedCopy(q, tx, content, changes, tried),
             pointer' = pointer \/ (pointer'.by # 0 => <<pointer'.root, pointer'.version>> \in tried),
             UNCHANGED <<tx, content, changes, passed, tried>>
      PROVE  TriedInv'
  <2>1. \A g \in Handlers : request'[g] = request[g]
                            \/ TriedCopy(request'[g], tx', content', changes', tried')
    BY <1>0, <1>c
  <2>2. RowKept(tx, tx')
    BY <1>c DEF RowKept
  <2> QED
    BY <1>c, <2>1, <2>2, TriedStep
<1>e. ASSUME End(h),
             pointer' = pointer \/ (pointer'.by # 0 => <<pointer'.root, pointer'.version>> \in tried),
             UNCHANGED <<tx, content, changes, passed, tried>>
      PROVE  TriedInv'
  BY <1>e, <1>c, IdleTried DEF End
\* A step that moves its row and ends
<1>m. ASSUME NEW t \in Txs, tx[t].status # "none", NEW to \in Statuses \ {"none"},
             Move(t, to), End(h), tried \subseteq tried',
             \A u \in passed' : u \in passed \/ TriedRow(tx', u, content', changes', tried'),
             UNCHANGED <<pointer, content, changes>>
      PROVE  TriedInv'
  <2>1. RowKept(tx, tx') /\ \A u \in Txs : tx'[u].status # "none" => tx[u].status # "none"
    BY <1>m, MoveOnly DEF IInv
  <2>2. \A g \in Handlers : request'[g] = request[g]
                            \/ TriedCopy(request'[g], tx', content', changes', tried')
    BY <1>0, <1>m, IdleTried DEF End
  <2> QED
    BY <1>m, <2>1, <2>2, TriedStep
<1>f. ASSUME Fails(h), r.tx \in Txs, tx[r.tx].status # "none", End(h),
             UNCHANGED <<pointer, content, changes, passed, tried>>
      PROVE  TriedInv'
  <2> DEFINE to == IF CanMove(r.tx, "rejected") THEN "rejected" ELSE tx[r.tx].status
  <2>1. to \in Statuses \ {"none"}
    BY <1>0, <1>f DEF Statuses, TxType
  <2>2. Move(r.tx, to)
    BY <1>f DEF Fails
  <2> HIDE DEF to
  <2> QED
    BY <1>f, <1>m, <2>1, <2>2
<1>1. ASSUME Inspect(h) PROVE TriedInv'
  <2> DEFINE v == content[r.root]
             q == [r EXCEPT !.version = v, !.at = AfterInspection(r.op)]
  <2>1. CASE Accepted(r, v)
    <3>1. request' = [request EXCEPT ![h] = q]
      BY <1>0, <1>1, <2>1 DEF Inspect
    <3>2. /\ q.op = r.op /\ q.tx = r.tx /\ q.root = r.root /\ q.saved = r.saved
          /\ q.version = v /\ r.at = "inspect"
      BY <1>0, <1>1 DEF RequestType, Inspect
    <3>3. r.op = "activate" => <<tx[r.tx].root, tx[r.tx].version>> \in tried
      <4> SUFFICES ASSUME r.op = "activate" PROVE <<tx[r.tx].root, tx[r.tx].version>> \in tried
        OBVIOUS
      <4>1. r.tx \in passed /\ r.root = tx[r.tx].root /\ v = tx[r.tx].version
        BY <1>0, <2>1 DEF GoodCopy, TriedCopy, Accepted
      <4>2. TriedRow(tx, r.tx, content, changes, tried)
        BY <4>1 DEF TriedInv
      <4> QED
        BY <4>1, <4>2 DEF TriedRow
    <3> HIDE DEF q
    <3>4. TriedCopy(q, tx, content, changes, tried)
      BY <1>0, <3>2, <3>3 DEF TriedCopy
    <3> QED
      BY <1>1, <1>c, <3>1, <3>4 DEF Inspect
  <2>2. CASE ~Accepted(r, v)
    BY <1>1, <1>e, <2>2 DEF Inspect
  <2> QED
    BY <2>1, <2>2
<1>2. ASSUME ReadPointer(h) PROVE TriedInv'
  <2> DEFINE q == [r EXCEPT !.saved = pointer,
                            !.at = IF r.op = "verify" THEN "record" ELSE "write"]
  <2>1. r.at = "read" /\ request' = [request EXCEPT ![h] = q]
    BY <1>0, <1>2 DEF ReadPointer, At
  <2>2. /\ q.op = r.op /\ q.tx = r.tx /\ q.root = r.root /\ q.saved = pointer
        /\ q.version = r.version
    BY <1>0 DEF RequestType
  <2> HIDE DEF q
  <2>3. TriedCopy(q, tx, content, changes, tried)
    BY <1>0, <1>p, <2>1, <2>2 DEF TriedCopy
  <2> QED
    BY <1>2, <1>c, <2>1, <2>3 DEF ReadPointer
<1>3. ASSUME GiveUp(h) PROVE TriedInv'
  BY <1>3, <1>e DEF GiveUp
<1>4. ASSUME Begin(h) PROVE TriedInv'
  <2> DEFINE n == [status |-> "verified", root |-> r.root, version |-> r.version,
                   prev |-> r.saved.root]
  <2>1. PICK t \in Txs : tx[t].status = "none" /\ tx' = [tx EXCEPT ![t] = n]
    BY <1>4 DEF Begin
  <2>2. r.op = "verify" /\ r.at = "record" /\ n.root = r.root /\ n.version = r.version
    BY <1>4 DEF Begin, At
  <2> HIDE DEF n
  <2>3. tx'[t] = n /\ \A u \in Txs : u # t => tx'[u] = tx[u]
    BY <1>0, <2>1
  <2>4. RowKept(tx, tx')
    BY <2>1, <2>3 DEF RowKept
  <2>5. End(h) /\ UNCHANGED <<pointer, content, changes, passed, tried>>
    BY <1>4 DEF Begin
  <2>6. FreshRow(tx', t, content', changes')
    BY <1>0, <2>2, <2>3, <2>5 DEF FreshRow, TriedCopy
  <2>7. \A g \in Handlers : request'[g] = request[g]
                            \/ TriedCopy(request'[g], tx', content', changes', tried')
    BY <1>0, <2>5, IdleTried DEF End
  <2>8. \A u \in Txs : tx'[u].status # "none" => tx[u].status # "none"
                                                  \/ FreshRow(tx', u, content', changes')
    BY <2>3, <2>6
  <2> QED
    BY <2>4, <2>5, <2>7, <2>8, TriedStep
<1>5. ASSUME ConcludeContract(h) PROVE TriedInv'
  <2>1. r.tx \in Txs /\ tx[r.tx].status # "none"
    BY <1>0, <1>5 DEF ConcludeContract, At, GoodCopy
  <2>2. CASE Passes(h, "contract-tested")
    BY <1>5, <1>m, <2>1, <2>2 DEF ConcludeContract, Passes, Statuses
  <2>3. CASE Fails(h)
    BY <1>5, <1>f, <2>1, <2>3 DEF ConcludeContract
  <2> QED
    BY <1>5, <2>2, <2>3 DEF ConcludeContract
<1>6. ASSUME ConcludeCanary(h) PROVE TriedInv'
  <2>0. r.op = "canary" /\ r.tx \in Txs /\ tx[r.tx].status # "none" /\ r.root = tx[r.tx].root
    BY <1>0, <1>6 DEF ConcludeCanary, At, GoodCopy, TriedCopy
  <2>1. CASE /\ Passes(h, "canary-passed")
             /\ passed' = passed \cup {r.tx}
             /\ tried' = tried \cup {<<r.root, content[r.root]>>}
    <3>1. Move(r.tx, "canary-passed") /\ "canary-passed" \in Statuses \ {"none"}
      BY <2>1 DEF Passes, Statuses
    <3>2. RowKept(tx, tx')
      BY <2>0, <3>1, MoveOnly DEF IInv
    <3>3. FreshRow(tx, r.tx, content, changes)
      BY <2>0 DEF TriedInv
    <3>4. End(h) /\ UNCHANGED <<pointer, content, changes>>
      BY <1>6 DEF ConcludeCanary
    <3>5. TriedRow(tx', r.tx, content', changes', tried')
      <4>1. /\ tx'[r.tx].status # "none" /\ tx'[r.tx].root = r.root
            /\ tx'[r.tx].version = tx[r.tx].version
        BY <2>0, <3>2 DEF RowKept
      <4>2. CASE content[r.root] = tx[r.tx].version
        BY <2>1, <4>1, <4>2 DEF TriedRow
      <4>3. CASE content[r.root] # tx[r.tx].version
        <5>1. changes >= MaxChanges
          BY <1>0, <2>0, <3>3, <4>3, RuntimeAssumption DEF FreshRow
        <5> QED
          BY <3>4, <4>1, <4>3, <5>1 DEF TriedRow
      <4> QED
        BY <4>2, <4>3
    <3> QED
      BY <1>m, <2>0, <2>1, <3>1, <3>4, <3>5
  <2>2. CASE Fails(h) /\ UNCHANGED <<passed, tried>>
    BY <1>6, <1>f, <2>0, <2>2 DEF ConcludeCanary
  <2> QED
    BY <1>6, <2>1, <2>2 DEF ConcludeCanary
\* A copy that only goes on
<1>q. ASSUME NEW at \in {"record", "restore"}, r.at \in {"write", "record"}
      PROVE  TriedCopy([r EXCEPT !.at = at], tx, content, changes, tried)
             \/ r.op = "verify"
  <2> DEFINE q == [r EXCEPT !.at = at]
  <2>1. /\ q.op = r.op /\ q.tx = r.tx /\ q.root = r.root /\ q.saved = r.saved
        /\ q.version = r.version /\ q.at = at
    BY <1>0 DEF RequestType
  <2> HIDE DEF q
  <2>2. TriedCopy(q, tx, content, changes, tried) \/ r.op = "verify"
    BY <1>0, <1>q, <2>1 DEF TriedCopy
  <2> QED
    BY <2>2 DEF q
<1>7. ASSUME WritePointer(h) PROVE TriedInv'
  <2>0. r.op = "activate" /\ r.at = "write"
    BY <1>7 DEF WritePointer, At
  <2>1. r.root = tx[r.tx].root /\ <<tx[r.tx].root, tx[r.tx].version>> \in tried
    BY <1>0, <2>0 DEF TriedCopy
  <2>2. pointer' = pointer \/ (pointer'.by # 0 => <<pointer'.root, pointer'.version>> \in tried)
    BY <1>7, <2>1 DEF WritePointer
  <2>3. PICK at \in {"record", "restore"} : request' = [request EXCEPT ![h] = [r EXCEPT !.at = at]]
    BY <1>0, <1>7 DEF WritePointer
  <2> QED
    BY <1>7, <1>c, <1>q, <2>0, <2>2, <2>3 DEF WritePointer
<1>8. ASSUME RecordActivation(h) PROVE TriedInv'
  <2>0. r.op = "activate" /\ r.at = "record" /\ r.tx \in Txs /\ tx[r.tx].status # "none"
    BY <1>0, <1>8 DEF RecordActivation, At, GoodCopy
  <2>1. CASE CanMove(r.tx, "activated")
    BY <1>8, <1>m, <2>0, <2>1 DEF RecordActivation, Statuses
  <2>2. CASE ~CanMove(r.tx, "activated")
    <3>1. request' = [request EXCEPT ![h] = [r EXCEPT !.at = "restore"]]
      BY <1>0, <1>8, <2>2 DEF RecordActivation
    <3> QED
      BY <1>8, <1>c, <1>q, <2>0, <2>2, <3>1 DEF RecordActivation
  <2> QED
    BY <2>1, <2>2
<1>9. ASSUME Restore(h) PROVE TriedInv'
  BY <1>0, <1>9, <1>e DEF Restore, TriedCopy
<1>10. ASSUME ReturnPointer(h) PROVE TriedInv'
  <2>0. r.op = "rollback" /\ r.at = "write"
    BY <1>10 DEF ReturnPointer, At
  <2>1. pointer'.by = 0
    BY <1>10, BundledType DEF ReturnPointer, Returned
  <2>2. request' = [request EXCEPT ![h] = [r EXCEPT !.at = "record"]]
    BY <1>0, <1>10 DEF ReturnPointer
  <2> QED
    BY <1>10, <1>c, <1>q, <2>0, <2>1, <2>2 DEF ReturnPointer
<1>11. ASSUME RecordRollback(h) PROVE TriedInv'
  <2> DEFINE to == IF CanMove(r.tx, "rolled-back") THEN "rolled-back" ELSE tx[r.tx].status
  <2>1. r.tx \in Txs /\ tx[r.tx].status # "none"
    BY <1>0, <1>11 DEF RecordRollback, At, GoodCopy
  <2>2. to \in Statuses \ {"none"}
    BY <1>0, <2>1 DEF Statuses, TxType
  <2>3. Move(r.tx, to)
    BY <1>11 DEF RecordRollback
  <2> HIDE DEF to
  <2> QED
    BY <1>11, <1>m, <2>1, <2>2, <2>3 DEF RecordRollback
<1> QED
  BY <1>1, <1>2, <1>3, <1>4, <1>5, <1>6, <1>7, <1>8, <1>9, <1>10, <1>11 DEF Work

LEMMA NextTried ==
  ASSUME MaxChanges <= 1, IInv, TriedInv, [Next]_vars PROVE TriedInv'
<1>0. /\ tx \in [Txs -> TxType] /\ request \in [Handlers -> RequestType]
      /\ changes \in Nat /\ content \in [Roots -> Versions \cup {None}]
  BY RuntimeAssumption DEF IInv, TypeOK
\* A step that leaves rows, content and history alone and clears pointer or copies
<1>k. ASSUME UNCHANGED <<tx, content, changes, passed, tried>>,
             pointer' = pointer \/ pointer' = Bundled,
             \A h \in Handlers : request'[h] = request[h] \/ request'[h] = Idle
      PROVE  TriedInv'
  <2>1. RowKept(tx, tx')
    BY <1>k DEF RowKept
  <2>2. pointer' = pointer \/ (pointer'.by # 0 => <<pointer'.root, pointer'.version>> \in tried')
    BY <1>k, BundledType
  <2>3. \A h \in Handlers : request'[h] = request[h]
                            \/ TriedCopy(request'[h], tx', content', changes', tried')
    BY <1>k, IdleTried
  <2> QED
    BY <1>k, <2>1, <2>2, <2>3, TriedStep
<1>1. ASSUME NEW h \in Handlers, Asked(h) PROVE TriedInv'
  <2>1. ASSUME NEW op \in {"verify", "contract", "canary", "activate", "rollback"},
               NEW t \in Txs \cup {0}, NEW root, NEW at \in {"inspect", "write"},
               Receive(h, op, t, root, at),
               op = "activate" => at = "inspect",
               op \in {"canary", "activate"} => root = tx[t].root
        PROVE  TriedInv'
    <3> DEFINE q == [Idle EXCEPT !.op = op, !.tx = t, !.root = root, !.at = at]
    <3>1. q.op = op /\ q.tx = t /\ q.root = root /\ q.at = at /\ q.saved.by = 0
      BY DEF Idle, Bundled
    <3>2. request' = [request EXCEPT ![h] = q]
      BY <2>1 DEF Receive
    <3> HIDE DEF q
    <3>3. TriedCopy(q, tx, content, changes, tried)
      BY <2>1, <3>1 DEF TriedCopy
    <3>4. UNCHANGED <<tx, pointer, content, changes, passed, tried>>
      BY <2>1 DEF Receive
    <3>5. \A g \in Handlers : request'[g] = request[g]
                              \/ TriedCopy(request'[g], tx', content', changes', tried')
      BY <1>0, <3>2, <3>3, <3>4
    <3>6. RowKept(tx, tx')
      BY <3>4 DEF RowKept
    <3> QED
      BY <3>4, <3>5, <3>6, TriedStep
  <2>2. ASSUME NEW root \in Roots, Verify(h, root) PROVE TriedInv'
    BY <2>1, <2>2 DEF Verify
  <2>3. ASSUME NEW t \in Txs, ContractTest(h, t) \/ Canary(h, t) \/ Activate(h, t) PROVE TriedInv'
    BY <2>1, <2>3 DEF ContractTest, Canary, Activate
  <2>4. ASSUME NEW t \in Txs, Rollback(h, t) PROVE TriedInv'
    <3>1. \E at \in {"inspect", "write"} : Receive(h, "rollback", t, tx[t].prev, at)
      BY <2>4 DEF Rollback
    <3> QED
      BY <2>1, <3>1
  <2> QED
    BY <1>1, <2>2, <2>3, <2>4 DEF Asked
<1>2. ASSUME NEW h \in Handlers, Work(h) PROVE TriedInv'
  BY <1>2, WorkTried
<1>3. CASE CliBegin \/ CliLook \/ CliClear \/ CliCrash \/ Start \/ UNCHANGED vars
  BY <1>k, <1>3 DEF CliBegin, CliLook, CliClear, Cleared, CliCrash, Start, vars
<1>4. CASE Stop
  BY <1>k, <1>4 DEF Stop
<1>5. CASE CliRecord
  <2> DEFINE to == IF CanMove(cli.tx, "rolled-back") THEN "rolled-back" ELSE tx[cli.tx].status
  <2>1. cli.tx \in Txs /\ Move(cli.tx, to)
    BY <1>5 DEF CliRecord, IInv, CliInv
  <2>2. to = tx[cli.tx].status \/ (to = "rolled-back" /\ tx[cli.tx].status # "none")
    BY DEF CanMove, Allowed
  <2> HIDE DEF to
  <2>3. RowKept(tx, tx') /\ \A u \in Txs : tx'[u].status # "none" => tx[u].status # "none"
    <3>1. CASE tx[cli.tx].status # "none"
      <4>1. to \in Statuses \ {"none"}
        BY <1>0, <2>1, <2>2, <3>1 DEF TxType, Statuses
      <4> QED
        BY <2>1, <3>1, <4>1, MoveOnly DEF IInv
    <3>2. CASE tx[cli.tx].status = "none"
      BY <1>0, <2>1, <2>2, <3>2 DEF Move, RowKept
    <3> QED
      BY <3>1, <3>2
  <2>4. UNCHANGED <<pointer, content, request, changes, passed, tried>>
    BY <1>5 DEF CliRecord
  <2> QED
    BY <2>3, <2>4, TriedStep
<1>6. ASSUME NEW root \in Roots, Change(root) PROVE TriedInv'
  <2>1. /\ UNCHANGED <<tx, pointer, request, passed, tried>>
        /\ changes < MaxChanges /\ changes' = changes + 1
    BY <1>6 DEF Change
  <2>2. changes' # 0 /\ ~(changes >= MaxChanges)
    BY <1>0, <2>1, RuntimeAssumption
  <2>3. RowKept(tx, tx')
    BY <2>1 DEF RowKept
  <2> QED
    BY <2>1, <2>2, <2>3, TriedStep
<1> QED
  BY <1>1, <1>2, <1>3, <1>4, <1>5, <1>6 DEF Next, CliStep

\* What an activation points to is the very content its canary went well with,
\* when content changes once at most: the inspection of the activation asks for
\* the version of the row, so that a canary that met another one would have to be
\* followed by a second change, back.  Any number of requests and the command may
\* run at a time.
THEOREM ActivatesTheTried == ASSUME MaxChanges <= 1 PROVE Spec => []ActivatedTried
<1>1. TriedInv => ActivatedTried
  BY DEF TriedInv
<1> QED
  BY InitInv, NextInv, InitTried, NextTried, <1>1, PTL DEF Spec

-----------------------------------------------------------------------------
(* What was rolled back stays so *)

\* One request at a time: the row of an activation stays as it was when it came,
\* and what it would restore, or what a rollback has replaced, is not taken back.
BackCopy(r, T, p) ==
  /\ r.op = "activate" => T[r.tx].status = "canary-passed"
  /\ r.op = "activate" /\ r.saved.by # 0 => T[r.saved.by].status # "rolled-back"
  /\ r.op = "rollback" /\ r.at = "record" => p.by = 0

BackInv ==
  /\ \A h \in Handlers : BackCopy(request[h], tx, pointer)
  /\ cli.at = "record" => pointer.by = 0
  /\ up => cli = NoCli
  /\ ~up => \A h \in Handlers : request[h] = Idle
  /\ RollbackStands

Alone == ~CliOnline /\ \A g, h \in Handlers : g = h

LEMMA IdleBack == ASSUME NEW T, NEW p PROVE BackCopy(Idle, T, p)
BY BundledType DEF BackCopy

LEMMA NoZero == 0 \notin Txs
BY RuntimeAssumption DEF Txs

\* A step of the only request: the command is not there.
LEMMA OwnStep ==
  ASSUME Alone, BackInv, up, NEW h \in Handlers, UNCHANGED <<cli, up>>,
         BackCopy(request'[h], tx', pointer'), RollbackStands'
  PROVE  BackInv'
BY BundledType DEF Alone, BackInv

\* A step while no request runs
LEMMA OtherStep ==
  ASSUME \A h \in Handlers : request'[h] = Idle, RollbackStands',
         cli'.at = "record" => pointer'.by = 0, up' => cli' = NoCli
  PROVE  BackInv'
BY IdleBack DEF BackInv

LEMMA InitBack == Init => BackInv
<1> SUFFICES ASSUME Init PROVE BackInv
  OBVIOUS
<1>1. \A h \in Handlers : request[h] = Idle
  BY DEF Init
<1>2. RollbackStands
  BY DEF Init, RollbackStands
<1> QED
  BY <1>1, <1>2, IdleBack, BundledType DEF Init, BackInv

LEMMA WorkBack ==
  ASSUME Alone, IInv, BackInv, NEW h \in Handlers, Asked(h) \/ Work(h) PROVE BackInv'
<1> DEFINE r == request[h]
<1>0. /\ r \in RequestType /\ GoodCopy(r, tx, passed) /\ tx \in [Txs -> TxType]
      /\ request \in [Handlers -> RequestType]
      /\ BackCopy(r, tx, pointer) /\ pointer \in PointerType
  BY DEF IInv, TypeOK, CopyInv, BackInv
<1>u. up /\ UNCHANGED <<cli, up>>
  <2>1. CASE Asked(h)
    BY <2>1 DEF Asked, Verify, ContractTest, Canary, Activate, Rollback, Receive
  <2>2. CASE Work(h)
    <3>1. r # Idle
      BY <2>2, BundledType
         DEF Work, Inspect, ReadPointer, GiveUp, Begin, ConcludeContract, ConcludeCanary,
             WritePointer, RecordActivation, Restore, ReturnPointer, RecordRollback, At
    <3>2. up
      BY <3>1 DEF BackInv
    <3>3. UNCHANGED <<cli, up>>
      BY <2>2
         DEF Work, Inspect, ReadPointer, GiveUp, Begin, ConcludeContract, ConcludeCanary,
             WritePointer, RecordActivation, Restore, ReturnPointer, RecordRollback
    <3> QED
      BY <3>2, <3>3
  <2> QED
    BY <2>1, <2>2
<1>k. ASSUME BackCopy(request'[h], tx', pointer'), RollbackStands' PROVE BackInv'
  BY <1>k, <1>u, OwnStep
<1>s. pointer.by # 0 => tx[pointer.by].status # "rolled-back"
  BY <1>0, BundledType DEF BackInv, RollbackStands, PointerType
<1>e. ASSUME End(h), tx' = tx, pointer' = pointer PROVE BackInv'
  <2>1. request'[h] = Idle
    BY <1>0, <1>e DEF End
  <2>2. RollbackStands'
    BY <1>e DEF BackInv, RollbackStands
  <2> QED
    BY <1>k, <2>1, <2>2, IdleBack
\* The end of a request that moved its row, but not back
<1>m. ASSUME End(h), pointer' = pointer, NEW to, Move(r.tx, to),
             to # "rolled-back" \/ to = tx[r.tx].status
      PROVE  BackInv'
  <2>1. request'[h] = Idle
    BY <1>0, <1>m DEF End
  <2>2. \A t \in Txs : tx'[t].status = "rolled-back" => tx[t].status = "rolled-back"
    BY <1>0, <1>m DEF Move, TxType
  <2>3. RollbackStands'
    BY <1>m, <2>2 DEF BackInv, RollbackStands
  <2> QED
    BY <1>k, <2>1, <2>3, IdleBack
\* A copy that goes on
<1>c. ASSUME NEW q, request' = [request EXCEPT ![h] = q], BackCopy(q, tx, pointer),
             UNCHANGED <<tx, pointer>>
      PROVE  BackInv'
  <2>1. request'[h] = q /\ RollbackStands'
    BY <1>0, <1>c DEF BackInv, RollbackStands
  <2> QED
    BY <1>k, <1>c, <2>1
<1>1. CASE Asked(h)
  <2>1. ASSUME NEW op, NEW t, NEW root, NEW at, Receive(h, op, t, root, at),
               op = "activate" => tx[t].status = "canary-passed",
               at # "record"
        PROVE  BackInv'
    <3> DEFINE q == [Idle EXCEPT !.op = op, !.tx = t, !.root = root, !.at = at]
    <3>1. q.op = op /\ q.tx = t /\ q.at = at /\ q.saved.by = 0
      BY DEF Idle, Bundled
    <3>2. request' = [request EXCEPT ![h] = q] /\ UNCHANGED <<tx, pointer>>
      BY <2>1 DEF Receive
    <3> HIDE DEF q
    <3>3. BackCopy(q, tx, pointer)
      BY <2>1, <3>1 DEF BackCopy
    <3> QED
      BY <1>c, <3>2, <3>3
  <2>2. ASSUME NEW root \in Roots, Verify(h, root) PROVE BackInv'
    BY <2>1, <2>2 DEF Verify
  <2>3. ASSUME NEW t \in Txs, ContractTest(h, t) \/ Canary(h, t) \/ Activate(h, t) PROVE BackInv'
    BY <2>1, <2>3 DEF ContractTest, Canary, Activate, Ready
  <2>4. ASSUME NEW t \in Txs, Rollback(h, t) PROVE BackInv'
    BY <2>1, <2>4 DEF Rollback
  <2> QED
    BY <1>1, <2>2, <2>3, <2>4 DEF Asked
<1>2. CASE Inspect(h)
  <2> DEFINE v == content[r.root]
             q == [r EXCEPT !.version = v, !.at = AfterInspection(r.op)]
  <2>1. CASE Accepted(r, v)
    <3>1. request' = [request EXCEPT ![h] = q]
      BY <1>0, <1>2, <2>1 DEF Inspect
    <3>2. q.op = r.op /\ q.tx = r.tx /\ q.saved = r.saved /\ q.at = AfterInspection(r.op)
      BY <1>0 DEF RequestType
    <3> HIDE DEF q
    <3>3. BackCopy(q, tx, pointer)
      BY <1>0, <3>2 DEF BackCopy, AfterInspection
    <3> QED
      BY <1>2, <1>c, <3>1, <3>3 DEF Inspect
  <2>2. CASE ~Accepted(r, v)
    BY <1>2, <1>e, <2>2 DEF Inspect
  <2> QED
    BY <2>1, <2>2
<1>3. CASE ReadPointer(h)
  <2> DEFINE q == [r EXCEPT !.saved = pointer,
                            !.at = IF r.op = "verify" THEN "record" ELSE "write"]
  <2>1. request' = [request EXCEPT ![h] = q] /\ r.op # "rollback"
    BY <1>0, <1>3 DEF ReadPointer, At
  <2>2. q.op = r.op /\ q.tx = r.tx /\ q.saved = pointer
    BY <1>0 DEF RequestType
  <2> HIDE DEF q
  <2>3. BackCopy(q, tx, pointer)
    BY <1>0, <1>s, <2>1, <2>2 DEF BackCopy
  <2> QED
    BY <1>3, <1>c, <2>1, <2>3 DEF ReadPointer
<1>4. CASE GiveUp(h)
  BY <1>4, <1>e DEF GiveUp
<1>5. CASE Begin(h)
  <2> DEFINE n == [status |-> "verified", root |-> r.root, version |-> r.version,
                   prev |-> r.saved.root]
  <2>1. PICK t \in Txs : tx' = [tx EXCEPT ![t] = n]
    BY <1>5 DEF Begin
  <2>2. n.status = "verified"
    OBVIOUS
  <2> HIDE DEF n
  <2>3. \A u \in Txs : tx'[u].status = "rolled-back" => tx[u].status = "rolled-back"
    BY <1>0, <2>1, <2>2
  <2>4. request'[h] = Idle /\ pointer' = pointer
    BY <1>0, <1>5 DEF Begin, End
  <2>5. RollbackStands'
    BY <2>3, <2>4 DEF BackInv, RollbackStands
  <2> QED
    BY <1>k, <2>4, <2>5, IdleBack
<1>f. ASSUME Fails(h), End(h), pointer' = pointer PROVE BackInv'
  <2> DEFINE to == IF CanMove(r.tx, "rejected") THEN "rejected" ELSE tx[r.tx].status
  <2>1. Move(r.tx, to) /\ (to # "rolled-back" \/ to = tx[r.tx].status)
    BY <1>f DEF Fails
  <2> HIDE DEF to
  <2> QED
    BY <1>f, <1>m, <2>1
<1>6. CASE ConcludeContract(h)
  <2>1. End(h) /\ pointer' = pointer /\ (Move(r.tx, "contract-tested") \/ Fails(h))
    BY <1>6 DEF ConcludeContract, Passes
  <2> QED
    BY <1>f, <1>m, <2>1
<1>7. CASE ConcludeCanary(h)
  <2>1. End(h) /\ pointer' = pointer /\ (Move(r.tx, "canary-passed") \/ Fails(h))
    BY <1>7 DEF ConcludeCanary, Passes
  <2> QED
    BY <1>f, <1>m, <2>1
\* An activation that goes on
<1>q. ASSUME NEW at, r.op = "activate", tx' = tx
      PROVE  BackCopy([r EXCEPT !.at = at], tx', pointer')
  <2> DEFINE q == [r EXCEPT !.at = at]
  <2>1. q.op = r.op /\ q.tx = r.tx /\ q.saved = r.saved
    BY <1>0 DEF RequestType
  <2> HIDE DEF q
  <2>2. BackCopy(q, tx', pointer')
    BY <1>0, <1>q, <2>1 DEF BackCopy
  <2> QED
    BY <2>2 DEF q
<1>8. CASE WritePointer(h)
  <2>0. r.op = "activate" /\ tx' = tx /\ r.tx \in Txs /\ tx[r.tx].status = "canary-passed"
    BY <1>0, <1>8 DEF WritePointer, At, GoodCopy, BackCopy
  <2>1. PICK at \in {"record", "restore"} : request'[h] = [r EXCEPT !.at = at]
    BY <1>0, <1>8 DEF WritePointer
  <2>2. pointer' = pointer \/ pointer'.by = r.tx
    BY <1>8 DEF WritePointer
  <2>3. RollbackStands'
    BY <2>0, <2>2 DEF BackInv, RollbackStands
  <2>4. BackCopy(request'[h], tx', pointer')
    BY <1>q, <2>0, <2>1
  <2> QED
    BY <1>k, <2>3, <2>4
<1>9. CASE RecordActivation(h)
  <2>0. r.op = "activate" /\ pointer' = pointer
    BY <1>9 DEF RecordActivation, At
  <2>1. CASE CanMove(r.tx, "activated")
    BY <1>9, <1>m, <2>0, <2>1 DEF RecordActivation
  <2>2. CASE ~CanMove(r.tx, "activated")
    <3>1. request'[h] = [r EXCEPT !.at = "restore"] /\ tx' = tx
      BY <1>0, <1>9, <2>2 DEF RecordActivation
    <3>2. RollbackStands'
      BY <2>0, <3>1 DEF BackInv, RollbackStands
    <3>3. BackCopy(request'[h], tx', pointer')
      BY <1>q, <2>0, <3>1
    <3> QED
      BY <1>k, <3>2, <3>3
  <2> QED
    BY <2>1, <2>2
<1>10. CASE Restore(h)
  <2>1. /\ r.op = "activate" /\ pointer' = r.saved /\ tx' = tx
        /\ request'[h] = Idle
    BY <1>0, <1>10 DEF Restore, At, End
  <2>2. RollbackStands'
    BY <1>0, <2>1, NoZero DEF BackCopy, RollbackStands
  <2> QED
    BY <1>k, <2>1, <2>2, IdleBack
<1>11. CASE ReturnPointer(h)
  <2>1. pointer'.by = 0 /\ tx' = tx /\ r.op = "rollback"
    BY <1>11, BundledType DEF ReturnPointer, Returned, At
  <2>2. request'[h] = [r EXCEPT !.at = "record"]
    BY <1>0, <1>11 DEF ReturnPointer
  <2>3. request'[h].op = "rollback"
    BY <1>0, <2>1, <2>2 DEF RequestType
  <2>4. BackCopy(request'[h], tx', pointer')
    BY <2>1, <2>3 DEF BackCopy
  <2>5. RollbackStands'
    BY <2>1, NoZero DEF RollbackStands
  <2> QED
    BY <1>k, <2>4, <2>5
<1>12. CASE RecordRollback(h)
  <2>1. pointer' = pointer /\ pointer.by = 0 /\ request'[h] = Idle
    BY <1>0, <1>12 DEF RecordRollback, At, End, BackCopy
  <2>2. RollbackStands'
    BY <2>1, NoZero DEF RollbackStands
  <2> QED
    BY <1>k, <2>1, <2>2, IdleBack
<1> QED
  BY <1>1, <1>2, <1>3, <1>4, <1>5, <1>6, <1>7, <1>8, <1>9, <1>10, <1>11, <1>12 DEF Work

LEMMA NextBack ==
  ASSUME Alone, IInv, BackInv, [Next]_vars PROVE BackInv'
<1>0. tx \in [Txs -> TxType]
  BY DEF IInv, TypeOK
<1>1. ASSUME NEW h \in Handlers, Asked(h) \/ Work(h) PROVE BackInv'
  BY <1>1, WorkBack
\* A step of the command, while the server is down
<1>o. ASSUME cli # NoCli \/ ~up, UNCHANGED <<request, up>>, RollbackStands',
             cli'.at = "record" => pointer'.by = 0
      PROVE  BackInv'
  BY <1>o, OtherStep DEF BackInv
<1>2. CASE CliBegin
  <2>1. ~up /\ cli'.at = "look" /\ UNCHANGED <<tx, pointer, request, up>>
    BY <1>2 DEF CliBegin, Alone, NoCli
  <2> QED
    BY <1>o, <2>1 DEF BackInv, RollbackStands
<1>3. CASE CliLook
  <2>1. cli # NoCli /\ UNCHANGED <<tx, pointer, request, up>>
    BY <1>3, BundledType DEF CliLook
  <2>2. cli'.at = "clear"
    BY <1>3 DEF CliLook, IInv, TypeOK, CliType
  <2> QED
    BY <1>o, <2>1, <2>2 DEF BackInv, RollbackStands
<1>4. CASE CliClear
  <2>1. cli # NoCli /\ pointer'.by = 0 /\ UNCHANGED <<request, up>>
    BY <1>4, BundledType DEF CliClear, Cleared
  <2>2. RollbackStands'
    BY <2>1, NoZero DEF RollbackStands
  <2> QED
    BY <1>o, <2>1, <2>2
<1>5. CASE CliRecord
  <2>1. cli # NoCli /\ pointer'.by = 0 /\ UNCHANGED <<request, up>>
    BY <1>5, BundledType DEF CliRecord, BackInv
  <2>2. RollbackStands'
    BY <2>1, NoZero DEF RollbackStands
  <2> QED
    BY <1>o, <2>1, <2>2
<1>6. CASE (\E root \in Roots : Change(root)) \/ UNCHANGED vars
  <2>1. UNCHANGED <<tx, pointer, request, cli, up>>
    BY <1>6 DEF Change, vars
  <2> QED
    BY <2>1 DEF BackInv, RollbackStands
<1>7. CASE Stop
  <2>1. /\ \A h \in Handlers : request'[h] = Idle
        /\ up' = FALSE /\ UNCHANGED <<tx, pointer, cli>>
    BY <1>7 DEF Stop
  <2>2. RollbackStands' /\ (cli'.at = "record" => pointer'.by = 0)
    BY <2>1 DEF BackInv, RollbackStands
  <2> QED
    BY <2>1, <2>2, OtherStep
<1>8. CASE CliCrash
  <2>1. cli # NoCli /\ cli'.at = "idle" /\ UNCHANGED <<tx, pointer, request, up>>
    BY <1>8, BundledType DEF CliCrash
  <2> QED
    BY <1>o, <2>1 DEF BackInv, RollbackStands
<1>9. CASE Start
  <2>1. /\ ~up /\ cli' = NoCli /\ UNCHANGED <<tx, pointer, request>>
    BY <1>9 DEF Start, Alone
  <2>2. (\A h \in Handlers : request'[h] = Idle) /\ RollbackStands'
    BY <2>1 DEF BackInv, RollbackStands
  <2> QED
    BY <2>1, <2>2, OtherStep, BundledType
<1> QED
  BY <1>1, <1>2, <1>3, <1>4, <1>5, <1>6, <1>7, <1>8, <1>9 DEF Next, CliStep

\* What was rolled back is not active again, whatever crashes and whatever write
\* fails: both the service and the command write the pointer before the row.
\* This needs one request at a time and a command that runs while the server is
\* down; an activation that fails would else restore what it read before.
THEOREM RolledBackStays == ASSUME Alone PROVE Spec => []RollbackStands
<1>1. BackInv => RollbackStands
  BY DEF BackInv
<1> QED
  BY InitInv, NextInv, InitBack, NextBack, <1>1, PTL DEF Spec
=============================================================================
