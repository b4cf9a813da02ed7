------------------------------- MODULE KVSqlite -------------------------------
(***************************************************************************)
(* The SQLite backend of the key/value store: kv/sqlite/sqlite.go on a     *)
(* database in WAL mode (openStateDB in cmd/particle/main.go).             *)
(*                                                                         *)
(* Set and Delete are deferred transactions: the first SELECT takes a      *)
(* snapshot, the first write takes the one write lock, and is refused when *)
(* somebody has committed since the snapshot.                              *)
(***************************************************************************)
EXTENDS KVTexts

VARIABLES
  rows,     \* particle_kv: particle -> key -> value, or Absent
  bytes,    \* particle_kv_usage: particle -> bytes, or Absent
  request,  \* client -> the call in progress, or NoRequest
  answer,   \* client -> what its last call returned
  tx        \* client -> its transaction

vars == <<rows, bytes, request, answer, tx>>

\* stage: no snapshot yet, a snapshot, the write lock; stale: somebody has
\* committed since; prev and current: what the SELECTs of the snapshot returned.
NoTx == [stage |-> "none", stale |-> FALSE, prev |-> 0, current |-> 0]
Txs == [stage: {"none", "read", "locked"}, stale: BOOLEAN, prev: Nat, current: Nat]

TypeOK ==
  /\ rows \in [Particles -> [Keys -> Values \union {Absent}]]
  /\ bytes \in [Particles -> Nat \union {Absent}]
  /\ request \in [Clients -> Requests \union {NoRequest}]
  /\ answer \in [Clients -> Answers \union {Unanswered}]
  /\ tx \in [Clients -> Txs]

Init ==
  /\ rows = [p \in Particles |-> [k \in Keys |-> Absent]]
  /\ bytes = [p \in Particles |-> Absent]
  /\ request = [c \in Clients |-> NoRequest]
  /\ answer = [c \in Clients |-> Unanswered]
  /\ tx = [c \in Clients |-> NoTx]

-----------------------------------------------------------------------------
Counted(p) == IF bytes[p] = Absent THEN 0 ELSE bytes[p]

\* Mutant: what an entry contributed, measured without its key.
StoredValueOnly(p, k) == IF rows[p][k] = Absent THEN 0 ELSE Length[rows[p][k]]

\* SELECT LENGTH(key) + LENGTH(value); 0 when there is no row.
Stored(p, k) == IF rows[p][k] = Absent THEN 0 ELSE Length[k] + Length[rows[p][k]]

NewBytes(r) == Bytes[r.key] + Bytes[r.value]

Call(c, r) ==
  /\ request[c] = NoRequest
  /\ request' = [request EXCEPT ![c] = r]
  /\ answer' = [answer EXCEPT ![c] = Unanswered]
  /\ UNCHANGED <<rows, bytes, tx>>

Return(c, status, got) ==
  /\ request' = [request EXCEPT ![c] = NoRequest]
  /\ answer' = [answer EXCEPT ![c] = [status |-> status, got |-> got]]

\* After a commit everybody else's snapshot is out of date.
EndTx(c) == tx' = [d \in Clients |-> IF d = c THEN NoTx ELSE [tx[d] EXCEPT !.stale = TRUE]]

Running(c, op, stage) ==
  request[c] # NoRequest /\ request[c].op = op /\ tx[c].stage = stage

-----------------------------------------------------------------------------
(* Set.                                                                    *)

\* The reads of the transaction and the quota check.
SetRead(c) ==
  LET r == request[c]
      prev == Stored(r.particle, r.key)
      current == Counted(r.particle)
  IN /\ Running(c, "set", "none")
     /\ IF Quota > 0 /\ current + NewBytes(r) - prev > Quota
          THEN Return(c, "quota", {}) /\ UNCHANGED tx
          ELSE /\ tx' = [tx EXCEPT ![c] = [stage |-> "read", stale |-> FALSE,
                                           prev |-> prev, current |-> current]]
               /\ UNCHANGED <<request, answer>>
     /\ UNCHANGED <<rows, bytes>>

\* Mutants: writing from a snapshot somebody has overtaken; a usage row that a
\* replacement is added to in full.
LockStale(c) ==
  /\ tx[c].stage = "read"
  /\ \A d \in Clients : tx[d].stage # "locked"
  /\ tx' = [tx EXCEPT ![c].stage = "locked"]
  /\ UNCHANGED <<rows, bytes, request, answer>>
SetCommitTotal(c) ==
  LET r == request[c]
      p == r.particle
  IN /\ Running(c, "set", "locked")
     /\ rows' = [rows EXCEPT ![p][r.key] = r.value]
     /\ bytes' = [bytes EXCEPT ![p] = Counted(p) + NewBytes(r)]
     /\ EndTx(c)
     /\ Return(c, "ok", {})

\* The transaction's first write takes the write lock.
Lock(c) ==
  /\ tx[c].stage = "read" /\ ~tx[c].stale
  /\ \A d \in Clients : tx[d].stage # "locked"
  /\ tx' = [tx EXCEPT ![c].stage = "locked"]
  /\ UNCHANGED <<rows, bytes, request, answer>>

\* The upsert of the row, of the usage row, and the commit.
SetCommit(c) ==
  LET r == request[c]
      p == r.particle
  IN /\ Running(c, "set", "locked")
     /\ rows' = [rows EXCEPT ![p][r.key] = r.value]
     /\ bytes' = [bytes EXCEPT ![p] = IF @ = Absent THEN NewBytes(r)
                                                    ELSE @ + (NewBytes(r) - tx[c].prev)]
     /\ EndTx(c)
     /\ Return(c, "ok", {})

-----------------------------------------------------------------------------
(* Delete, Get, List.                                                      *)

DeleteRead(c) ==
  LET r == request[c] IN
  /\ Running(c, "delete", "none")
  /\ IF rows[r.particle][r.key] = Absent
       THEN Return(c, "ok", {}) /\ UNCHANGED tx
       ELSE /\ tx' = [tx EXCEPT ![c] = [stage |-> "read", stale |-> FALSE, current |-> 0,
                                        prev |-> Stored(r.particle, r.key)]]
            /\ UNCHANGED <<request, answer>>
  /\ UNCHANGED <<rows, bytes>>

\* Remove the row, count it off, and drop a usage row that has come to nothing.
DeleteCommit(c) ==
  LET r == request[c]
      p == r.particle
      left == Counted(p) - tx[c].prev
  IN /\ Running(c, "delete", "locked")
     /\ rows' = [rows EXCEPT ![p][r.key] = Absent]
     /\ bytes' = [bytes EXCEPT ![p] = IF left <= 0 THEN Absent ELSE left]
     /\ EndTx(c)
     /\ Return(c, "ok", {})

Get(c) ==
  LET r == request[c] IN
  /\ Running(c, "get", "none")
  /\ Return(c, "ok", {rows[r.particle][r.key]} \ {Absent})
  /\ UNCHANGED <<rows, bytes, tx>>

List(c) ==
  LET r == request[c] IN
  /\ Running(c, "list", "none")
  /\ Return(c, "ok", {k \in Present(rows[r.particle]) : <<r.key, k>> \in Like})
  /\ UNCHANGED <<rows, bytes, tx>>

\* The database refuses a statement (busy, out of date, disk), or the call's
\* context ends: the deferred Rollback undoes the transaction.
Rollback(c) ==
  /\ request[c] # NoRequest
  /\ tx' = [tx EXCEPT ![c] = NoTx]
  /\ Return(c, "error", {})
  /\ UNCHANGED <<rows, bytes>>

Next ==
  \E c \in Clients :
    \/ \E r \in Requests : Call(c, r)
    \/ SetRead(c) \/ Lock(c) \/ SetCommit(c)
    \/ DeleteRead(c) \/ DeleteCommit(c)
    \/ Get(c) \/ List(c) \/ Rollback(c)

Spec == Init /\ [][Next]_vars

-----------------------------------------------------------------------------
\* A transaction that holds the write lock computed with what is in the database
\* now: no Set or Delete is based on entries or a counter that somebody has
\* changed since.
SnapshotIsCurrent ==
  \A c \in Clients : tx[c].stage = "locked" =>
    LET r == request[c] IN
    /\ r # NoRequest /\ r.op \in {"set", "delete"}
    /\ tx[c].prev = Stored(r.particle, r.key)
    /\ r.op = "set" => tx[c].current = Counted(r.particle)

\* "two concurrent writes can't both squeak past the cap": the bytes a particle
\* stores stay within the quota, for any interleaving of transactions.
NamespaceWithinQuota == Quota > 0 => \A p \in Particles : Usage(rows[p]) <= Quota

\* "The counter is maintained transactionally alongside every Set / Delete": it
\* is the sum of the entries, and no usage row outlives the last of them.  (The row
\* goes before an entry of no bytes, the empty text under the empty key.)
UsageInSync ==
  \A p \in Particles :
    /\ Counted(p) = Usage(rows[p])
    /\ Present(rows[p]) = {} => bytes[p] = Absent

\* Set refuses only what "would push the namespace past the cap".
RefusalIsJustified ==
  [][\A c \in Clients :
       (answer'[c].status = "quota" /\ answer[c].status # "quota") =>
         LET r == request[c] IN
         Usage([rows[r.particle] EXCEPT ![r.key] = r.value]) > Quota]_vars

\* The backend behaves as the contract says: every call takes effect at one
\* instant between its start and its return, in full or, with an error, not at all.
Contract == INSTANCE KV WITH entries <- rows
ImplementsContract == Contract!Spec
=============================================================================
