---------------------------- MODULE KVSqliteProofs ----------------------------
(* Proofs about KVSqlite, for every set of clients, particles and texts.      *)
EXTENDS KVSqlite, Integers, FiniteSetTheorems, FunctionTheorems, TLAPS

\* Sums, of which Totals is the definition.

\* One entry's units are as many as it says.
LEMMA UnitsOfOne ==
  ASSUME NEW x, NEW n \in Nat
  PROVE  IsFiniteSet({x} \X (1..n)) /\ Cardinality({x} \X (1..n)) = n
<1>1. IsFiniteSet(1..n) /\ Cardinality(1..n) = n
  BY FS_Interval
<1>2. IsFiniteSet({x}) /\ Cardinality({x}) = 1
  BY FS_Singleton
<1>3. IsFiniteSet({x} \X (1..n)) /\ Cardinality({x} \X (1..n)) = 1 * n
  BY <1>1, <1>2, FS_Product, ZenonT(30)
<1> QED
  BY <1>3

\* Finitely many entries have finitely many units.
LEMMA UnitsFinite ==
  ASSUME NEW S, IsFiniteSet(S), NEW f \in [S -> Nat]
  PROVE  IsFiniteSet(Units(f))
<1> DEFINE part == [x \in S |-> {x} \X (1..f[x])]
<1>1. part \in Surjection(S, Range(part))
  <2>1. part \in [S -> SUBSET (S \X Nat)]
    OBVIOUS
  <2> QED
    BY <2>1, Fun_RangeProperties
<1>2. IsFiniteSet(Range(part))
  BY <1>1, FS_Surjection
<1>3. \A x \in S : IsFiniteSet({x} \X (1..f[x]))
  BY UnitsOfOne
<1>4. \A T \in Range(part) : IsFiniteSet(T)
  BY <1>3 DEF Range
<1>5. IsFiniteSet(UNION Range(part))
  BY <1>2, <1>4, FS_UNION
<1>6. Units(f) = UNION Range(part)
  BY DEF Units, Range
<1> QED
  BY <1>5, <1>6

\* A sum is a natural number.
LEMMA TotalType ==
  ASSUME NEW S, IsFiniteSet(S), NEW f \in [S -> Nat]
  PROVE  Total(f) \in Nat
BY UnitsFinite, FS_CardinalityType DEF Total

\* The sum of nothing, and of nothing but zeros.
LEMMA TotalZero ==
  ASSUME NEW S, NEW f \in [S -> Nat], \A x \in S : f[x] = 0
  PROVE  Total(f) = 0
<1>1. Units(f) = {}
  BY DEF Units
<1> QED
  BY <1>1, FS_EmptySet DEF Total

\* One entry and the rest.
LEMMA TotalSplit ==
  ASSUME NEW S, IsFiniteSet(S), NEW f \in [S -> Nat], NEW x \in S
  PROVE  Total(f) = f[x] + Total([y \in S \ {x} |-> f[y]])
<1> DEFINE rest == [y \in S \ {x} |-> f[y]]
           one == {x} \X (1..f[x])
<1>1. IsFiniteSet(one) /\ Cardinality(one) = f[x]
  BY UnitsOfOne
<1>2. IsFiniteSet(S \ {x}) /\ rest \in [S \ {x} -> Nat]
  BY FS_RemoveElement
<1>3. IsFiniteSet(Units(rest)) /\ Total(rest) \in Nat
  BY <1>2, UnitsFinite, TotalType
<1>4. Units(f) = one \union Units(rest)
  BY DEF Units
<1>5. one \intersect Units(rest) = {}
  BY DEF Units
<1>6. Cardinality(one \union Units(rest))
        = Cardinality(one) + Cardinality(Units(rest)) - Cardinality(one \intersect Units(rest))
  BY <1>1, <1>3, FS_Union
<1>7. Cardinality(one \union Units(rest)) = f[x] + Total(rest)
  <2>1. Cardinality(one \intersect Units(rest)) = 0
    BY <1>5, FS_EmptySet
  <2> HIDE DEF one, rest
  <2> QED
    BY <1>1, <1>3, <1>6, <2>1 DEF Total
<1> QED
  BY <1>4, <1>7 DEF Total

\* A table with one entry changed.
LEMMA TotalChange ==
  ASSUME NEW S, IsFiniteSet(S), NEW f \in [S -> Nat], NEW g \in [S -> Nat], NEW x \in S,
         \A y \in S \ {x} : g[y] = f[y]
  PROVE  Total(g) = Total(f) - f[x] + g[x]
<1> DEFINE rest == [y \in S \ {x} |-> f[y]]
<1>1. [y \in S \ {x} |-> g[y]] = rest
  OBVIOUS
<1>2. Total(f) = f[x] + Total(rest) /\ Total(g) = g[x] + Total(rest)
  BY <1>1, TotalSplit
<1>3. Total(rest) \in Nat
  <2>1. IsFiniteSet(S \ {x}) /\ rest \in [S \ {x} -> Nat]
    BY FS_RemoveElement
  <2> QED
    BY <2>1, TotalType
<1> QED
  BY <1>2, <1>3

\* A table with one entry more.
LEMMA TotalGrow ==
  ASSUME NEW S, IsFiniteSet(S), NEW x, x \notin S, NEW f \in [S -> Nat],
         NEW g \in [S \union {x} -> Nat], \A y \in S : g[y] = f[y]
  PROVE  Total(g) = Total(f) + g[x]
<1>1. IsFiniteSet(S \union {x})
  BY FS_AddElement
<1>2. [y \in (S \union {x}) \ {x} |-> g[y]] = f
  OBVIOUS
<1>3. Total(g) = g[x] + Total([y \in (S \union {x}) \ {x} |-> g[y]])
  BY <1>1, TotalSplit
<1> QED
  BY <1>2, <1>3, TotalType

\* No entry is more than the sum.
LEMMA TotalBounds ==
  ASSUME NEW S, IsFiniteSet(S), NEW f \in [S -> Nat], NEW x \in S
  PROVE  f[x] <= Total(f)
<1>1. Total([y \in S \ {x} |-> f[y]]) \in Nat
  <2>1. IsFiniteSet(S \ {x}) /\ [y \in S \ {x} |-> f[y]] \in [S \ {x} -> Nat]
    BY FS_RemoveElement
  <2> QED
    BY <2>1, TotalType
<1> QED
  BY <1>1, TotalSplit

Txs0 == [stage: {"none", "read", "locked"}, stale: BOOLEAN, prev: Int, current: Int]

\* The types the argument needs.
Types ==
  /\ rows \in [Particles -> [Keys -> Values \union {Absent}]]
  /\ bytes \in [Particles -> Int \union {Absent}]
  /\ request \in [Clients -> Requests \union {NoRequest}]
  /\ tx \in [Clients -> Txs0]

\* One writer at a time, with a snapshot nobody has overtaken.
OneWriter ==
  /\ \A c, d \in Clients : tx[c].stage = "locked" /\ tx[d].stage = "locked" => c = d
  /\ \A c \in Clients : tx[c].stage = "locked" => ~tx[c].stale

\* What an up-to-date snapshot says of the database.
FreshAt(c) ==
  /\ request[c] # NoRequest /\ request[c].op \in {"set", "delete"}
  /\ ~tx[c].stale => /\ tx[c].prev = Stored(request[c].particle, request[c].key)
                     /\ request[c].op = "set" => tx[c].current = Counted(request[c].particle)
Fresh == \A c \in Clients : tx[c].stage # "none" => FreshAt(c)

IInv == Types /\ OneWriter /\ Fresh

LEMMA RequestTypes ==
  ASSUME NEW r \in Requests
  PROVE  /\ r.particle \in Particles
         /\ r.op \in {"set", "delete"} => r.key \in Keys
         /\ r.op = "set" => r.value \in Values
BY DEF Requests

LEMMA StoredType ==
  ASSUME Types, NEW p \in Particles, NEW k \in Keys
  PROVE  Stored(p, k) \in Int /\ Counted(p) \in Int
BY TextsAssumption DEF Types, Stored, Counted, Texts

LEMMA NoTxType == NoTx \in Txs0
BY DEF NoTx, Txs0

LEMMA InitInv == Init => IInv
BY NoTxType DEF Init, IInv, Types, OneWriter, Fresh, NoTx

\* Steps of one client that leave the database alone.
LEMMA Quiet ==
  ASSUME IInv, NEW c \in Clients, UNCHANGED <<rows, bytes>>,
         \A d \in Clients \ {c} : request'[d] = request[d] /\ tx'[d] = tx[d],
         Types', tx'[c].stage # "locked" \/ tx'[c] = tx[c],
         tx'[c].stage # "none" => FreshAt(c)'
  PROVE  IInv'
<1>1. OneWriter'
  BY DEF IInv, OneWriter
<1>2. ASSUME NEW d \in Clients, tx'[d].stage # "none" PROVE FreshAt(d)'
  BY <1>2 DEF IInv, Fresh, FreshAt, Stored, Counted
<1> QED
  BY <1>1, <1>2 DEF IInv, Fresh

\* Steps that end a call and its transaction with nothing written.
LEMMA Ends ==
  ASSUME IInv, NEW c \in Clients, UNCHANGED <<rows, bytes>>,
         request' = [request EXCEPT ![c] = NoRequest],
         tx' = [tx EXCEPT ![c] = NoTx] \/ (tx' = tx /\ tx[c].stage = "none")
  PROVE  IInv'
<1>1. Types'
  <2>1. tx' \in [Clients -> Txs0]
    BY NoTxType DEF IInv, Types
  <2>2. request' \in [Clients -> Requests \union {NoRequest}]
    BY DEF IInv, Types
  <2> QED
    BY <2>1, <2>2 DEF IInv, Types
<1>2. tx'[c].stage = "none"
  BY DEF IInv, Types, NoTx
<1> QED
  BY <1>1, <1>2, Quiet DEF IInv, Types

\* The first SELECT of a transaction.
LEMMA Reads ==
  ASSUME IInv, NEW c \in Clients, UNCHANGED <<rows, bytes, request>>,
         request[c] # NoRequest, request[c].op \in {"set", "delete"}, NEW cur \in Int,
         request[c].op = "set" => cur = Counted(request[c].particle),
         tx' = [tx EXCEPT ![c] = [stage |-> "read", stale |-> FALSE,
                                  prev |-> Stored(request[c].particle, request[c].key),
                                  current |-> cur]]
  PROVE  IInv'
<1>1. Stored(request[c].particle, request[c].key) \in Int
  BY RequestTypes, StoredType DEF IInv, Types
<1>2. Types'
  BY <1>1 DEF IInv, Types, Txs0
<1>3. FreshAt(c)' /\ tx'[c].stage = "read"
  BY DEF IInv, Types, FreshAt, Stored, Counted
<1> QED
  BY <1>2, <1>3, Quiet DEF IInv, Types

LEMMA CallStep == ASSUME IInv, NEW c \in Clients, NEW r \in Requests, Call(c, r) PROVE IInv'
<1>1. Types' /\ tx[c].stage = "none"
  BY DEF IInv, Types, Call, Fresh, FreshAt
<1> QED
  BY <1>1, Quiet DEF IInv, Types, Call

LEMMA SetReadStep == ASSUME IInv, NEW c \in Clients, SetRead(c) PROVE IInv'
<1>1. CASE UNCHANGED tx
  BY <1>1, Ends DEF SetRead, Return, Running, IInv, Types
<1>2. CASE ~UNCHANGED tx
  <2>1. Counted(request[c].particle) \in Int
    BY RequestTypes, StoredType DEF IInv, Types, SetRead, Running
  <2> QED
    BY <1>2, <2>1, Reads DEF SetRead, Running
<1> QED
  BY <1>1, <1>2

LEMMA DeleteReadStep == ASSUME IInv, NEW c \in Clients, DeleteRead(c) PROVE IInv'
<1>1. CASE UNCHANGED tx
  BY <1>1, Ends DEF DeleteRead, Return, Running, IInv, Types
<1>2. CASE ~UNCHANGED tx
  <2>1. /\ request[c] # NoRequest /\ request[c].op = "delete" /\ UNCHANGED <<rows, bytes, request>>
        /\ tx' = [tx EXCEPT ![c] = [stage |-> "read", stale |-> FALSE,
                                    prev |-> Stored(request[c].particle, request[c].key),
                                    current |-> 0]]
    BY <1>2 DEF DeleteRead, Running
  <2>2. /\ 0 \in Int /\ request[c].op \in {"set", "delete"}
        /\ request[c].op = "set" => 0 = Counted(request[c].particle)
    BY <2>1
  <2> QED
    BY <2>1, <2>2, Reads, Zenon
<1> QED
  BY <1>1, <1>2

LEMMA LockStep == ASSUME IInv, NEW c \in Clients, Lock(c) PROVE IInv'
<1>1. Types'
  BY DEF IInv, Types, Lock, Txs0
<1>2. /\ tx'[c].stage = "locked" /\ tx'[c].stale = tx[c].stale /\ tx'[c].prev = tx[c].prev
      /\ tx'[c].current = tx[c].current /\ ~tx[c].stale
      /\ \A d \in Clients : tx[d].stage # "locked"
      /\ \A d \in Clients \ {c} : tx'[d] = tx[d]
  BY DEF IInv, Types, Lock, Txs0
<1>3. OneWriter'
  BY <1>2 DEF OneWriter
<1>4. ASSUME NEW d \in Clients, tx'[d].stage # "none" PROVE FreshAt(d)'
  BY <1>2, <1>4 DEF IInv, Fresh, FreshAt, Stored, Counted, Lock
<1> QED
  BY <1>1, <1>3, <1>4 DEF IInv, Fresh

\* A commit makes every other snapshot stale.
LEMMA Commits ==
  ASSUME IInv, NEW c \in Clients, EndTx(c), Types', tx[c].stage = "locked",
         request' = [request EXCEPT ![c] = NoRequest]
  PROVE  IInv'
<1>1. /\ tx'[c].stage = "none"
      /\ \A d \in Clients \ {c} : tx'[d].stage = tx[d].stage /\ tx'[d].stale
  BY DEF EndTx, NoTx, IInv, Types, Txs0
<1>2. OneWriter'
  BY <1>1 DEF IInv, OneWriter
<1>3. ASSUME NEW d \in Clients, tx'[d].stage # "none" PROVE FreshAt(d)'
  BY <1>1, <1>3 DEF IInv, Fresh, FreshAt, Types, Txs0
<1> QED
  BY <1>2, <1>3 DEF IInv, Fresh

LEMMA EndTxType == ASSUME Types, NEW c \in Clients, EndTx(c) PROVE tx' \in [Clients -> Txs0]
<1>1. ASSUME NEW d \in Clients PROVE [tx[d] EXCEPT !.stale = TRUE] \in Txs0
  BY DEF Types, Txs0
<1> QED
  BY <1>1, NoTxType DEF EndTx

LEMMA SetCommitStep == ASSUME IInv, NEW c \in Clients, SetCommit(c) PROVE IInv'
<1> DEFINE r == request[c]
<1>1. r \in Requests /\ r.op = "set" /\ tx[c].stage = "locked"
  BY DEF SetCommit, Running, IInv, Types
<1>2. r.particle \in Particles /\ r.key \in Keys /\ r.value \in Values
  BY <1>1, RequestTypes
<1>3. NewBytes(r) \in Int /\ tx[c].prev \in Int
  BY <1>2, TextsAssumption DEF NewBytes, Texts, IInv, Types, Txs0
<1>4. Types'
  <2>1. rows' \in [Particles -> [Keys -> Values \union {Absent}]]
    BY <1>2 DEF SetCommit, IInv, Types
  <2>2. bytes' \in [Particles -> Int \union {Absent}]
    BY <1>2, <1>3 DEF SetCommit, IInv, Types
  <2>3. request' \in [Clients -> Requests \union {NoRequest}]
    BY DEF SetCommit, Return, IInv, Types
  <2> QED
    BY <2>1, <2>2, <2>3, EndTxType DEF SetCommit, IInv, Types
<1> QED
  BY <1>1, <1>4, Commits DEF SetCommit, Return

LEMMA DeleteCommitStep == ASSUME IInv, NEW c \in Clients, DeleteCommit(c) PROVE IInv'
<1> DEFINE r == request[c]
<1>1. r \in Requests /\ r.op = "delete" /\ tx[c].stage = "locked"
  BY DEF DeleteCommit, Running, IInv, Types
<1>2. r.particle \in Particles /\ r.key \in Keys
  BY <1>1, RequestTypes
<1>3. Counted(r.particle) \in Int /\ tx[c].prev \in Int
  BY <1>2, StoredType DEF IInv, Types, Txs0
<1>4. Types'
  <2>1. rows' \in [Particles -> [Keys -> Values \union {Absent}]]
    BY <1>2 DEF DeleteCommit, IInv, Types
  <2>2. bytes' \in [Particles -> Int \union {Absent}]
    BY <1>2, <1>3 DEF DeleteCommit, IInv, Types
  <2>3. request' \in [Clients -> Requests \union {NoRequest}]
    BY DEF DeleteCommit, Return, IInv, Types
  <2> QED
    BY <2>1, <2>2, <2>3, EndTxType DEF DeleteCommit, IInv, Types
<1> QED
  BY <1>1, <1>4, Commits DEF DeleteCommit, Return

LEMMA NextInv == ASSUME IInv, [Next]_vars PROVE IInv'
<1>1. CASE UNCHANGED vars
  BY <1>1 DEF IInv, Types, OneWriter, Fresh, FreshAt, Stored, Counted, vars
<1>2. ASSUME NEW c \in Clients,
             Get(c) \/ List(c) \/ Rollback(c)
      PROVE  IInv'
  BY <1>2, Ends DEF Get, List, Rollback, Return, Running
<1> QED
  BY <1>1, <1>2, CallStep, SetReadStep, LockStep, SetCommitStep, DeleteReadStep,
     DeleteCommitStep DEF Next

\* No lost update: what a transaction writes was computed from the committed
\* entries and counter, for any number of clients (Set's and Delete's read of the
\* old lengths and the usage row, their write, and SQLite's refusal of a write
\* over a newer commit).
THEOREM NoLostUpdate == Spec => []SnapshotIsCurrent
<1>1. IInv => SnapshotIsCurrent
  BY DEF IInv, OneWriter, Fresh, FreshAt, SnapshotIsCurrent
<1> QED
  BY <1>1, InitInv, NextInv, PTL DEF Spec

-----------------------------------------------------------------------------
(* The bytes of a namespace.                                               *)

Buckets == [Keys -> Values \union {Absent}]
SizesOf(bucket) == [k \in Present(bucket) |-> Bytes[k] + Bytes[bucket[k]]]

\* The bytes an entry contributes, where Stored counts characters.
EntryBytes(bucket, k) == IF bucket[k] = Absent THEN 0 ELSE Bytes[k] + Bytes[bucket[k]]

LEMMA SizesType ==
  ASSUME NEW b \in Buckets
  PROVE  SizesOf(b) \in [Present(b) -> Nat]
BY TextsAssumption DEF Buckets, SizesOf, Present, Texts

LEMMA UsageType ==
  ASSUME NEW b \in Buckets, IsFiniteSet(Present(b))
  PROVE  Usage(b) \in Nat
<1>1. Usage(b) = Total(SizesOf(b))
  BY DEF Usage, SizesOf
<1> QED
  BY <1>1, SizesType, TotalType

LEMMA EntryFacts ==
  ASSUME NEW b \in Buckets, NEW k \in Keys, IsFiniteSet(Present(b))
  PROVE  EntryBytes(b, k) \in Nat /\ EntryBytes(b, k) <= Usage(b)
<1>1. EntryBytes(b, k) \in Nat
  BY TextsAssumption DEF EntryBytes, Buckets, Texts
<1>2. CASE k \in Present(b)
  <2>1. SizesOf(b)[k] <= Total(SizesOf(b))
    BY <1>2, SizesType, TotalBounds
  <2>2. SizesOf(b)[k] = EntryBytes(b, k) /\ Total(SizesOf(b)) = Usage(b)
    BY <1>2 DEF SizesOf, EntryBytes, Usage, Present
  <2> QED
    BY <1>1, <2>1, <2>2
<1>3. CASE k \notin Present(b)
  BY <1>1, <1>3, UsageType DEF EntryBytes, Present
<1> QED
  BY <1>1, <1>2, <1>3

\* Set: what the bytes of a namespace become.
LEMMA UsageSet ==
  ASSUME NEW b \in Buckets, NEW k \in Keys, NEW v \in Values, IsFiniteSet(Present(b))
  PROVE  LET new == [b EXCEPT ![k] = v]
         IN /\ IsFiniteSet(Present(new))
            /\ Present(new) # {}
            /\ Usage(new) = Usage(b) - EntryBytes(b, k) + (Bytes[k] + Bytes[v])
<1> DEFINE new == [b EXCEPT ![k] = v]
<1>1. new \in Buckets /\ new[k] = v /\ v # Absent /\ \A j \in Keys \ {k} : new[j] = b[j]
  BY AbsentAssumption DEF Buckets
<1>2. Present(new) = Present(b) \union {k}
  BY <1>1 DEF Present
<1>3. IsFiniteSet(Present(new))
  BY <1>2, FS_AddElement
<1>4. SizesOf(new) \in [Present(new) -> Nat] /\ SizesOf(b) \in [Present(b) -> Nat]
  BY <1>1, SizesType
<1>5. /\ SizesOf(new)[k] = Bytes[k] + Bytes[v]
      /\ \A j \in Present(b) \ {k} : SizesOf(new)[j] = SizesOf(b)[j]
  BY <1>1, <1>2 DEF SizesOf, Present
<1>6. Usage(new) = Total(SizesOf(new)) /\ Usage(b) = Total(SizesOf(b))
  BY DEF Usage, SizesOf
<1> HIDE DEF new
<1>7. CASE k \in Present(b)
  <2>1. SizesOf(b)[k] = EntryBytes(b, k)
    BY <1>7 DEF SizesOf, EntryBytes, Present
  <2>2. Present(new) = Present(b)
    BY <1>2, <1>7
  <2>3. Total(SizesOf(new)) = Total(SizesOf(b)) - SizesOf(b)[k] + SizesOf(new)[k]
    BY <1>4, <1>5, <1>7, <2>2, TotalChange
  <2> QED
    BY <1>2, <1>3, <1>5, <1>6, <2>1, <2>3 DEF new
<1>8. CASE k \notin Present(b)
  <2>1. EntryBytes(b, k) = 0
    BY <1>8 DEF EntryBytes, Present
  <2>2. Total(SizesOf(new)) = Total(SizesOf(b)) + SizesOf(new)[k]
    BY <1>2, <1>4, <1>5, <1>8, TotalGrow
  <2> QED
    <3>1. Bytes[k] + Bytes[v] \in Nat /\ Usage(b) \in Nat
      BY TextsAssumption, UsageType DEF Texts
    <3>2. Usage(new) = Usage(b) - EntryBytes(b, k) + (Bytes[k] + Bytes[v])
      BY <1>5, <1>6, <2>1, <2>2, <3>1
    <3> QED
      BY <1>2, <1>3, <3>2 DEF new
<1> QED
  BY <1>7, <1>8

\* Delete of an entry that is there.
LEMMA UsageDelete ==
  ASSUME NEW b \in Buckets, NEW k \in Keys, b[k] # Absent, IsFiniteSet(Present(b))
  PROVE  LET new == [b EXCEPT ![k] = Absent]
         IN /\ IsFiniteSet(Present(new))
            /\ Usage(new) = Usage(b) - EntryBytes(b, k)
<1> DEFINE new == [b EXCEPT ![k] = Absent]
<1>1. new \in Buckets /\ new[k] = Absent /\ \A j \in Keys \ {k} : new[j] = b[j]
  BY DEF Buckets
<1>2. Present(new) = Present(b) \ {k} /\ k \in Present(b)
  BY <1>1 DEF Present
<1>3. IsFiniteSet(Present(new))
  BY <1>2, FS_RemoveElement
<1>4. SizesOf(new) = [j \in Present(b) \ {k} |-> SizesOf(b)[j]]
  BY <1>1, <1>2 DEF SizesOf, Present
<1>5. Total(SizesOf(b)) = SizesOf(b)[k] + Total([j \in Present(b) \ {k} |-> SizesOf(b)[j]])
  BY <1>2, SizesType, TotalSplit
<1>6. SizesOf(b)[k] = EntryBytes(b, k)
  BY <1>2 DEF SizesOf, EntryBytes, Present
<1>7. Usage(new) = Total(SizesOf(new)) /\ Usage(b) = Total(SizesOf(b))
  BY DEF Usage, SizesOf
<1>8. Usage(new) \in Nat /\ Usage(b) \in Nat /\ EntryBytes(b, k) \in Nat
  BY <1>1, <1>3, UsageType, EntryFacts
<1> HIDE DEF new
<1> QED
  BY <1>3, <1>4, <1>5, <1>6, <1>7, <1>8 DEF new

-----------------------------------------------------------------------------
(* The counter and the quota.                                              *)

\* Only finitely many entries are ever stored.
Finite == \A p \in Particles : IsFiniteSet(Present(rows[p]))

\* What the usage row counts is never less than what is stored.
Covered == \A p \in Particles : Usage(rows[p]) <= Counted(p)

\* It is within the quota, and a Set that goes on has been found to keep it there.
Capped == Quota > 0 => \A p \in Particles : Counted(p) <= Quota
Passed ==
  \A c \in Clients :
    tx[c].stage # "none" /\ request[c].op = "set" /\ Quota > 0 =>
      tx[c].current + NewBytes(request[c]) - tx[c].prev <= Quota

QInv == Finite /\ Covered /\ Capped /\ Passed

\* Texts whose length in bytes is their length in characters.
OneByteTexts == \A t \in Texts : Length[t] = Bytes[t]

\* What SQLite measures is at most what the program does.
LEMMA StoredFacts ==
  ASSUME Types, NEW p \in Particles, NEW k \in Keys
  PROVE  /\ Stored(p, k) \in Nat /\ Stored(p, k) <= EntryBytes(rows[p], k)
         /\ OneByteTexts => Stored(p, k) = EntryBytes(rows[p], k)
<1>1. k \in Texts /\ (rows[p][k] # Absent => rows[p][k] \in Texts)
  BY DEF Types, Texts
<1> QED
  BY <1>1, TextsAssumption DEF Stored, EntryBytes, OneByteTexts

\* A transaction about to commit, and what it will have done to the bytes.
LEMMA SetCommitBytes ==
  ASSUME IInv, Finite, Covered, NEW c \in Clients, SetCommit(c)
  PROVE  LET r == request[c]
             p == r.particle
         IN /\ r \in Requests /\ r.op = "set"
            /\ p \in Particles /\ r.key \in Keys /\ r.value \in Values
            /\ NewBytes(r) \in Nat /\ tx[c].prev = Stored(p, r.key)
            /\ rows' = [rows EXCEPT ![p] = [rows[p] EXCEPT ![r.key] = r.value]]
            /\ bytes' = [bytes EXCEPT ![p] = Counted(p) + NewBytes(r) - tx[c].prev]
            /\ Usage(rows'[p]) = Usage(rows[p]) - EntryBytes(rows[p], r.key) + NewBytes(r)
            /\ IsFiniteSet(Present(rows'[p])) /\ Present(rows'[p]) # {}
<1> DEFINE r == request[c]
           p == r.particle
<1>1. r \in Requests /\ r.op = "set" /\ tx[c].stage = "locked"
  BY DEF SetCommit, Running, IInv, Types
<1>2. p \in Particles /\ r.key \in Keys /\ r.value \in Values
  BY <1>1, RequestTypes
<1>3. NewBytes(r) \in Nat
  BY <1>2, TextsAssumption DEF NewBytes, Texts
<1>4. tx[c].prev = Stored(p, r.key)
  BY <1>1 DEF IInv, OneWriter, Fresh, FreshAt
<1>5. rows[p] \in Buckets /\ IsFiniteSet(Present(rows[p])) /\ bytes[p] \in Int \union {Absent}
  BY <1>2 DEF IInv, Types, Buckets, Finite
<1>6. rows' = [rows EXCEPT ![p] = [rows[p] EXCEPT ![r.key] = r.value]]
  BY DEF SetCommit
<1>7. rows'[p] = [rows[p] EXCEPT ![r.key] = r.value]
  BY <1>2, <1>6 DEF IInv, Types
<1>8. /\ Usage(rows'[p]) = Usage(rows[p]) - EntryBytes(rows[p], r.key) + NewBytes(r)
      /\ IsFiniteSet(Present(rows'[p])) /\ Present(rows'[p]) # {}
  BY <1>2, <1>5, <1>7, UsageSet DEF NewBytes
<1>9. Stored(p, r.key) \in Nat /\ Stored(p, r.key) <= Usage(rows[p]) /\ Usage(rows[p]) \in Nat
  BY <1>2, <1>5, StoredFacts, EntryFacts, UsageType DEF IInv
<1>10. bytes[p] = Absent => Counted(p) = 0 /\ tx[c].prev = 0
  BY <1>2, <1>4, <1>9 DEF Covered, Counted
<1>11. bytes' = [bytes EXCEPT ![p] = Counted(p) + NewBytes(r) - tx[c].prev]
  <2>1. bytes' = [bytes EXCEPT ![p] = IF bytes[p] = Absent THEN NewBytes(r)
                                      ELSE bytes[p] + (NewBytes(r) - tx[c].prev)]
    BY DEF SetCommit
  <2>2. CASE bytes[p] = Absent
    <3>1. NewBytes(r) = Counted(p) + NewBytes(r) - tx[c].prev
      BY <1>3, <1>10, <2>2
    <3> QED
      BY <2>1, <2>2, <3>1, Zenon
  <2>3. CASE bytes[p] # Absent
    <3>1. bytes[p] + (NewBytes(r) - tx[c].prev) = Counted(p) + NewBytes(r) - tx[c].prev
      BY <1>3, <1>4, <1>5, <1>9, <2>3 DEF Counted
    <3> QED
      BY <2>1, <2>3, <3>1
  <2> QED
    BY <2>2, <2>3
<1> QED
  BY <1>1, <1>2, <1>3, <1>4, <1>6, <1>8, <1>11

LEMMA DeleteCommitBytes ==
  ASSUME IInv, Finite, Covered, NEW c \in Clients, DeleteCommit(c)
  PROVE  LET r == request[c]
             p == r.particle
             left == Counted(p) - tx[c].prev
         IN /\ r \in Requests /\ r.op = "delete"
            /\ p \in Particles /\ r.key \in Keys
            /\ tx[c].prev = Stored(p, r.key) /\ left \in Nat
            /\ rows' = [rows EXCEPT ![p] = [rows[p] EXCEPT ![r.key] = Absent]]
            /\ bytes' = [bytes EXCEPT ![p] = IF left <= 0 THEN Absent ELSE left]
            /\ Usage(rows'[p]) = Usage(rows[p]) - EntryBytes(rows[p], r.key)
            /\ Usage(rows'[p]) \in Nat /\ IsFiniteSet(Present(rows'[p]))
<1> DEFINE r == request[c]
           p == r.particle
           left == Counted(p) - tx[c].prev
<1>1. r \in Requests /\ r.op = "delete" /\ tx[c].stage = "locked"
  BY DEF DeleteCommit, Running, IInv, Types
<1>2. p \in Particles /\ r.key \in Keys
  BY <1>1, RequestTypes
<1>3. tx[c].prev = Stored(p, r.key)
  BY <1>1 DEF IInv, OneWriter, Fresh, FreshAt
<1>4. rows[p] \in Buckets /\ IsFiniteSet(Present(rows[p]))
  BY <1>2 DEF IInv, Types, Buckets, Finite
<1>5. rows' = [rows EXCEPT ![p] = [rows[p] EXCEPT ![r.key] = Absent]]
  BY DEF DeleteCommit
<1>6. rows'[p] = [rows[p] EXCEPT ![r.key] = Absent] /\ rows'[p] \in Buckets
  BY <1>2, <1>4, <1>5 DEF IInv, Types, Buckets
<1>7. bytes' = [bytes EXCEPT ![p] = IF left <= 0 THEN Absent ELSE left]
  BY DEF DeleteCommit
<1>8. /\ Usage(rows'[p]) = Usage(rows[p]) - EntryBytes(rows[p], r.key)
      /\ IsFiniteSet(Present(rows'[p]))
  <2>1. CASE rows[p][r.key] # Absent
    BY <1>2, <1>4, <1>6, <2>1, UsageDelete
  <2>2. CASE rows[p][r.key] = Absent
    <3>1. rows'[p] = rows[p]
      BY <1>4, <1>6, <2>2 DEF Buckets
    <3>2. EntryBytes(rows[p], r.key) = 0
      BY <2>2 DEF EntryBytes
    <3> QED
      BY <1>4, <3>1, <3>2, UsageType
  <2> QED
    BY <2>1, <2>2
<1>9. Usage(rows'[p]) \in Nat
  BY <1>6, <1>8, UsageType
<1>10. left \in Nat
  <2>1. /\ Stored(p, r.key) \in Nat /\ Stored(p, r.key) <= Usage(rows[p])
        /\ Usage(rows[p]) \in Nat
    BY <1>2, <1>4, StoredFacts, EntryFacts, UsageType DEF IInv
  <2>2. Counted(p) \in Int /\ Usage(rows[p]) <= Counted(p)
    BY <1>2, StoredType DEF IInv, Covered
  <2> QED
    BY <1>3, <2>1, <2>2
<1> QED
  BY <1>1, <1>2, <1>3, <1>5, <1>7, <1>8, <1>9, <1>10

\* What a changed usage row counts.
LEMMA CountedAfter ==
  ASSUME Types, NEW p \in Particles, NEW n \in Nat \union {Absent},
         bytes' = [bytes EXCEPT ![p] = n]
  PROVE  /\ Counted(p)' = IF n = Absent THEN 0 ELSE n
         /\ \A q \in Particles \ {p} : Counted(q)' = Counted(q)
         /\ n \in Nat => Counted(p)' = n
BY AbsentAssumption DEF Types, Counted

LEMMA QInit == Init => QInv
<1> SUFFICES ASSUME Init PROVE QInv
  OBVIOUS
<1>1. ASSUME NEW p \in Particles
      PROVE  IsFiniteSet(Present(rows[p])) /\ Usage(rows[p]) = 0 /\ Counted(p) = 0
  <2>1. Present(rows[p]) = {}
    BY <1>1 DEF Init, Present
  <2>2. rows[p] \in Buckets
    BY <1>1 DEF Init, Buckets
  <2>3. Usage(rows[p]) = Total(SizesOf(rows[p])) /\ SizesOf(rows[p]) \in [{} -> Nat]
    BY <2>1, <2>2, SizesType DEF Usage, SizesOf
  <2> QED
    BY <2>1, <2>3, TotalZero, FS_EmptySet DEF Init, Counted
<1>2. Passed
  BY DEF Init, Passed, NoTx
<1> QED
  BY <1>1, <1>2, QuotaAssumption DEF QInv, Finite, Covered, Capped

\* Steps that write nothing keep what is said of the database.
LEMMA QQuiet ==
  ASSUME QInv, UNCHANGED <<rows, bytes>>, Passed'
  PROVE  QInv'
BY DEF QInv, Finite, Covered, Capped, Counted

LEMMA QStep == ASSUME IInv, QInv, [Next]_vars PROVE QInv'
<1>1. ASSUME NEW c \in Clients, SetRead(c) PROVE QInv'
  <2>1. CASE UNCHANGED tx
    BY <1>1, <2>1, QQuiet DEF SetRead, Return, Running, QInv, Passed, IInv, Types
  <2>2. CASE ~UNCHANGED tx
    <3>1. /\ UNCHANGED <<rows, bytes, request>>
          /\ ~(Quota > 0 /\ Counted(request[c].particle) + NewBytes(request[c])
                              - Stored(request[c].particle, request[c].key) > Quota)
          /\ tx' = [tx EXCEPT ![c] = [stage |-> "read", stale |-> FALSE,
                                      prev |-> Stored(request[c].particle, request[c].key),
                                      current |-> Counted(request[c].particle)]]
      BY <1>1, <2>2 DEF SetRead
    <3>2. request[c] \in Requests /\ request[c].op = "set"
      BY <1>1 DEF SetRead, Running, IInv, Types
    <3>3. /\ Counted(request[c].particle) \in Int /\ NewBytes(request[c]) \in Nat
          /\ Stored(request[c].particle, request[c].key) \in Int
      BY <3>2, RequestTypes, StoredType, TextsAssumption DEF IInv, NewBytes, Texts
    <3>4. Passed'
      BY <3>1, <3>3, QuotaAssumption DEF Passed, QInv, IInv, Types, NewBytes
    <3> QED
      BY <3>1, <3>4, QQuiet
  <2> QED
    BY <2>1, <2>2
<1>2. ASSUME NEW c \in Clients, Lock(c) PROVE QInv'
  BY <1>2, QQuiet DEF Lock, QInv, Passed, IInv, Types, Txs0, NewBytes
<1>3. ASSUME NEW c \in Clients, NEW r \in Requests, Call(c, r) PROVE QInv'
  <2>1. tx[c].stage = "none"
    BY <1>3 DEF Call, IInv, Fresh, FreshAt
  <2> QED
    BY <1>3, <2>1, QQuiet DEF Call, QInv, Passed, IInv, Types, NewBytes
<1>4. ASSUME NEW c \in Clients, DeleteRead(c) PROVE QInv'
  BY <1>4, QQuiet DEF DeleteRead, Return, Running, QInv, Passed, IInv, Types, NewBytes
<1>5. ASSUME NEW c \in Clients, Get(c) \/ List(c) \/ Rollback(c) PROVE QInv'
  BY <1>5, QQuiet
     DEF Get, List, Rollback, Return, Running, QInv, Passed, IInv, Types, NoTx, NewBytes
<1>6. ASSUME NEW c \in Clients, EndTx(c), request' = [request EXCEPT ![c] = NoRequest]
      PROVE  Passed'
  BY <1>6 DEF EndTx, NoTx, Passed, QInv, IInv, Types, Txs0, NewBytes
<1>7. ASSUME NEW c \in Clients, SetCommit(c) PROVE QInv'
  <2> DEFINE r == request[c]
  <2>0. PICK p \in Particles : p = r.particle
    BY <1>7, SetCommitBytes DEF QInv
  <2>1. /\ r.op = "set" /\ NewBytes(r) \in Nat
        /\ r.key \in Keys /\ tx[c].prev = Stored(p, r.key)
        /\ rows' = [rows EXCEPT ![p] = [rows[p] EXCEPT ![r.key] = r.value]]
        /\ bytes' = [bytes EXCEPT ![p] = Counted(p) + NewBytes(r) - tx[c].prev]
        /\ Usage(rows'[p]) = Usage(rows[p]) - EntryBytes(rows[p], r.key) + NewBytes(r)
        /\ IsFiniteSet(Present(rows'[p]))
    BY <1>7, <2>0, SetCommitBytes DEF QInv
  <2>2. Passed'
    BY <1>6, <1>7 DEF SetCommit, Return
  <2>3. /\ Counted(p) \in Int /\ Usage(rows[p]) \in Nat /\ Usage(rows[p]) <= Counted(p)
        /\ tx[c].prev \in Nat /\ tx[c].prev <= EntryBytes(rows[p], r.key)
        /\ EntryBytes(rows[p], r.key) \in Nat /\ EntryBytes(rows[p], r.key) <= Usage(rows[p])
    <3>1. rows[p] \in Buckets /\ IsFiniteSet(Present(rows[p]))
      BY <2>1 DEF IInv, Types, Buckets, QInv, Finite
    <3> QED
      BY <2>1, <3>1, StoredType, StoredFacts, EntryFacts, UsageType DEF IInv, QInv, Covered
  <2>4. /\ Counted(p)' = Counted(p) + NewBytes(r) - tx[c].prev
        /\ \A q \in Particles \ {p} : Counted(q)' = Counted(q)
    <3>1. Counted(p) + NewBytes(r) - tx[c].prev \in Nat
      BY <2>1, <2>3
    <3> QED
      BY <2>1, <3>1, CountedAfter DEF IInv
  <2>5. Usage(rows'[p]) <= Counted(p)'
    BY <2>1, <2>3, <2>4
  <2>6. Quota > 0 => Counted(p)' <= Quota
    <3>1. /\ tx[c].stage = "locked" /\ tx[c].current = Counted(p)
      BY <1>7, <2>0, <2>1 DEF SetCommit, Running, IInv, OneWriter, Fresh, FreshAt
    <3> QED
      BY <2>1, <2>4, <3>1 DEF QInv, Passed
  <2>7. \A q \in Particles \ {p} : rows'[q] = rows[q] /\ Counted(q)' = Counted(q)
    BY <2>1, <2>4 DEF IInv, Types
  <2> QED
    BY <2>1, <2>2, <2>5, <2>6, <2>7 DEF QInv, Finite, Covered, Capped
<1>8. ASSUME NEW c \in Clients, DeleteCommit(c) PROVE QInv'
  <2> DEFINE r == request[c]
  <2>0. PICK p \in Particles : p = r.particle
    BY <1>8, DeleteCommitBytes DEF QInv
  <2> DEFINE left == Counted(p) - tx[c].prev
  <2>1. /\ r.key \in Keys
        /\ tx[c].prev = Stored(p, r.key) /\ left \in Nat
        /\ rows' = [rows EXCEPT ![p] = [rows[p] EXCEPT ![r.key] = Absent]]
        /\ bytes' = [bytes EXCEPT ![p] = IF left <= 0 THEN Absent ELSE left]
        /\ Usage(rows'[p]) = Usage(rows[p]) - EntryBytes(rows[p], r.key)
        /\ Usage(rows'[p]) \in Nat /\ IsFiniteSet(Present(rows'[p]))
    BY <1>8, <2>0, DeleteCommitBytes DEF QInv
  <2>2. Passed'
    BY <1>6, <1>8 DEF DeleteCommit, Return
  <2>3. /\ Counted(p) \in Int /\ Usage(rows[p]) \in Nat /\ Usage(rows[p]) <= Counted(p)
        /\ tx[c].prev \in Nat /\ tx[c].prev <= EntryBytes(rows[p], r.key)
        /\ EntryBytes(rows[p], r.key) \in Nat /\ EntryBytes(rows[p], r.key) <= Usage(rows[p])
    <3>1. rows[p] \in Buckets /\ IsFiniteSet(Present(rows[p]))
      BY <2>1 DEF IInv, Types, Buckets, QInv, Finite
    <3> QED
      BY <2>1, <3>1, StoredType, StoredFacts, EntryFacts, UsageType DEF IInv, QInv, Covered
  <2>4. /\ Counted(p)' = left
        /\ \A q \in Particles \ {p} : Counted(q)' = Counted(q)
    <3> HIDE DEF left
    <3>1. CASE left <= 0
      <4>1. left = 0 /\ bytes' = [bytes EXCEPT ![p] = Absent]
        BY <2>1, <3>1
      <4> QED
        BY <4>1, CountedAfter DEF IInv
    <3>2. CASE ~(left <= 0)
      BY <2>1, <3>2, CountedAfter DEF IInv
    <3> QED
      BY <3>1, <3>2
  <2>5. Usage(rows'[p]) <= Counted(p)'
    BY <2>1, <2>3, <2>4
  <2>6. Quota > 0 => Counted(p)' <= Quota
    BY <2>1, <2>3, <2>4, QuotaAssumption DEF QInv, Capped
  <2>7. \A q \in Particles \ {p} : rows'[q] = rows[q] /\ Counted(q)' = Counted(q)
    BY <2>1, <2>4 DEF IInv, Types
  <2> QED
    BY <2>1, <2>2, <2>5, <2>6, <2>7 DEF QInv, Finite, Covered, Capped
<1>9. CASE UNCHANGED vars
  BY <1>9, QQuiet DEF vars, QInv, Passed, NewBytes
<1> QED
  BY <1>1, <1>2, <1>3, <1>4, <1>5, <1>7, <1>8, <1>9 DEF Next

\* "two concurrent writes can't both squeak past the cap": whatever the interleaving of
\* transactions of any number of clients, and for texts of any alphabet.  The counter may
\* be too high where characters are wider than a byte, never too low.
THEOREM QuotaIsKept == Spec => []NamespaceWithinQuota
<1>1. IInv /\ QInv => NamespaceWithinQuota
  <2> SUFFICES ASSUME IInv, QInv, Quota > 0, NEW p \in Particles
               PROVE  Usage(rows[p]) <= Quota
    BY DEF NamespaceWithinQuota
  <2>1. rows[p] \in Buckets /\ IsFiniteSet(Present(rows[p]))
    BY DEF IInv, Types, Buckets, QInv, Finite
  <2>2. Usage(rows[p]) \in Nat /\ Counted(p) \in Int
    BY <2>1, UsageType DEF IInv, Types, Counted
  <2> QED
    BY <2>2, QuotaAssumption DEF QInv, Covered, Capped
<1> QED
  BY <1>1, InitInv, NextInv, QInit, QStep, PTL DEF Spec

-----------------------------------------------------------------------------
(* The counter is exact, for texts of one byte per character.              *)

LEMMA SyncInit == Init => UsageInSync
<1> SUFFICES ASSUME Init, NEW p \in Particles
             PROVE  Counted(p) = Usage(rows[p]) /\ bytes[p] = Absent
  BY DEF UsageInSync
<1>1. Present(rows[p]) = {} /\ rows[p] \in Buckets
  BY DEF Init, Present, Buckets
<1>2. Usage(rows[p]) = Total(SizesOf(rows[p])) /\ SizesOf(rows[p]) \in [{} -> Nat]
  BY <1>1, SizesType DEF Usage, SizesOf
<1> QED
  BY <1>2, TotalZero DEF Init, Counted

LEMMA SyncStep ==
  ASSUME OneByteTexts, IInv, QInv, UsageInSync, [Next]_vars
  PROVE  UsageInSync'
<1>1. ASSUME UNCHANGED <<rows, bytes>> PROVE UsageInSync'
  BY <1>1 DEF UsageInSync, Counted
<1>2. ASSUME NEW c \in Clients, SetCommit(c) PROVE UsageInSync'
  <2> DEFINE r == request[c]
  <2>1. PICK p \in Particles : p = r.particle
    BY <1>2, SetCommitBytes DEF QInv
  <2>2. /\ NewBytes(r) \in Nat /\ r.key \in Keys /\ tx[c].prev = Stored(p, r.key)
        /\ rows' = [rows EXCEPT ![p] = [rows[p] EXCEPT ![r.key] = r.value]]
        /\ bytes' = [bytes EXCEPT ![p] = Counted(p) + NewBytes(r) - tx[c].prev]
        /\ Usage(rows'[p]) = Usage(rows[p]) - EntryBytes(rows[p], r.key) + NewBytes(r)
        /\ Present(rows'[p]) # {}
    BY <1>2, <2>1, SetCommitBytes DEF QInv
  <2>3. /\ Usage(rows[p]) \in Nat /\ Counted(p) = Usage(rows[p])
        /\ tx[c].prev = EntryBytes(rows[p], r.key)
        /\ EntryBytes(rows[p], r.key) \in Nat /\ EntryBytes(rows[p], r.key) <= Usage(rows[p])
    <3>1. rows[p] \in Buckets /\ IsFiniteSet(Present(rows[p]))
      BY DEF IInv, Types, Buckets, QInv, Finite
    <3> QED
      BY <2>2, <3>1, StoredFacts, EntryFacts, UsageType DEF IInv, UsageInSync
  <2>4. /\ Counted(p)' = Usage(rows'[p])
        /\ \A q \in Particles \ {p} : Counted(q)' = Counted(q)
    <3> DEFINE sum == Counted(p) + NewBytes(r) - tx[c].prev
    <3>1. sum \in Nat /\ sum = Usage(rows'[p])
      BY <2>2, <2>3
    <3>2. bytes' = [bytes EXCEPT ![p] = sum]
      BY <2>2
    <3> HIDE DEF sum
    <3>3. Counted(p)' = sum /\ \A q \in Particles \ {p} : Counted(q)' = Counted(q)
      BY <3>1, <3>2, CountedAfter DEF IInv
    <3> QED
      BY <3>1, <3>3
  <2>5. \A q \in Particles \ {p} : rows'[q] = rows[q] /\ bytes'[q] = bytes[q]
    BY <2>2 DEF IInv, Types
  <2> QED
    BY <2>2, <2>4, <2>5 DEF UsageInSync
<1>3. ASSUME NEW c \in Clients, DeleteCommit(c) PROVE UsageInSync'
  <2> DEFINE r == request[c]
  <2>1. PICK p \in Particles : p = r.particle
    BY <1>3, DeleteCommitBytes DEF QInv
  <2> DEFINE left == Counted(p) - tx[c].prev
  <2>2. /\ r.key \in Keys /\ tx[c].prev = Stored(p, r.key) /\ left \in Nat
        /\ rows' = [rows EXCEPT ![p] = [rows[p] EXCEPT ![r.key] = Absent]]
        /\ bytes' = [bytes EXCEPT ![p] = IF left <= 0 THEN Absent ELSE left]
        /\ Usage(rows'[p]) = Usage(rows[p]) - EntryBytes(rows[p], r.key)
        /\ IsFiniteSet(Present(rows'[p]))
    BY <1>3, <2>1, DeleteCommitBytes DEF QInv
  <2>3. left = Usage(rows'[p])
    <3>1. rows[p] \in Buckets /\ IsFiniteSet(Present(rows[p]))
      BY DEF IInv, Types, Buckets, QInv, Finite
    <3> QED
      BY <2>2, <3>1, StoredFacts DEF IInv, UsageInSync
  <2>4. \A q \in Particles \ {p} : rows'[q] = rows[q] /\ bytes'[q] = bytes[q]
    BY <2>2 DEF IInv, Types
  <2>5. Present(rows'[p]) = {} => Usage(rows'[p]) = 0
    <3>1. rows'[p] \in Buckets
      BY <2>2 DEF IInv, Types, Buckets
    <3>2. Usage(rows'[p]) = Total(SizesOf(rows'[p])) /\ SizesOf(rows'[p]) \in [Present(rows'[p]) -> Nat]
      BY <3>1, SizesType DEF Usage, SizesOf
    <3> QED
      BY <3>2, TotalZero
  <2> HIDE DEF left
  <2>6. CASE left <= 0
    <3>1. left = 0 /\ bytes' = [bytes EXCEPT ![p] = Absent] /\ bytes'[p] = Absent
      BY <2>2, <2>6 DEF IInv, Types
    <3>2. Counted(p)' = 0 /\ \A q \in Particles \ {p} : Counted(q)' = Counted(q)
      BY <3>1, CountedAfter DEF IInv
    <3> QED
      BY <2>3, <2>4, <3>1, <3>2 DEF UsageInSync
  <2>7. CASE ~(left <= 0)
    <3>1. left # 0 /\ bytes' = [bytes EXCEPT ![p] = left]
      BY <2>2, <2>7
    <3>2. Counted(p)' = left /\ \A q \in Particles \ {p} : Counted(q)' = Counted(q)
      BY <2>2, <3>1, CountedAfter DEF IInv
    <3> QED
      BY <2>3, <2>4, <2>5, <3>1, <3>2 DEF UsageInSync
  <2> QED
    BY <2>6, <2>7
<1> QED
  BY <1>1, <1>2, <1>3
     DEF Next, vars, Call, SetRead, Lock, DeleteRead, Get, List, Rollback

\* "The counter is maintained transactionally alongside every Set / Delete": it is the
\* sum of the entries at every step, and no usage row outlives the last entry.  The
\* hypothesis is needed: with wider characters Set adds bytes and takes off characters.
THEOREM CounterIsExact ==
  ASSUME OneByteTexts
  PROVE  Spec => []UsageInSync
<1>1. IInv /\ QInv /\ UsageInSync /\ [Next]_vars => UsageInSync'
  BY SyncStep
<1> QED
  BY <1>1, SyncInit, InitInv, NextInv, QInit, QStep, PTL DEF Spec

-----------------------------------------------------------------------------
(* The backend implements the contract.                                    *)

\* LIKE ignores the case of ASCII letters; on keys in one case it is HasPrefix.
LikeIsPrefix == Like = HasPrefix

LEMMA SameUsage == \A b : Contract!Usage(b) = Usage(b) /\ Contract!Present(b) = Present(b)
<1> TAKE b
<1>1. Contract!Present(b) = Present(b)
  BY DEF Present, Contract!Present
<1> DEFINE sizes == [k \in Present(b) |-> Bytes[k] + Bytes[b[k]]]
<1>2. Contract!Usage(b) = Contract!Total(sizes) /\ Usage(b) = Total(sizes)
  BY <1>1 DEF Usage, Contract!Usage
<1> HIDE DEF sizes
<1>3. Contract!Units(sizes) = Units(sizes)
  BY DEF Units, Contract!Units
<1>4. Contract!Cardinality(Units(sizes)) = Cardinality(Units(sizes))
  BY DEF Cardinality, Contract!Cardinality
<1>5. Contract!Total(sizes) = Total(sizes)
  BY <1>3, <1>4 DEF Total, Contract!Total
<1> QED
  BY <1>1, <1>2, <1>5

\* What the quota check of the transaction compares is what the contract compares.
LEMMA SameCheck ==
  ASSUME OneByteTexts, IInv, QInv, UsageInSync, NEW r \in Requests, r.op = "set"
  PROVE  Usage([rows[r.particle] EXCEPT ![r.key] = r.value])
           = Counted(r.particle) + NewBytes(r) - Stored(r.particle, r.key)
<1>1. r.particle \in Particles /\ r.key \in Keys /\ r.value \in Values
  BY RequestTypes
<1>2. rows[r.particle] \in Buckets /\ IsFiniteSet(Present(rows[r.particle]))
  BY <1>1 DEF IInv, Types, Buckets, QInv, Finite
<1>3. Counted(r.particle) = Usage(rows[r.particle])
  BY <1>1 DEF UsageInSync
<1>4. Stored(r.particle, r.key) = EntryBytes(rows[r.particle], r.key)
  BY <1>1, StoredFacts DEF IInv
<1>5. Usage([rows[r.particle] EXCEPT ![r.key] = r.value])
        = Usage(rows[r.particle]) - EntryBytes(rows[r.particle], r.key) + NewBytes(r)
  BY <1>1, <1>2, UsageSet DEF NewBytes
<1>6. /\ Usage(rows[r.particle]) \in Nat /\ NewBytes(r) \in Nat
      /\ EntryBytes(rows[r.particle], r.key) \in Nat
  BY <1>1, <1>2, UsageType, EntryFacts, TextsAssumption DEF NewBytes, Texts
<1> QED
  BY <1>3, <1>4, <1>5, <1>6

LEMMA StepImplements ==
  ASSUME OneByteTexts, LikeIsPrefix, IInv, QInv, UsageInSync, [Next]_vars
  PROVE  [Contract!Next]_(Contract!vars)
<1> USE DEF Contract!vars, Contract!Return, Return
<1>1. ASSUME NEW c \in Clients, NEW r \in Requests, Call(c, r)
      PROVE  Contract!Next
  <2>1. Contract!Call(c, r)
    BY <1>1 DEF Call, Contract!Call, NoRequest, Contract!NoRequest, Unanswered, Contract!Unanswered
  <2>2. Contract!Requests = Requests
    BY DEF Contract!Requests, Requests
  <2> QED
    BY <2>1, <2>2 DEF Contract!Next
<1>2. ASSUME NEW c \in Clients, SetRead(c)
      PROVE  Contract!Set(c) \/ UNCHANGED Contract!vars
  <2>1. CASE Quota > 0 /\ Counted(request[c].particle) + NewBytes(request[c])
                            - Stored(request[c].particle, request[c].key) > Quota
    <3>1. request[c] \in Requests /\ request[c].op = "set"
      BY <1>2 DEF SetRead, Running, IInv, Types
    <3>2. Contract!Usage([rows[request[c].particle] EXCEPT ![request[c].key] = request[c].value])
            > Quota
      BY <2>1, <3>1, SameCheck, SameUsage
    <3> QED
      BY <1>2, <2>1, <3>1, <3>2
         DEF SetRead, Running, Contract!Set, NoRequest, Contract!NoRequest
  <2>2. CASE ~(Quota > 0 /\ Counted(request[c].particle) + NewBytes(request[c])
                              - Stored(request[c].particle, request[c].key) > Quota)
    BY <1>2, <2>2 DEF SetRead
  <2> QED
    BY <2>1, <2>2
<1>3. ASSUME NEW c \in Clients, SetCommit(c)
      PROVE  Contract!Set(c)
  <2>1. /\ request[c] \in Requests /\ request[c].op = "set" /\ tx[c].stage = "locked"
        /\ request[c] # NoRequest
    BY <1>3 DEF SetCommit, Running, IInv, Types
  <2>2. /\ tx[c].prev = Stored(request[c].particle, request[c].key)
        /\ tx[c].current = Counted(request[c].particle)
    BY <2>1 DEF IInv, OneWriter, Fresh, FreshAt
  <2>3. ~(Quota > 0 /\ Contract!Usage([rows[request[c].particle]
                                         EXCEPT ![request[c].key] = request[c].value]) > Quota)
    <3>1. Counted(request[c].particle) + NewBytes(request[c])
            - Stored(request[c].particle, request[c].key) \in Int
      BY <2>1, RequestTypes, StoredType, TextsAssumption DEF IInv, NewBytes, Texts
    <3>2. Quota > 0 => Counted(request[c].particle) + NewBytes(request[c])
                         - Stored(request[c].particle, request[c].key) <= Quota
      BY <2>1, <2>2 DEF QInv, Passed
    <3> QED
      BY <2>1, <3>1, <3>2, SameCheck, SameUsage, QuotaAssumption
  <2> QED
    BY <1>3, <2>1, <2>3
       DEF SetCommit, Contract!Set, NoRequest, Contract!NoRequest
<1>4. ASSUME NEW c \in Clients, DeleteRead(c)
      PROVE  Contract!Delete(c) \/ UNCHANGED Contract!vars
  <2>1. CASE rows[request[c].particle][request[c].key] = Absent
    <3>1. request[c] \in Requests /\ request[c].op = "delete"
      BY <1>4 DEF DeleteRead, Running, IInv, Types
    <3>2. rows = [rows EXCEPT ![request[c].particle][request[c].key] = Absent]
      BY <2>1, <3>1, RequestTypes DEF IInv, Types
    <3> QED
      BY <1>4, <2>1, <3>2
         DEF DeleteRead, Running, Contract!Delete, NoRequest, Contract!NoRequest
  <2>2. CASE rows[request[c].particle][request[c].key] # Absent
    BY <1>4, <2>2 DEF DeleteRead
  <2> QED
    BY <2>1, <2>2
<1>5. ASSUME NEW c \in Clients, DeleteCommit(c)
      PROVE  Contract!Delete(c)
  BY <1>5 DEF DeleteCommit, Running, Contract!Delete, NoRequest, Contract!NoRequest
<1>6. ASSUME NEW c \in Clients, Get(c)
      PROVE  Contract!Get(c)
  BY <1>6 DEF Get, Running, Contract!Get, NoRequest, Contract!NoRequest
<1>7. ASSUME NEW c \in Clients, List(c)
      PROVE  Contract!List(c)
  BY <1>7, SameUsage
     DEF List, Running, LikeIsPrefix, Contract!List, NoRequest, Contract!NoRequest
<1>8. ASSUME NEW c \in Clients, Rollback(c)
      PROVE  Contract!StorageError(c)
  BY <1>8 DEF Rollback, Contract!StorageError, NoRequest, Contract!NoRequest
<1>9. ASSUME NEW c \in Clients, Lock(c)
      PROVE  UNCHANGED Contract!vars
  BY <1>9 DEF Lock
<1>10. CASE UNCHANGED vars
  BY <1>10 DEF vars
<1> QED
  BY <1>1, <1>2, <1>3, <1>4, <1>5, <1>6, <1>7, <1>8, <1>9, <1>10, Zenon
     DEF Next, Contract!Next

\* The refinement: every Set, Delete, Get and List of the SQLite backend takes effect at
\* one instant between its call and its return, in full or, with an error, not at all,
\* and is refused exactly when the contract says.  A refused Set takes effect at its
\* quota check, one that is made at its commit.
THEOREM BackendImplementsContract ==
  ASSUME OneByteTexts, LikeIsPrefix
  PROVE  Spec => ImplementsContract
<1>1. Init => Contract!Init
  BY DEF Init, Contract!Init, NoRequest, Contract!NoRequest, Unanswered, Contract!Unanswered
<1>2. IInv /\ QInv /\ UsageInSync /\ [Next]_vars => [Contract!Next]_(Contract!vars)
  BY StepImplements
<1>3. IInv /\ QInv /\ UsageInSync /\ [Next]_vars => UsageInSync'
  BY SyncStep
<1> QED
  BY <1>1, <1>2, <1>3, SyncInit, InitInv, NextInv, QInit, QStep, PTL
     DEF Spec, ImplementsContract, Contract!Spec
=============================================================================
