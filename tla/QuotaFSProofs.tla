---------------------------- MODULE QuotaFSProofs ----------------------------
(***************************************************************************)
(* The counter of QuotaFS, for every number of callers, names, files and   *)
(* handles and every interleaving of their operations.                     *)
(*                                                                         *)
(* It stays within the cap: what a step adds has passed Fits in the same   *)
(* step, and what it takes off is never negative, which is why the         *)
(* invariant also says how the sizes a resize has read and asked for       *)
(* compare.                                                                *)
(*                                                                         *)
(* With sequential use it covers the bytes that can be reached: the        *)
(* operations in progress owe the difference, and each finds its file as  *)
(* it was when it read the size.                                           *)
(***************************************************************************)
EXTENDS QuotaFS, Integers, FiniteSetTheorems, FunctionTheorems, TLAPS

\* Sums, of which Totals is the definition.

\* One entry's units are as many as it says.
LEMMA UnitsOfOne ==
  ASSUME NEW x, NEW n \in Nat
  PROVE  IsFiniteSet({x} \X (1..n)) /\ Cardinality({x} \X (1..n)) = n
<1>1. IsFiniteSet(1..n) /\ Cardinality(1..n) = n
  BY FS_Interval
<1>2. IsFiniteSet({x}) /\ Cardinality({x}) = 1
  BY FS_Singleton
<1>3. IsFiniteSet({x} \X (1..n)) /\ Cardinality({x} \X (1..n)) = 1 * n
  BY <1>1, <1>2, FS_Product, ZenonT(30)
<1> QED
  BY <1>3

\* Finitely many entries have finitely many units.
LEMMA UnitsFinite ==
  ASSUME NEW S, IsFiniteSet(S), NEW f \in [S -> Nat]
  PROVE  IsFiniteSet(Units(f))
<1> DEFINE part == [x \in S |-> {x} \X (1..f[x])]
<1>1. part \in Surjection(S, Range(part))
  <2>1. part \in [S -> SUBSET (S \X Nat)]
    OBVIOUS
  <2> QED
    BY <2>1, Fun_RangeProperties
<1>2. IsFiniteSet(Range(part))
  BY <1>1, FS_Surjection
<1>3. \A x \in S : IsFiniteSet({x} \X (1..f[x]))
  BY UnitsOfOne
<1>4. \A T \in Range(part) : IsFiniteSet(T)
  BY <1>3 DEF Range
<1>5. IsFiniteSet(UNION Range(part))
  BY <1>2, <1>4, FS_UNION
<1>6. Units(f) = UNION Range(part)
  BY DEF Units, Range
<1> QED
  BY <1>5, <1>6

\* A sum is a natural number.
LEMMA TotalType ==
  ASSUME NEW S, IsFiniteSet(S), NEW f \in [S -> Nat]
  PROVE  Total(f) \in Nat
BY UnitsFinite, FS_CardinalityType DEF Total

\* The sum of nothing, and of nothing but zeros.
LEMMA TotalZero ==
  ASSUME NEW S, NEW f \in [S -> Nat], \A x \in S : f[x] = 0
  PROVE  Total(f) = 0
<1>1. Units(f) = {}
  BY DEF Units
<1> QED
  BY <1>1, FS_EmptySet DEF Total

\* One entry and the rest.
LEMMA TotalSplit ==
  ASSUME NEW S, IsFiniteSet(S), NEW f \in [S -> Nat], NEW x \in S
  PROVE  Total(f) = f[x] + Total([y \in S \ {x} |-> f[y]])
<1> DEFINE rest == [y \in S \ {x} |-> f[y]]
           one == {x} \X (1..f[x])
<1>1. IsFiniteSet(one) /\ Cardinality(one) = f[x]
  BY UnitsOfOne
<1>2. IsFiniteSet(S \ {x}) /\ rest \in [S \ {x} -> Nat]
  BY FS_RemoveElement
<1>3. IsFiniteSet(Units(rest)) /\ Total(rest) \in Nat
  BY <1>2, UnitsFinite, TotalType
<1>4. Units(f) = one \union Units(rest)
  BY DEF Units
<1>5. one \intersect Units(rest) = {}
  BY DEF Units
<1>6. Cardinality(one \union Units(rest))
        = Cardinality(one) + Cardinality(Units(rest)) - Cardinality(one \intersect Units(rest))
  BY <1>1, <1>3, FS_Union
<1>7. Cardinality(one \union Units(rest)) = f[x] + Total(rest)
  <2>1. Cardinality(one \intersect Units(rest)) = 0
    BY <1>5, FS_EmptySet
  <2> HIDE DEF one, rest
  <2> QED
    BY <1>1, <1>3, <1>6, <2>1 DEF Total
<1> QED
  BY <1>4, <1>7 DEF Total

\* A table with one entry changed.
LEMMA TotalChange ==
  ASSUME NEW S, IsFiniteSet(S), NEW f \in [S -> Nat], NEW g \in [S -> Nat], NEW x \in S,
         \A y \in S \ {x} : g[y] = f[y]
  PROVE  Total(g) = Total(f) - f[x] + g[x]
<1> DEFINE rest == [y \in S \ {x} |-> f[y]]
<1>1. [y \in S \ {x} |-> g[y]] = rest
  OBVIOUS
<1>2. Total(f) = f[x] + Total(rest) /\ Total(g) = g[x] + Total(rest)
  BY <1>1, TotalSplit
<1>3. Total(rest) \in Nat
  <2>1. IsFiniteSet(S \ {x}) /\ rest \in [S \ {x} -> Nat]
    BY FS_RemoveElement
  <2> QED
    BY <2>1, TotalType
<1> QED
  BY <1>2, <1>3

\* A table with one entry more.
LEMMA TotalGrow ==
  ASSUME NEW S, IsFiniteSet(S), NEW x, x \notin S, NEW f \in [S -> Nat],
         NEW g \in [S \union {x} -> Nat], \A y \in S : g[y] = f[y]
  PROVE  Total(g) = Total(f) + g[x]
<1>1. IsFiniteSet(S \union {x})
  BY FS_AddElement
<1>2. [y \in (S \union {x}) \ {x} |-> g[y]] = f
  OBVIOUS
<1>3. Total(g) = g[x] + Total([y \in (S \union {x}) \ {x} |-> g[y]])
  BY <1>1, TotalSplit
<1> QED
  BY <1>2, <1>3, TotalType

\* No entry is more than the sum.
LEMMA TotalBounds ==
  ASSUME NEW S, IsFiniteSet(S), NEW f \in [S -> Nat], NEW x \in S
  PROVE  f[x] <= Total(f)
<1>1. Total([y \in S \ {x} |-> f[y]]) \in Nat
  <2>1. IsFiniteSet(S \ {x}) /\ [y \in S \ {x} |-> f[y]] \in [S \ {x} -> Nat]
    BY FS_RemoveElement
  <2> QED
    BY <2>1, TotalType
<1> QED
  BY <1>1, TotalSplit

\* The part of the invariant about operations in progress.
OpsSound ==
  \A p \in Procs :
    /\ op[p].stage \in {"grow", "extend"} => op[p].old < op[p].to
    /\ op[p].stage = "shrink" => op[p].to <= op[p].old
    /\ op[p].stage \in {"opening", "unlink"} => op[p].name \in Names
    /\ op[p].stage = "opening" => op[p].handle \in Handles

OpsOK == op \in [Procs -> Ops]
CounterOK == used \in Nat /\ seed \in Nat
TreeOK ==
  /\ file \in [Names -> Inodes \union {None}]
  /\ link \in [Names -> Names \union {None}]
  /\ size \in [Inodes -> Offsets]
  /\ open \in [Handles -> Inodes \union {None}]

IInv == TreeOK /\ CounterOK /\ OpsOK /\ OpsSound

\* What an operation gives back was reserved, so it is never negative.
LEMMA RefundRange ==
  ASSUME OpsOK, NEW p \in Procs, NEW end \in op[p].from..op[p].to
  PROVE  Refund(p, end) \in Offsets
<1>1. op[p].old \in Offsets /\ op[p].to \in Offsets /\ op[p].from \in Offsets
  BY DEF OpsOK, Ops
<1> QED
  BY <1>1, SizeAssumption DEF Refund, Growth, Offsets

LEMMA NewOpType ==
  ASSUME NEW stage \in Stages, NEW h \in Handles \union {None},
         NEW n \in Names \union {None},
         NEW old \in Offsets, NEW from \in Offsets, NEW to \in Offsets
  PROVE  NewOp(stage, h, n, old, from, to) \in Ops
BY SizeAssumption DEF NewOp, Ops, Offsets

LEMMA IdleType == Idle \in Ops
<1>1. "idle" \in Stages
  BY DEF Stages
<1>2. 0 \in Offsets
  BY SizeAssumption DEF Offsets
<1> QED
  BY <1>1, <1>2, NewOpType DEF Idle

\* What a name resolves to, and the size the metering reads for it.
LEMMA ResolveType ==
  ASSUME TreeOK, NEW n \in Names
  PROVE  Target(n) \in Names /\ Resolve(n) \in Inodes \union {None} /\ StatSize(n) \in Offsets
<1>1. Target(n) \in Names
  BY DEF TreeOK, Target
<1>2. Resolve(n) \in Inodes \union {None}
  BY <1>1 DEF TreeOK, Resolve
<1>3. StatSize(n) \in Offsets
  BY <1>2, SizeAssumption DEF TreeOK, StatSize, Offsets
<1> QED
  BY <1>1, <1>2, <1>3

-----------------------------------------------------------------------------
(* One step.                                                               *)

\* Beginning or ending an operation.
LEMMA BeginType ==
  ASSUME OpsOK, NEW p \in Procs, NEW o \in Ops
  PROVE  [op EXCEPT ![p] = o] \in [Procs -> Ops]
BY DEF OpsOK

\* Moving an operation to its next stage.
LEMMA StageType ==
  ASSUME OpsOK, NEW p \in Procs, NEW s \in Stages, NEW c \in Offsets
  PROVE  /\ [op EXCEPT ![p].stage = s] \in [Procs -> Ops]
         /\ [op EXCEPT ![p].stage = s, ![p].credit = c] \in [Procs -> Ops]
BY DEF OpsOK, Ops

\* Opening a name, and creating it when it is absent.
LEMMA LinkType ==
  ASSUME TreeOK, NEW h \in Handles, NEW n \in Names, NEW truncate \in BOOLEAN,
         Link(h, n, truncate)
  PROVE  /\ file' \in [Names -> Inodes \union {None}]
         /\ size' \in [Inodes -> Offsets]
         /\ open' \in [Handles -> Inodes \union {None}]
<1>0. 0 \in Offsets
  BY SizeAssumption DEF Offsets
<1>1. CASE Resolve(n) # None
  <2>1. Resolve(n) \in Inodes
    BY <1>1, ResolveType
  <2> QED
    BY <1>0, <1>1, <2>1 DEF Link, TreeOK
<1>2. CASE Resolve(n) = None
  <2>1. PICK i \in Inodes : /\ file' = [file EXCEPT ![Target(n)] = i]
                           /\ open' = [open EXCEPT ![h] = i]
                           /\ size' = [size EXCEPT ![i] = 0]
    BY <1>2 DEF Link, FreeInode
  <2> QED
    BY <1>0, <2>1 DEF TreeOK
<1> QED
  BY <1>1, <1>2

LEMMA StepInvariant == ASSUME IInv, [Next]_vars PROVE IInv'
<1> USE DEF IInv
<1>0. 0 \in Offsets
  BY SizeAssumption DEF Offsets
<1>1. ASSUME NEW p \in Procs, NEW h \in Handles, NEW from \in Offsets,
             NEW to \in Offsets, WriteAt(p, h, from, to)
      PROVE  IInv'
  <2>1. size[open[h]] \in Offsets
    BY <1>1 DEF WriteAt, TreeOK
  <2>2. NewOp("write", h, None, size[open[h]], from, to) \in Ops
    BY <2>1, NewOpType DEF Stages
  <2>3. OpsOK'
    BY <1>1, <2>2, BeginType DEF WriteAt, Begin, OpsOK
  <2>4. OpsSound'
    BY <1>1 DEF WriteAt, Begin, OpsSound, OpsOK, NewOp
  <2> QED
    BY <1>1, <2>3, <2>4 DEF WriteAt, TreeOK, CounterOK
<1>2. ASSUME NEW p \in Procs, NEW h \in Handles, NEW to \in Offsets, Truncate(p, h, to)
      PROVE  IInv'
  <2> DEFINE old == size[open[h]]
             stage == IF to > old THEN "grow" ELSE "shrink"
  <2>1. old \in Offsets
    BY <1>2 DEF Truncate, TreeOK
  <2>2. NewOp(stage, h, None, old, 0, to) \in Ops
    BY <1>0, <2>1, NewOpType DEF Stages
  <2>3. OpsOK'
    BY <1>2, <2>2, BeginType DEF Truncate, Begin, OpsOK
  <2>4. OpsSound'
    BY <1>2, <2>1, SizeAssumption DEF Truncate, Begin, OpsSound, OpsOK, NewOp, Offsets
  <2> QED
    BY <1>2, <2>3, <2>4 DEF Truncate, TreeOK, CounterOK
<1>3. ASSUME NEW p \in Procs, NEW h \in Handles, NEW n \in Names, OpenTrunc(p, h, n)
      PROVE  IInv'
  <2>1. NewOp("opening", h, n, StatSize(n), 0, 0) \in Ops
    BY <1>0, ResolveType, NewOpType DEF Stages
  <2>2. OpsOK'
    BY <1>3, <2>1, BeginType DEF OpenTrunc, Begin, OpsOK
  <2>3. OpsSound'
    BY <1>3 DEF OpenTrunc, Begin, OpsSound, OpsOK, NewOp
  <2> QED
    BY <1>3, <2>2, <2>3 DEF OpenTrunc, TreeOK, CounterOK
<1>4. ASSUME NEW p \in Procs, NEW n \in Names, Unlink(p, n)
      PROVE  IInv'
  <2>1. NewOp("unlink", None, n, StatSize(n), 0, 0) \in Ops
    BY <1>0, ResolveType, NewOpType DEF Stages
  <2>2. OpsOK'
    BY <1>4, <2>1, BeginType DEF Unlink, Begin, OpsOK
  <2>3. OpsSound'
    BY <1>4 DEF Unlink, Begin, OpsSound, OpsOK, NewOp
  <2> QED
    BY <1>4, <2>2, <2>3 DEF Unlink, TreeOK, CounterOK
<1>5. ASSUME NEW p \in Procs, Reserve(p)
      PROVE  IInv'
  <2>1. op[p] \in Ops /\ op[p].old \in Nat /\ op[p].to \in Nat
    BY SizeAssumption DEF OpsOK, Ops, Offsets
  <2>2. Growth(op[p].old, op[p].to) \in Nat
    BY <2>1 DEF Growth
  <2>3. CounterOK'
    BY <1>5, <2>2 DEF Reserve, CounterOK
  <2>4. OpsOK'
    <3>1. PICK s \in {"reserved", "extend"} :
            op' = [op EXCEPT ![p].stage = s] \/ op' = [op EXCEPT ![p] = Idle]
      BY <1>5 DEF Reserve
    <3>2. [op EXCEPT ![p].stage = s] \in [Procs -> Ops]
      BY <1>0, StageType DEF Stages
    <3>3. [op EXCEPT ![p] = Idle] \in [Procs -> Ops]
      BY IdleType, BeginType
    <3> QED
      BY <3>1, <3>2, <3>3 DEF OpsOK
  <2>5. OpsSound'
    BY <1>5, <2>1 DEF Reserve, OpsSound, OpsOK, Ops, Idle, NewOp
  <2> QED
    BY <1>5, <2>3, <2>4, <2>5 DEF Reserve, TreeOK
<1>6. ASSUME NEW p \in Procs, BackingWrite(p)
      PROVE  IInv'
  <2> DEFINE i == open[op[p].handle]
  <2>1. PICK end \in op[p].from..op[p].to :
          /\ size' = [size EXCEPT ![i] = IF end > op[p].from /\ end > @ THEN end ELSE @]
          /\ op' = [op EXCEPT ![p].stage = "credit", ![p].credit = Refund(p, end)]
    BY <1>6 DEF BackingWrite
  <2>2. end \in Offsets
    BY SizeAssumption DEF OpsOK, Ops, Offsets
  <2>3. size' \in [Inodes -> Offsets]
    BY <2>1, <2>2 DEF TreeOK
  <2>4. OpsOK'
    BY <2>1, RefundRange, StageType DEF OpsOK, Stages
  <2>5. OpsSound'
    BY <2>1 DEF OpsSound, OpsOK, Ops
  <2> QED
    BY <1>6, <2>3, <2>4, <2>5 DEF BackingWrite, TreeOK, CounterOK
<1>7. ASSUME NEW p \in Procs, BackingTruncate(p)
      PROVE  IInv'
  <2>1. op[p].to \in Offsets /\ op[p].old \in Offsets
    BY DEF OpsOK, Ops
  <2>2. size' \in [Inodes -> Offsets]
    BY <1>7, <2>1 DEF BackingTruncate, TreeOK
  <2>3. PICK c : op' = [op EXCEPT ![p].stage = "credit", ![p].credit = c]
                 /\ c \in {0} \union
                          (IF op[p].stage = "shrink" THEN {op[p].old - op[p].to}
                           ELSE {op[p].to - op[p].old})
    BY <1>7 DEF BackingTruncate
  <2>4. c \in Offsets
    BY <1>7, <2>1, <2>3, SizeAssumption DEF BackingTruncate, OpsSound, Offsets
  <2>5. OpsOK'
    BY <2>3, <2>4, StageType DEF OpsOK, Stages
  <2>6. OpsSound'
    BY <2>3 DEF OpsSound, OpsOK, Ops
  <2> QED
    BY <1>7, <2>2, <2>5, <2>6 DEF BackingTruncate, TreeOK, CounterOK
<1>8. ASSUME NEW p \in Procs, BackingOpen(p)
      PROVE  IInv'
  <2>1. op[p].name \in Names /\ op[p].handle \in Handles /\ op[p].old \in Offsets
    BY <1>8 DEF BackingOpen, OpsSound, OpsOK, Ops
  <2>2. TreeOK'
    BY <1>8, <2>1, LinkType DEF BackingOpen, TreeOK
  <2>3. OpsOK'
    BY <1>8, <2>1, StageType DEF BackingOpen, OpsOK, Stages
  <2>4. OpsSound'
    BY <1>8 DEF BackingOpen, OpsSound, OpsOK, Ops
  <2> QED
    BY <1>8, <2>2, <2>3, <2>4 DEF BackingOpen, CounterOK
<1>9. ASSUME NEW p \in Procs, BackingRemove(p)
      PROVE  IInv'
  <2>1. op[p].old \in Offsets
    BY DEF OpsOK, Ops
  <2>2. TreeOK'
    BY <1>9 DEF BackingRemove, TreeOK
  <2>3. OpsOK'
    BY <1>9, <2>1, StageType DEF BackingRemove, OpsOK, Stages
  <2>4. OpsSound'
    BY <1>9 DEF BackingRemove, OpsSound, OpsOK, Ops
  <2> QED
    BY <1>9, <2>2, <2>3, <2>4 DEF BackingRemove, CounterOK
<1>10. ASSUME NEW p \in Procs, Release(p)
       PROVE  IInv'
  <2>1. op[p].credit \in Nat
    BY SizeAssumption DEF OpsOK, Ops, Offsets
  <2>2. CounterOK'
    BY <1>10, <2>1 DEF Release, CounterOK
  <2>3. OpsOK'
    BY <1>10, IdleType, BeginType DEF Release, OpsOK
  <2>4. OpsSound'
    BY <1>10 DEF Release, OpsSound, OpsOK, Idle, NewOp
  <2> QED
    BY <1>10, <2>2, <2>3, <2>4 DEF Release, TreeOK
<1>11. ASSUME NEW h \in Handles, NEW n \in Names, OpenPlain(h, n)
       PROVE  IInv'
  <2>1. TreeOK'
    BY <1>11, LinkType DEF OpenPlain, TreeOK
  <2> QED
    BY <1>11, <2>1 DEF OpenPlain, CounterOK, OpsOK, OpsSound
<1>12. ASSUME NEW n \in Names, Rmdir(n)
       PROVE  IInv'
  BY <1>12 DEF Rmdir, TreeOK, CounterOK, OpsOK, OpsSound
<1>13. ASSUME NEW n \in Names, NEW t \in Names, Symlink(n, t)
       PROVE  IInv'
  BY <1>13 DEF Symlink, TreeOK, CounterOK, OpsOK, OpsSound
<1>14. ASSUME NEW h \in Handles, Close(h)
       PROVE  IInv'
  BY <1>14 DEF Close, TreeOK, CounterOK, OpsOK, OpsSound
<1>15. ASSUME NEW p \in Procs, BackingRefuses(p)
       PROVE  IInv'
  <2>1. OpsOK'
    BY <1>15, IdleType, BeginType DEF BackingRefuses, OpsOK
  <2>2. OpsSound'
    BY <1>15 DEF BackingRefuses, OpsSound, OpsOK, Idle, NewOp
  <2> QED
    BY <1>15, <2>1, <2>2 DEF BackingRefuses, TreeOK, CounterOK
<1>16. ASSUME UNCHANGED vars PROVE IInv'
  BY <1>16 DEF vars, TreeOK, CounterOK, OpsOK, OpsSound
<1> QED
  BY <1>1, <1>2, <1>3, <1>4, <1>5, <1>6, <1>7, <1>8, <1>9, <1>10, <1>11, <1>12,
     <1>13, <1>14, <1>15, <1>16, Zenon DEF Next

LEMMA InitInvariant == Init => IInv
<1> SUFFICES ASSUME Init PROVE IInv
  OBVIOUS
<1>1. TreeOK /\ CounterOK
  BY DEF Init, TreeOK, CounterOK, Seeded
<1>2. OpsOK
  BY IdleType DEF Init, OpsOK
<1>3. OpsSound
  BY DEF Init, OpsSound, Idle, NewOp
<1> QED
  BY <1>1, <1>2, <1>3 DEF IInv

LEMMA Invariant == Spec => []IInv
BY InitInvariant, StepInvariant, PTL DEF Spec

-----------------------------------------------------------------------------
(* The theorems.                                                           *)

\* Every state of the counter, the directory and the operations in progress is
\* well-formed: quotafs.go never credits a negative number of bytes, whatever the
\* operations of other callers did between its steps.
THEOREM TypeCorrect == Spec => []TypeOK
<1>1. IInv => TypeOK
  BY DEF IInv, TreeOK, CounterOK, OpsOK, TypeOK
<1> QED
  BY <1>1, Invariant, PTL

\* A step leaves the counter within the cap, or no higher than it was.
LEMMA CapStep == ASSUME IInv, UsedWithinCap, [Next]_vars PROVE UsedWithinCap'
<1> USE DEF IInv
<1>1. ASSUME NEW p \in Procs, Reserve(p)
      PROVE  UsedWithinCap'
  <2> DEFINE n == Growth(op[p].old, op[p].to)
  <2>1. n \in Nat
    BY SizeAssumption DEF OpsOK, Ops, Offsets, Growth
  <2>2. CASE Fits(n)
    BY <1>1, <2>1, <2>2, CapAssumption
       DEF Reserve, Fits, UsedWithinCap, CounterOK
  <2>3. CASE ~Fits(n)
    BY <1>1, <2>3 DEF Reserve, UsedWithinCap
  <2> QED
    BY <2>2, <2>3
<1>2. ASSUME NEW p \in Procs, Release(p)
      PROVE  UsedWithinCap'
  <2>1. op[p].credit \in Nat
    BY SizeAssumption DEF OpsOK, Ops, Offsets
  <2> QED
    BY <1>2, <2>1, CapAssumption DEF Release, UsedWithinCap, CounterOK
<1>3. ASSUME UNCHANGED <<used, seed>> PROVE UsedWithinCap'
  BY <1>3 DEF UsedWithinCap
<1>4. CASE \/ \E p \in Procs :
               \/ \E h \in Handles, from, to \in Offsets : WriteAt(p, h, from, to)
               \/ \E h \in Handles, to \in Offsets : Truncate(p, h, to)
               \/ \E h \in Handles, n \in Names : OpenTrunc(p, h, n)
               \/ \E n \in Names : Unlink(p, n)
               \/ BackingWrite(p) \/ BackingTruncate(p)
               \/ BackingOpen(p) \/ BackingRemove(p) \/ BackingRefuses(p)
           \/ \E h \in Handles, n \in Names : OpenPlain(h, n)
           \/ \E n \in Names : Rmdir(n)
           \/ \E n, t \in Names : Symlink(n, t)
           \/ \E h \in Handles : Close(h)
           \/ UNCHANGED vars
  <2>1. UNCHANGED <<used, seed>>
    BY <1>4, Zenon
       DEF WriteAt, Truncate, OpenTrunc, Unlink, BackingWrite, BackingTruncate,
           BackingOpen, BackingRemove, BackingRefuses, OpenPlain, Rmdir, Symlink, Close,
           vars
  <2> QED
    BY <1>3, <2>1
<1> QED
  BY <1>1, <1>2, <1>4, Zenon DEF Next

\* The cap of a temp mount holds for the counter under any interleaving of any
\* number of callers, because tryReserve checks and adds in one critical section
\* and every release is of a non-negative amount.
THEOREM CapIsKept == Spec => []UsedWithinCap
<1>1. Init => UsedWithinCap
  BY DEF Init, Seeded, UsedWithinCap
<1> QED
  BY <1>1, CapStep, Invariant, PTL DEF Spec

-----------------------------------------------------------------------------
(* The counter and the bytes that are there.                               *)

\* What NeverUndercounts is true of: no two operations in progress on one file, no
\* links, and no file removed while it is open or by Rmdir.  Writes may stop early,
\* and write nothing.
Sequential == Allowed \subseteq {"short_write", "empty_write"}

FileOps == {"write", "reserved", "grow", "extend", "shrink"}
Busy(o) == o.stage \notin {"idle", "credit"}
WorksOn(o) == IF o.name = None THEN open[o.handle] ELSE file[o.name]

\* An operation in progress finds its file as it was when it read the size.
ReadyOp(o) ==
  /\ o.stage \in FileOps =>
       /\ o.name = None /\ o.handle \in Handles /\ open[o.handle] # None
       /\ o.old = size[open[o.handle]]
  /\ o.stage \in {"write", "reserved"} =>
       o.from <= o.to /\ ("empty_write" \notin Allowed => o.from < o.to)
  /\ o.stage = "opening" =>
       /\ open[o.handle] = None
       /\ o.old = IF file[o.name] = None THEN 0 ELSE size[file[o.name]]
  /\ o.stage = "unlink" =>
       /\ file[o.name] # None /\ o.old = size[file[o.name]]
       /\ \A h \in Handles : open[h] # file[o.name]

\* Two operations in progress do not touch each other's file.
ApartOps(o, q) ==
  /\ Busy(o) /\ Busy(q) =>
       /\ o.name = None \/ o.name # q.name
       /\ WorksOn(o) = None \/ WorksOn(o) # WorksOn(q)
  /\ o.stage = "opening" => q.handle # o.handle

Plain == \A n \in Names : link[n] = None
OneName == \A m, n \in Names : m # n /\ file[m] # None => file[m] # file[n]
OpenIsNamed == Opened \subseteq Named
Ready == \A p \in Procs : ReadyOp(op[p])
Apart == \A p, q \in Procs : p # q => ApartOps(op[p], op[q])

FInv == Plain /\ OneName /\ OpenIsNamed /\ Ready /\ Apart

\* A name without links.
LEMMA NameFacts ==
  ASSUME TreeOK, Plain, NEW n \in Names
  PROVE  /\ Target(n) = n /\ Resolve(n) = file[n] /\ (Exists(n) <=> file[n] # None)
         /\ StatSize(n) = IF file[n] = None THEN 0 ELSE size[file[n]]
BY DEF Plain, Target, Resolve, Exists, StatSize

\* What an operation about to begin may rely on.
LEMMA AloneFacts ==
  ASSUME IInv, Sequential, Plain, NEW S, Alone(S), NEW q \in Procs, Busy(op[q])
  PROVE  WorksOn(op[q]) \notin S \ {None} /\ op[q].name \notin S \ {None}
<1>1. InUse(q) \intersect (S \ {None}) = {}
  BY DEF Alone, Sequential
<1>2. op[q].name \in Names \union {None}
  BY DEF IInv, OpsOK, Ops
<1>3. CASE op[q].name = None
  <2>1. InUse(q) = {open[op[q].handle]} /\ WorksOn(op[q]) = open[op[q].handle]
    BY <1>3 DEF InUse, Busy, WorksOn
  <2> QED
    BY <1>1, <1>3, <2>1
<1>4. CASE op[q].name # None
  <2>1. InUse(q) = {op[q].name, Target(op[q].name), Resolve(op[q].name)}
    BY <1>4 DEF InUse, Busy
  <2>2. WorksOn(op[q]) = Resolve(op[q].name)
    BY <1>2, <1>4, NameFacts DEF IInv, WorksOn
  <2> QED
    BY <1>1, <2>1, <2>2
<1> QED
  BY <1>3, <1>4

\* A step of one caller that touches no file.
LEMMA OpChanges ==
  ASSUME IInv, FInv, NEW p \in Procs, NEW o, op' = [op EXCEPT ![p] = o],
         UNCHANGED <<file, link, size, open>>, ReadyOp(o),
         \A q \in Procs \ {p} : ApartOps(o, op[q]) /\ ApartOps(op[q], o)
  PROVE  FInv'
<1>1. op'[p] = o /\ \A q \in Procs \ {p} : op'[q] = op[q]
  BY DEF IInv, OpsOK
<1>2. Plain' /\ OneName' /\ OpenIsNamed'
  BY DEF FInv, Plain, OneName, OpenIsNamed, Opened, Named
<1>3. Ready'
  BY <1>1 DEF FInv, Ready, ReadyOp
<1>4. Apart'
  BY <1>1 DEF FInv, Apart, ApartOps, WorksOn
<1> QED
  BY <1>2, <1>3, <1>4 DEF FInv

\* A step that ends an operation's work on its file.
LEMMA OpEnds ==
  ASSUME IInv, FInv, NEW p \in Procs, NEW o, op' = [op EXCEPT ![p] = o],
         ~Busy(o), o.handle \in {op[p].handle, None}, Plain', OneName', OpenIsNamed',
         \A q \in Procs \ {p} : Busy(op[q]) =>
            ReadyOp(op[q])' /\ WorksOn(op[q])' = WorksOn(op[q])
  PROVE  FInv'
<1>1. op'[p] = o /\ \A q \in Procs \ {p} : op'[q] = op[q]
  BY DEF IInv, OpsOK
<1>2. Ready'
  <2> SUFFICES ASSUME NEW q \in Procs PROVE ReadyOp(op[q])'
    BY DEF Ready
  <2>1. CASE q # p /\ Busy(op[q])
    BY <2>1
  <2>2. CASE ~(q # p /\ Busy(op[q]))
    <3>1. op'[q].stage \in {"idle", "credit"}
      BY <1>1, <2>2 DEF Busy
    <3> QED
      BY <3>1 DEF ReadyOp, FileOps
  <2> QED
    BY <2>1, <2>2
<1>3. Apart'
  <2> SUFFICES ASSUME NEW q \in Procs, NEW r \in Procs, q # r
               PROVE  ApartOps(op[q], op[r])'
    BY DEF Apart
  <2>1. ApartOps(op[q], op[r])
    BY DEF FInv, Apart
  <2>2. op'[q].stage = "opening" => op'[r].handle # op'[q].handle
    <3>1. SUFFICES ASSUME op'[q].stage = "opening" PROVE op'[r].handle # op'[q].handle
      OBVIOUS
    <3>2. q # p /\ op'[q] = op[q] /\ op[q].stage = "opening"
      BY <1>1, <3>1 DEF Busy
    <3>3. op[q].handle \in Handles /\ op[r].handle # op[q].handle
      BY <2>1, <3>2 DEF IInv, OpsSound, ApartOps
    <3> QED
      BY <1>1, <3>2, <3>3, NoneAssumption
  <2>3. ASSUME Busy(op[q])', Busy(op[r])'
        PROVE  /\ op'[q].name = None \/ op'[q].name # op'[r].name
               /\ WorksOn(op[q])' = None \/ WorksOn(op[q])' # WorksOn(op[r])'
    <3>1. q # p /\ r # p /\ op'[q] = op[q] /\ op'[r] = op[r]
      BY <1>1, <2>3 DEF Busy
    <3>2. Busy(op[q]) /\ Busy(op[r])
      BY <2>3, <3>1 DEF Busy
    <3> QED
      BY <2>1, <3>1, <3>2 DEF ApartOps
  <2> QED
    BY <2>2, <2>3 DEF ApartOps
<1> QED
  BY <1>2, <1>3 DEF FInv

\* A step that changes the size of no file but the one the ending operation is on.
LEMMA SizeChanges ==
  ASSUME IInv, FInv, NEW p \in Procs, NEW o, op' = [op EXCEPT ![p] = o],
         ~Busy(o), o.handle = op[p].handle, UNCHANGED <<file, link, open>>,
         Busy(op[p]), NEW i, WorksOn(op[p]) = i, i # None,
         \A j \in Inodes \ {i} : size'[j] = size[j]
  PROVE  FInv'
<1>1. Plain' /\ OneName' /\ OpenIsNamed'
  BY DEF FInv, Plain, OneName, OpenIsNamed, Opened, Named
<1>2. ASSUME NEW q \in Procs \ {p}, Busy(op[q])
      PROVE  ReadyOp(op[q])' /\ WorksOn(op[q])' = WorksOn(op[q])
  <2>1. op'[q] = op[q]
    BY DEF IInv, OpsOK
  <2>2. WorksOn(op[q])' = WorksOn(op[q])
    BY <2>1 DEF WorksOn
  <2>3. WorksOn(op[q]) # i
    BY <1>2 DEF FInv, Apart, ApartOps
  <2>4. ReadyOp(op[q])
    BY DEF FInv, Ready
  <2>5. CASE op[q].stage \in FileOps
    <3>1. open[op[q].handle] \in Inodes /\ open[op[q].handle] # i
      BY <2>3, <2>4, <2>5 DEF ReadyOp, WorksOn, IInv, TreeOK
    <3> QED
      BY <2>1, <2>2, <2>4, <2>5, <3>1 DEF ReadyOp, FileOps
  <2>6. CASE op[q].stage \in {"opening", "unlink"}
    <3>1. op[q].name \in Names /\ op[q].name # None
      BY <2>6, NoneAssumption DEF IInv, OpsSound
    <3>2. file[op[q].name] \in Inodes \union {None} /\ file[op[q].name] # i
      BY <2>3, <3>1 DEF WorksOn, IInv, TreeOK
    <3> QED
      BY <2>1, <2>2, <2>4, <2>6, <3>2 DEF ReadyOp, FileOps
  <2>7. op[q].stage \in FileOps \union {"opening", "unlink"}
    BY <1>2 DEF Busy, FileOps, IInv, OpsOK, Ops, Stages
  <2> QED
    BY <2>5, <2>6, <2>7
<1> QED
  BY <1>1, <1>2, OpEnds

\* Opening a name: an existing file, truncated or not, or a new one.
LEMMA LinkFacts ==
  ASSUME IInv, Plain, NEW h \in Handles, NEW n \in Names, NEW truncate \in BOOLEAN,
         Link(h, n, truncate)
  PROVE  \/ /\ file[n] \in Inodes /\ file' = file
            /\ open' = [open EXCEPT ![h] = file[n]]
            /\ size' = IF truncate THEN [size EXCEPT ![file[n]] = 0] ELSE size
         \/ /\ file[n] = None
            /\ \E i \in FreeInode : /\ file' = [file EXCEPT ![n] = i]
                                    /\ open' = [open EXCEPT ![h] = i]
                                    /\ size' = [size EXCEPT ![i] = 0]
<1>1. Target(n) = n /\ Resolve(n) = file[n] /\ file[n] \in Inodes \union {None}
  BY NameFacts DEF IInv, TreeOK
<1> QED
  BY <1>1 DEF Link

LEMMA LinkTree ==
  ASSUME IInv, FInv, NEW h \in Handles, NEW n \in Names, NEW truncate \in BOOLEAN,
         Link(h, n, truncate), UNCHANGED link
  PROVE  Plain' /\ OneName' /\ OpenIsNamed'
<1>1. Plain'
  BY DEF FInv, Plain
<1>2. CASE file[n] \in Inodes /\ file' = file /\ open' = [open EXCEPT ![h] = file[n]]
  <2>1. file[n] \in Named
    BY <1>2, NoneAssumption DEF Named
  <2> QED
    BY <1>1, <1>2, <2>1 DEF FInv, OneName, OpenIsNamed, Opened, Named, IInv, TreeOK
<1>3. ASSUME file[n] = None, NEW i \in FreeInode, file' = [file EXCEPT ![n] = i],
             open' = [open EXCEPT ![h] = i]
      PROVE  Plain' /\ OneName' /\ OpenIsNamed'
  <2>1. i \in Inodes /\ i # None /\ \A m \in Names : file[m] # i
    BY <1>3, NoneAssumption DEF FreeInode, Named
  <2>2. OneName'
    BY <1>3, <2>1 DEF FInv, OneName, IInv, TreeOK
  <2>3. Named \subseteq Named' /\ i \in Named'
    BY <1>3, <2>1 DEF Named, IInv, TreeOK
  <2>4. Opened' \subseteq Opened \union {i}
    BY <1>3 DEF Opened, IInv, TreeOK
  <2> QED
    BY <1>1, <2>2, <2>3, <2>4 DEF FInv, OpenIsNamed
<1> QED
  BY <1>2, <1>3, LinkFacts DEF FInv

\* What the others have in progress does not notice it.
LEMMA LinkOthers ==
  ASSUME IInv, FInv, NEW h \in Handles, NEW n \in Names, NEW truncate \in BOOLEAN,
         Link(h, n, truncate), UNCHANGED link, NEW q \in Procs, op'[q] = op[q],
         Busy(op[q]), op[q].handle # h, op[q].name # n,
         file[n] = None \/ WorksOn(op[q]) # file[n]
  PROVE  ReadyOp(op[q])' /\ WorksOn(op[q])' = WorksOn(op[q])
<1>1. ReadyOp(op[q])
  BY DEF FInv, Ready
<1>2. \/ file[n] \in Inodes
      \/ file[n] = None /\ \E i \in FreeInode : size' = [size EXCEPT ![i] = 0]
  BY LinkFacts DEF FInv
<1>3. CASE op[q].stage \in FileOps
  <2> DEFINE j == open[op[q].handle]
  <2>1. /\ op[q].name = None /\ op[q].handle \in Handles /\ WorksOn(op[q]) = j
        /\ j \in Inodes /\ j # None /\ op[q].old = size[j]
    BY <1>1, <1>3 DEF ReadyOp, WorksOn, IInv, TreeOK
  <2>2. j \in Opened
    BY <2>1 DEF Opened
  <2>3. open'[op[q].handle] = j
    BY <2>1, LinkFacts DEF FInv, IInv, TreeOK
  <2>4. size'[j] = size[j]
    BY <2>1, <2>2, LinkFacts DEF FInv, FreeInode, IInv, TreeOK
  <2> QED
    BY <1>1, <1>3, <2>1, <2>3, <2>4 DEF ReadyOp, WorksOn, FileOps
<1>4. CASE op[q].stage \in {"opening", "unlink"}
  <2> DEFINE m == op[q].name
  <2>1. m \in Names /\ m # None /\ WorksOn(op[q]) = file[m]
    BY <1>4, NoneAssumption DEF IInv, OpsSound, WorksOn
  <2>2. file'[m] = file[m]
    BY <2>1, LinkFacts DEF FInv, IInv, TreeOK
  <2>3. file[m] # None => file[m] \in Named
    BY <2>1 DEF Named
  <2>4. file[m] # None => size'[file[m]] = size[file[m]]
    BY <2>1, <2>3, LinkFacts DEF FInv, FreeInode, IInv, TreeOK
  <2>5. op[q].stage = "opening" => open'[op[q].handle] = open[op[q].handle]
    BY LinkFacts DEF FInv, IInv, TreeOK, OpsSound
  <2>6. op[q].stage = "unlink" => \A g \in Handles : open'[g] # file[m]
    <3>1. SUFFICES ASSUME op[q].stage = "unlink", NEW g \in Handles PROVE open'[g] # file[m]
      OBVIOUS
    <3>2. open[g] # file[m] /\ file[m] # None
      BY <1>1, <3>1 DEF ReadyOp
    <3>3. open'[g] \in {open[g], file[n]} \union FreeInode
      BY LinkFacts DEF FInv, IInv, TreeOK
    <3>4. file[m] \notin FreeInode /\ file[m] # file[n]
      BY <2>1, <2>3, <3>2 DEF FreeInode
    <3> QED
      BY <3>2, <3>3, <3>4
  <2> QED
    BY <1>1, <1>4, <2>1, <2>2, <2>4, <2>5, <2>6 DEF ReadyOp, WorksOn, FileOps
<1>5. op[q].stage \in FileOps \union {"opening", "unlink"}
  BY DEF Busy, FileOps, IInv, OpsOK, Ops, Stages
<1> QED
  BY <1>3, <1>4, <1>5

LEMMA FilesInit == Init => FInv
<1> SUFFICES ASSUME Init PROVE FInv
  OBVIOUS
<1>1. Plain /\ OneName
  BY DEF Init, Plain, OneName
<1>2. OpenIsNamed
  BY DEF Init, OpenIsNamed, Opened
<1>3. \A p \in Procs : op[p] = Idle /\ Idle.stage = "idle"
  BY DEF Init, Idle, NewOp
<1>4. Ready
  BY <1>3 DEF Ready, ReadyOp, FileOps
<1>5. Apart
  BY <1>3 DEF Apart, ApartOps, Busy
<1> QED
  BY <1>1, <1>2, <1>4, <1>5 DEF FInv

LEMMA FilesStep == ASSUME IInv, FInv, Sequential, [Next]_vars PROVE FInv'
<1>1. ASSUME NEW p \in Procs, NEW h \in Handles, NEW from \in Offsets,
             NEW to \in Offsets, WriteAt(p, h, from, to)
      PROVE  FInv'
  <2>1. PICK o : o = NewOp("write", h, None, size[open[h]], from, to)
    OBVIOUS
  <2>2. /\ op' = [op EXCEPT ![p] = o] /\ UNCHANGED <<file, link, size, open>>
        /\ open[h] # None /\ Alone({open[h]})
        /\ from < to \/ ("empty_write" \in Allowed /\ from = to)
    BY <1>1, <2>1 DEF WriteAt, Begin
  <2>3. /\ o.stage = "write" /\ o.handle = h /\ o.name = None /\ o.old = size[open[h]]
        /\ o.from = from /\ o.to = to /\ WorksOn(o) = open[h]
    BY <2>1 DEF NewOp, WorksOn
  <2>4. ReadyOp(o)
    BY <2>2, <2>3, SizeAssumption DEF ReadyOp, Offsets
  <2>5. ASSUME NEW q \in Procs \ {p} PROVE ApartOps(o, op[q]) /\ ApartOps(op[q], o)
    <3>1. Busy(op[q]) => WorksOn(op[q]) # open[h]
      BY <2>2, AloneFacts DEF FInv
    <3>2. op[q].stage = "opening" => op[q].handle # h
      BY <2>2 DEF FInv, Ready, ReadyOp
    <3> QED
      BY <2>3, <3>1, <3>2 DEF ApartOps
  <2> QED
    BY <2>2, <2>4, <2>5, OpChanges
<1>2. ASSUME NEW p \in Procs, NEW h \in Handles, NEW to \in Offsets, Truncate(p, h, to)
      PROVE  FInv'
  <2> DEFINE stage == IF to > size[open[h]] THEN "grow" ELSE "shrink"
  <2>1. PICK o : o = NewOp(stage, h, None, size[open[h]], 0, to)
    OBVIOUS
  <2>2. /\ op' = [op EXCEPT ![p] = o] /\ UNCHANGED <<file, link, size, open>>
        /\ open[h] # None /\ Alone({open[h]})
    BY <1>2, <2>1 DEF Truncate, Begin
  <2>3. /\ o.stage \in {"grow", "shrink"} /\ o.handle = h /\ o.name = None
        /\ o.old = size[open[h]] /\ WorksOn(o) = open[h]
    BY <2>1 DEF NewOp, WorksOn
  <2>4. ReadyOp(o)
    BY <2>2, <2>3 DEF ReadyOp
  <2>5. ASSUME NEW q \in Procs \ {p} PROVE ApartOps(o, op[q]) /\ ApartOps(op[q], o)
    <3>1. Busy(op[q]) => WorksOn(op[q]) # open[h]
      BY <2>2, AloneFacts DEF FInv
    <3>2. op[q].stage = "opening" => op[q].handle # h
      BY <2>2 DEF FInv, Ready, ReadyOp
    <3> QED
      BY <2>3, <3>1, <3>2 DEF ApartOps
  <2> QED
    BY <2>2, <2>4, <2>5, OpChanges
<1>3. ASSUME NEW p \in Procs, NEW h \in Handles, NEW n \in Names, OpenTrunc(p, h, n)
      PROVE  FInv'
  <2>1. PICK o : o = NewOp("opening", h, n, StatSize(n), 0, 0)
    OBVIOUS
  <2>2. /\ op' = [op EXCEPT ![p] = o] /\ UNCHANGED <<file, link, size, open>>
        /\ HandleFree(h) /\ Alone({n, Target(n), Resolve(n)})
    BY <1>3, <2>1 DEF OpenTrunc, Begin
  <2>3. /\ o.stage = "opening" /\ o.handle = h /\ o.name = n /\ n # None
        /\ o.old = IF file[n] = None THEN 0 ELSE size[file[n]]
        /\ WorksOn(o) = file[n] /\ Resolve(n) = file[n]
    BY <2>1, NameFacts, NoneAssumption DEF NewOp, WorksOn, FInv, IInv
  <2>4. ReadyOp(o)
    BY <2>2, <2>3 DEF ReadyOp, HandleFree, FileOps
  <2>5. ASSUME NEW q \in Procs \ {p} PROVE ApartOps(o, op[q]) /\ ApartOps(op[q], o)
    <3>1. Busy(op[q]) =>
            /\ op[q].name # n
            /\ WorksOn(op[q]) = None \/ WorksOn(op[q]) # file[n]
      BY <2>2, <2>3, AloneFacts DEF FInv
    <3>2. op[q].handle # h
      BY <2>2 DEF HandleFree
    <3> QED
      BY <2>3, <3>1, <3>2 DEF ApartOps
  <2> QED
    BY <2>2, <2>4, <2>5, OpChanges
<1>4. ASSUME NEW p \in Procs, NEW n \in Names, Unlink(p, n)
      PROVE  FInv'
  <2>1. PICK o : o = NewOp("unlink", None, n, StatSize(n), 0, 0)
    OBVIOUS
  <2>2. /\ op' = [op EXCEPT ![p] = o] /\ UNCHANGED <<file, link, size, open>>
        /\ Exists(n) /\ Alone({n, Target(n), Resolve(n)}) /\ file[n] \notin Opened
    BY <1>4, <2>1 DEF Unlink, Begin, Sequential
  <2>3. /\ o.stage = "unlink" /\ o.name = n /\ n # None /\ file[n] # None
        /\ o.old = size[file[n]] /\ WorksOn(o) = file[n] /\ Resolve(n) = file[n]
        /\ o.handle = None
    BY <2>1, <2>2, NameFacts, NoneAssumption DEF NewOp, WorksOn, FInv, IInv
  <2>4. ReadyOp(o)
    BY <2>2, <2>3 DEF ReadyOp, Opened, FileOps
  <2>5. ASSUME NEW q \in Procs \ {p} PROVE ApartOps(o, op[q]) /\ ApartOps(op[q], o)
    <3>1. Busy(op[q]) =>
            /\ op[q].name # n
            /\ WorksOn(op[q]) = None \/ WorksOn(op[q]) # file[n]
      BY <2>2, <2>3, AloneFacts DEF FInv
    <3>2. op[q].stage = "opening" => op[q].handle # None
      BY NoneAssumption DEF IInv, OpsSound
    <3> QED
      BY <2>3, <3>1, <3>2 DEF ApartOps
  <2> QED
    BY <2>2, <2>4, <2>5, OpChanges
<1>5. ASSUME NEW p \in Procs, Reserve(p)
      PROVE  FInv'
  <2>1. UNCHANGED <<file, link, size, open>>
    BY <1>5 DEF Reserve
  <2>2. ReadyOp(op[p]) /\ \A q \in Procs \ {p} : ApartOps(op[p], op[q]) /\ ApartOps(op[q], op[p])
    BY DEF FInv, Ready, Apart
  <2>3. ASSUME op' = [op EXCEPT ![p] = Idle] PROVE FInv'
    <3>1. PICK o : o = Idle
      OBVIOUS
    <3>2. o.stage = "idle" /\ o.handle = None
      BY <3>1 DEF Idle, NewOp
    <3>3. ReadyOp(o)
      BY <3>2 DEF ReadyOp, FileOps
    <3>4. ASSUME NEW q \in Procs \ {p} PROVE ApartOps(o, op[q]) /\ ApartOps(op[q], o)
      <4>1. op[q].stage = "opening" => op[q].handle # None
        BY NoneAssumption DEF IInv, OpsSound
      <4> QED
        BY <3>2, <4>1 DEF ApartOps, Busy
    <3> QED
      BY <2>1, <2>3, <3>1, <3>3, <3>4, OpChanges
  <2>4. ASSUME op[p].stage \in {"write", "grow"},
               op' = [op EXCEPT ![p].stage = IF op[p].stage = "write" THEN "reserved"
                                                                      ELSE "extend"]
        PROVE  FInv'
    <3>1. PICK o : o = [op[p] EXCEPT !.stage = IF op[p].stage = "write" THEN "reserved"
                                                                      ELSE "extend"]
      OBVIOUS
    <3>2. /\ op' = [op EXCEPT ![p] = o]
          /\ o.stage = (IF op[p].stage = "write" THEN "reserved" ELSE "extend")
          /\ o.handle = op[p].handle /\ o.name = op[p].name /\ o.old = op[p].old
          /\ o.from = op[p].from /\ o.to = op[p].to
      BY <2>4, <3>1 DEF IInv, OpsOK, Ops
    <3>3. ReadyOp(o)
      BY <2>2, <2>4, <3>2 DEF ReadyOp, FileOps
    <3>4. ASSUME NEW q \in Procs \ {p} PROVE ApartOps(o, op[q]) /\ ApartOps(op[q], o)
      BY <2>2, <2>4, <3>2 DEF ApartOps, Busy, WorksOn
    <3> QED
      BY <2>1, <3>2, <3>3, <3>4, OpChanges
  <2> QED
    BY <1>5, <2>3, <2>4 DEF Reserve
<1>6. ASSUME NEW p \in Procs, BackingWrite(p)
      PROVE  FInv'
  <2>1. PICK i : i = open[op[p].handle]
    OBVIOUS
  <2>2. PICK end \in op[p].from..op[p].to :
          /\ size' = [size EXCEPT ![i] = IF end > op[p].from /\ end > @ THEN end ELSE @]
          /\ op' = [op EXCEPT ![p].stage = "credit", ![p].credit = Refund(p, end)]
    BY <1>6, <2>1 DEF BackingWrite
  <2>3. PICK o : o = [op[p] EXCEPT !.stage = "credit", !.credit = Refund(p, end)]
    OBVIOUS
  <2>4. /\ op' = [op EXCEPT ![p] = o] /\ o.stage = "credit" /\ o.handle = op[p].handle
    BY <2>2, <2>3 DEF IInv, OpsOK, Ops
  <2>5. WorksOn(op[p]) = i /\ i # None /\ Busy(op[p]) /\ ~Busy(o)
    BY <1>6, <2>1, <2>4 DEF BackingWrite, FInv, Ready, ReadyOp, FileOps, WorksOn, Busy
  <2>6. UNCHANGED <<file, link, open>> /\ \A j \in Inodes \ {i} : size'[j] = size[j]
    BY <1>6, <2>2 DEF BackingWrite, IInv, TreeOK
  <2> QED
    BY <2>4, <2>5, <2>6, SizeChanges
<1>7. ASSUME NEW p \in Procs, BackingTruncate(p)
      PROVE  FInv'
  <2>1. PICK i : i = open[op[p].handle]
    OBVIOUS
  <2>2. PICK c : op' = [op EXCEPT ![p].stage = "credit", ![p].credit = c]
    BY <1>7 DEF BackingTruncate
  <2>3. PICK o : o = [op[p] EXCEPT !.stage = "credit", !.credit = c]
    OBVIOUS
  <2>4. /\ op' = [op EXCEPT ![p] = o] /\ o.stage = "credit" /\ o.handle = op[p].handle
    BY <2>2, <2>3 DEF IInv, OpsOK, Ops
  <2>5. WorksOn(op[p]) = i /\ i # None /\ Busy(op[p]) /\ ~Busy(o)
    BY <1>7, <2>1, <2>4 DEF BackingTruncate, FInv, Ready, ReadyOp, FileOps, WorksOn, Busy
  <2>6. UNCHANGED <<file, link, open>> /\ \A j \in Inodes \ {i} : size'[j] = size[j]
    BY <1>7, <2>1 DEF BackingTruncate, IInv, TreeOK
  <2> QED
    BY <2>4, <2>5, <2>6, SizeChanges
<1>8. ASSUME NEW p \in Procs, BackingOpen(p)
      PROVE  FInv'
  <2>1. PICK h \in Handles, n \in Names : h = op[p].handle /\ n = op[p].name
    BY <1>8 DEF BackingOpen, IInv, OpsSound
  <2>2. Link(h, n, TRUE) /\ UNCHANGED link
    BY <1>8, <2>1 DEF BackingOpen
  <2>3. PICK o : o = [op[p] EXCEPT !.stage = "credit", !.credit = op[p].old]
    OBVIOUS
  <2>4. /\ op' = [op EXCEPT ![p] = o] /\ o.stage = "credit" /\ o.handle = op[p].handle
    BY <1>8, <2>3 DEF BackingOpen, IInv, OpsOK, Ops
  <2>5. Plain' /\ OneName' /\ OpenIsNamed'
    BY <2>2, LinkTree
  <2>6. WorksOn(op[p]) = file[n] /\ Busy(op[p]) /\ n # None /\ ~Busy(o)
    BY <1>8, <2>1, <2>4, NoneAssumption DEF BackingOpen, WorksOn, Busy
  <2>7. ASSUME NEW q \in Procs \ {p}, Busy(op[q])
        PROVE  ReadyOp(op[q])' /\ WorksOn(op[q])' = WorksOn(op[q])
    <3>1. op'[q] = op[q]
      BY <2>4 DEF IInv, OpsOK
    <3>2. op[q].handle # h /\ op[q].name # n /\ (file[n] = None \/ WorksOn(op[q]) # file[n])
      BY <1>8, <2>1, <2>6, <2>7 DEF BackingOpen, FInv, Apart, ApartOps
    <3> QED
      BY <2>2, <2>7, <3>1, <3>2, LinkOthers
  <2> QED
    BY <2>4, <2>5, <2>6, <2>7, OpEnds
<1>9. ASSUME NEW p \in Procs, BackingRemove(p)
      PROVE  FInv'
  <2>1. PICK n \in Names : n = op[p].name
    BY <1>9 DEF BackingRemove, IInv, OpsSound
  <2>2. op[p].stage = "unlink" /\ n # None /\ WorksOn(op[p]) = file[n] /\ Busy(op[p])
    BY <1>9, <2>1, NoneAssumption DEF BackingRemove, WorksOn, Busy
  <2>3. file[n] # None /\ (\A h \in Handles : open[h] # file[n]) /\ Exists(n)
    BY <2>1, <2>2 DEF FInv, Ready, ReadyOp, Exists
  <2>4. /\ file' = [file EXCEPT ![n] = None] /\ link' = [link EXCEPT ![n] = None]
        /\ op' = [op EXCEPT ![p].stage = "credit", ![p].credit = op[p].old]
        /\ UNCHANGED <<size, open>>
    BY <1>9, <2>1, <2>3 DEF BackingRemove
  <2>5. PICK o : o = [op[p] EXCEPT !.stage = "credit", !.credit = op[p].old]
    OBVIOUS
  <2>6. op' = [op EXCEPT ![p] = o] /\ o.stage = "credit" /\ o.handle = op[p].handle /\ ~Busy(o)
    BY <2>4, <2>5 DEF IInv, OpsOK, Ops, Busy
  <2>7. Plain' /\ OneName'
    BY <2>4 DEF FInv, Plain, OneName, IInv, TreeOK
  <2>8. OpenIsNamed'
    BY <2>3, <2>4 DEF FInv, OpenIsNamed, Opened, Named, IInv, TreeOK
  <2>9. ASSUME NEW q \in Procs \ {p}, Busy(op[q])
        PROVE  ReadyOp(op[q])' /\ WorksOn(op[q])' = WorksOn(op[q])
    <3>1. op'[q] = op[q]
      BY <2>6 DEF IInv, OpsOK
    <3>2. op[q].name # n
      BY <2>1, <2>2, <2>9 DEF FInv, Apart, ApartOps
    <3>3. op[q].name # None => op[q].name \in Names /\ file'[op[q].name] = file[op[q].name]
      BY <2>4, <3>2 DEF IInv, TreeOK, OpsOK, Ops
    <3>4. op[q].stage \in {"opening", "unlink"} => op[q].name # None
      BY NoneAssumption DEF IInv, OpsSound
    <3>5. ReadyOp(op[q])
      BY DEF FInv, Ready
    <3>6. WorksOn(op[q])' = WorksOn(op[q])
      BY <2>4, <3>1, <3>3 DEF WorksOn
    <3>7. CASE op[q].stage \in {"opening", "unlink"}
      <4>1. file'[op[q].name] = file[op[q].name] /\ size' = size /\ open' = open
        BY <2>4, <3>3, <3>4, <3>7
      <4> QED
        BY <3>1, <3>5, <3>6, <3>7, <4>1 DEF ReadyOp, FileOps
    <3>8. CASE op[q].stage \notin {"opening", "unlink"}
      BY <2>4, <3>1, <3>5, <3>6, <3>8 DEF ReadyOp
    <3> QED
      BY <3>6, <3>7, <3>8
  <2> QED
    BY <2>6, <2>7, <2>8, <2>9, OpEnds
<1>10. ASSUME NEW p \in Procs, Release(p)
       PROVE  FInv'
  <2>1. PICK o : o = Idle
    OBVIOUS
  <2>2. ~Busy(o) /\ o.handle = None /\ op' = [op EXCEPT ![p] = o]
    BY <1>10, <2>1 DEF Release, Idle, NewOp, Busy
  <2>3. Plain' /\ OneName' /\ OpenIsNamed'
    BY <1>10 DEF Release, FInv, Plain, OneName, OpenIsNamed, Opened, Named
  <2>4. ASSUME NEW q \in Procs \ {p}, Busy(op[q])
        PROVE  ReadyOp(op[q])' /\ WorksOn(op[q])' = WorksOn(op[q])
    <3>1. op'[q] = op[q] /\ ReadyOp(op[q])
      BY <2>2 DEF IInv, OpsOK, FInv, Ready
    <3> QED
      BY <1>10, <3>1 DEF Release, ReadyOp, WorksOn
  <2> QED
    BY <2>2, <2>3, <2>4, OpEnds
<1>11. ASSUME NEW h \in Handles, NEW n \in Names, OpenPlain(h, n)
       PROVE  FInv'
  <2>1. /\ Link(h, n, FALSE) /\ UNCHANGED <<link, op>>
        /\ HandleFree(h) /\ Alone({n, Target(n), Resolve(n)})
    BY <1>11 DEF OpenPlain
  <2>2. Plain' /\ OneName' /\ OpenIsNamed'
    BY <2>1, LinkTree
  <2>3. ASSUME NEW q \in Procs, Busy(op[q])
        PROVE  ReadyOp(op[q])' /\ WorksOn(op[q])' = WorksOn(op[q])
    <3>1. Resolve(n) = file[n] /\ n # None
      BY NameFacts, NoneAssumption DEF FInv, IInv
    <3>2. op[q].name # n /\ (file[n] = None \/ WorksOn(op[q]) # file[n]) /\ op[q].handle # h
      BY <2>1, <2>3, <3>1, AloneFacts DEF FInv, HandleFree
    <3> QED
      BY <2>1, <2>3, <3>2, LinkOthers
  <2>4. Ready'
    <3> SUFFICES ASSUME NEW q \in Procs, ~Busy(op[q]) PROVE ReadyOp(op[q])'
      BY <2>3 DEF Ready
    <3> QED
      BY <2>1 DEF Busy, ReadyOp, FileOps
  <2>5. Apart'
    BY <2>1, <2>3 DEF FInv, Apart, ApartOps, Busy
  <2> QED
    BY <2>2, <2>4, <2>5 DEF FInv
<1>12. ASSUME NEW n \in Names, Rmdir(n)
       PROVE  FInv'
  BY <1>12 DEF Rmdir, Sequential
<1>13. ASSUME NEW n \in Names, NEW t \in Names, Symlink(n, t)
       PROVE  FInv'
  BY <1>13 DEF Symlink, Sequential
<1>14. ASSUME NEW h \in Handles, Close(h)
       PROVE  FInv'
  <2>1. /\ open' = [open EXCEPT ![h] = None] /\ UNCHANGED <<file, link, size, op>>
        /\ \A p \in Procs : op[p].handle # h
    BY <1>14 DEF Close
  <2>2. Plain' /\ OneName' /\ OpenIsNamed'
    BY <2>1 DEF FInv, Plain, OneName, OpenIsNamed, Opened, Named, IInv, TreeOK
  <2>3. \A q \in Procs : op[q].handle \in Handles => open'[op[q].handle] = open[op[q].handle]
    BY <2>1 DEF IInv, TreeOK
  <2>4. \A q \in Procs : Busy(op[q]) => WorksOn(op[q])' = WorksOn(op[q])
    <3> SUFFICES ASSUME NEW q \in Procs, Busy(op[q]) PROVE WorksOn(op[q])' = WorksOn(op[q])
      OBVIOUS
    <3>1. op[q].name = None => op[q].handle \in Handles
      BY NoneAssumption
         DEF Busy, FInv, Ready, ReadyOp, FileOps, IInv, OpsOK, Ops, Stages, OpsSound
    <3> QED
      BY <2>1, <2>3, <3>1 DEF WorksOn
  <2>5. Ready'
    <3> SUFFICES ASSUME NEW q \in Procs PROVE ReadyOp(op[q])'
      BY DEF Ready
    <3>1. ReadyOp(op[q]) /\ (op[q].stage = "opening" => op[q].handle \in Handles)
      BY DEF FInv, Ready, IInv, OpsSound
    <3>2. \A g \in Handles : open'[g] \in {open[g], None}
      BY <2>1 DEF IInv, TreeOK
    <3> QED
      BY <2>1, <2>3, <3>1, <3>2 DEF ReadyOp
  <2>6. Apart'
    BY <2>1, <2>4 DEF FInv, Apart, ApartOps, Busy
  <2> QED
    BY <2>2, <2>5, <2>6 DEF FInv
<1>15. ASSUME NEW p \in Procs, BackingRefuses(p)
       PROVE  FInv'
  <2>1. PICK o : o = Idle
    OBVIOUS
  <2>2. ~Busy(o) /\ o.handle = None /\ op' = [op EXCEPT ![p] = o]
    BY <1>15, <2>1 DEF BackingRefuses, Idle, NewOp, Busy
  <2>3. Plain' /\ OneName' /\ OpenIsNamed'
    BY <1>15 DEF BackingRefuses, FInv, Plain, OneName, OpenIsNamed, Opened, Named
  <2>4. ASSUME NEW q \in Procs \ {p}, Busy(op[q])
        PROVE  ReadyOp(op[q])' /\ WorksOn(op[q])' = WorksOn(op[q])
    <3>1. op'[q] = op[q] /\ ReadyOp(op[q])
      BY <2>2 DEF IInv, OpsOK, FInv, Ready
    <3> QED
      BY <1>15, <3>1 DEF BackingRefuses, ReadyOp, WorksOn
  <2> QED
    BY <2>2, <2>3, <2>4, OpEnds
<1>16. ASSUME UNCHANGED vars PROVE FInv'
  BY <1>16
     DEF vars, FInv, Plain, OneName, OpenIsNamed, Opened, Named, Ready, ReadyOp, Apart,
         ApartOps, Busy, WorksOn
<1> QED
  BY <1>1, <1>2, <1>3, <1>4, <1>5, <1>6, <1>7, <1>8, <1>9, <1>10, <1>11, <1>12,
     <1>13, <1>14, <1>15, <1>16, Zenon DEF Next

-----------------------------------------------------------------------------
(* What the counter adds up to.                                            *)

\* What an operation in progress has reserved for bytes not there yet, or has still
\* to give back.
Owed(o) ==
  IF o.stage \in {"reserved", "extend"} THEN Growth(o.old, o.to)
  ELSE IF o.stage = "credit" THEN o.credit ELSE 0
Debts == Total([p \in Procs |-> Owed(op[p])])

Accounted ==
  /\ used >= Reachable + Debts
  /\ "empty_write" \notin Allowed => used = Reachable + Debts

LEMMA OwedType == ASSUME NEW o \in Ops PROVE Owed(o) \in Nat
<1>1. o.old \in Nat /\ o.to \in Nat /\ o.credit \in Nat
  BY SizeAssumption DEF Ops, Offsets
<1> QED
  BY <1>1 DEF Owed, Growth

LEMMA SumsType ==
  ASSUME IInv
  PROVE  /\ IsFiniteSet(Named) /\ Named \subseteq Inodes /\ Reachable \in Nat /\ Debts \in Nat
         /\ [i \in Named |-> size[i]] \in [Named -> Nat]
<1>1. Named \subseteq Inodes
  BY DEF IInv, TreeOK, Named
<1>2. IsFiniteSet(Named)
  BY <1>1, FiniteAssumption, FS_Subset
<1>3. [i \in Named |-> size[i]] \in [Named -> Nat]
  BY <1>1, SizeAssumption DEF IInv, TreeOK, Offsets
<1>4. Reachable \in Nat
  BY <1>2, <1>3, TotalType DEF Reachable
<1>5. [p \in Procs |-> Owed(op[p])] \in [Procs -> Nat]
  BY OwedType DEF IInv, OpsOK
<1>6. Debts \in Nat
  BY <1>5, TotalType, FiniteAssumption DEF Debts
<1> QED
  BY <1>1, <1>2, <1>3, <1>4, <1>6

LEMMA DebtsChange ==
  ASSUME IInv, IInv', NEW p \in Procs, \A q \in Procs \ {p} : op'[q] = op[q]
  PROVE  /\ Debts' = Debts - Owed(op[p]) + Owed(op'[p])
         /\ Owed(op[p]) \in Nat /\ Owed(op[p]) <= Debts /\ Owed(op'[p]) \in Nat
<1> DEFINE before == [q \in Procs |-> Owed(op[q])]
           after == [q \in Procs |-> Owed(op'[q])]
<1>1. before \in [Procs -> Nat] /\ after \in [Procs -> Nat]
  BY OwedType DEF IInv, OpsOK
<1>2. \A q \in Procs \ {p} : after[q] = before[q]
  OBVIOUS
<1>3. Debts = Total(before) /\ Debts' = Total(after)
  BY DEF Debts, Owed, Growth
<1>4. before[p] = Owed(op[p]) /\ after[p] = Owed(op'[p])
  OBVIOUS
<1> HIDE DEF before, after
<1>5. Total(after) = Total(before) - before[p] + after[p]
  BY <1>1, <1>2, TotalChange, FiniteAssumption
<1>6. before[p] <= Total(before)
  BY <1>1, TotalBounds, FiniteAssumption
<1>7. Owed(op[p]) \in Nat /\ Owed(op'[p]) \in Nat
  BY <1>1, <1>4
<1> QED
  BY <1>3, <1>4, <1>5, <1>6, <1>7

\* One reachable file's size changes.
LEMMA ReachableResize ==
  ASSUME IInv, IInv', Named' = Named, NEW i \in Named, \A j \in Named \ {i} : size'[j] = size[j]
  PROVE  Reachable' = Reachable - size[i] + size'[i]
<1> DEFINE before == [j \in Named |-> size[j]]
           after == [j \in Named |-> size'[j]]
<1>1. before \in [Named -> Nat] /\ IsFiniteSet(Named)
  BY SumsType
<1>2. after \in [Named -> Nat]
  BY SumsType, SizeAssumption DEF IInv, TreeOK, Offsets
<1>3. Reachable = Total(before) /\ Reachable' = Total(after)
  BY DEF Reachable
<1>4. before[i] = size[i] /\ after[i] = size'[i] /\ \A j \in Named \ {i} : after[j] = before[j]
  OBVIOUS
<1> HIDE DEF before, after
<1>5. Total(after) = Total(before) - before[i] + after[i]
  BY <1>1, <1>2, <1>4, TotalChange
<1> QED
  BY <1>3, <1>4, <1>5

\* No reachable file changes.
LEMMA ReachableSame ==
  ASSUME Named' = Named, \A j \in Named : size'[j] = size[j]
  PROVE  Reachable' = Reachable
<1>1. [j \in Named' |-> size'[j]] = [j \in Named |-> size[j]]
  OBVIOUS
<1> QED
  BY <1>1 DEF Reachable

\* A file is created, empty.
LEMMA ReachableCreate ==
  ASSUME IInv, IInv', NEW i, i \notin Named, Named' = Named \union {i}, size'[i] = 0,
         \A j \in Named : size'[j] = size[j]
  PROVE  Reachable' = Reachable
<1> DEFINE before == [j \in Named |-> size[j]]
           after == [j \in Named \union {i} |-> size'[j]]
<1>1. before \in [Named -> Nat] /\ IsFiniteSet(Named) /\ Reachable \in Nat
  BY SumsType
<1>2. after \in [Named \union {i} -> Nat]
  BY <1>1
<1>3. Reachable = Total(before) /\ Reachable' = Total(after)
  BY DEF Reachable
<1>4. after[i] = 0 /\ \A j \in Named : after[j] = before[j]
  OBVIOUS
<1> HIDE DEF before, after
<1>5. Total(after) = Total(before) + after[i]
  BY <1>1, <1>2, <1>4, TotalGrow
<1> QED
  BY <1>1, <1>3, <1>4, <1>5

\* A file is removed.
LEMMA ReachableRemove ==
  ASSUME IInv, NEW i \in Named, Named' = Named \ {i}, size' = size
  PROVE  Reachable' = Reachable - size[i]
<1> DEFINE before == [j \in Named |-> size[j]]
           after == [j \in Named \ {i} |-> size[j]]
<1>1. before \in [Named -> Nat] /\ IsFiniteSet(Named)
  BY SumsType
<1>2. Reachable = Total(before) /\ Reachable' = Total(after)
  BY DEF Reachable
<1>3. after = [j \in Named \ {i} |-> before[j]] /\ before[i] = size[i] /\ size[i] \in Nat
  BY <1>1
<1>4. IsFiniteSet(Named \ {i}) /\ after \in [Named \ {i} -> Nat]
  BY <1>1, FS_RemoveElement
<1>5. Total(after) \in Nat
  BY <1>4, TotalType
<1> HIDE DEF before, after
<1>6. Total(before) = before[i] + Total([j \in Named \ {i} |-> before[j]])
  BY <1>1, TotalSplit
<1> QED
  BY <1>2, <1>3, <1>5, <1>6

\* A step that neither changes a reachable size nor what the callers owe.
LEMMA AccountSame ==
  ASSUME Accounted, used' = used, Reachable' = Reachable, Debts' = Debts
  PROVE  Accounted'
BY DEF Accounted

LEMMA ReachableNext == ASSUME IInv' PROVE Reachable' \in Nat
<1>1. Named' \subseteq Inodes
  BY DEF IInv, TreeOK, Named
<1>2. IsFiniteSet(Named')
  BY <1>1, FiniteAssumption, FS_Subset
<1>3. [i \in Named' |-> size'[i]] \in [Named' -> Nat]
  BY <1>1, SizeAssumption DEF IInv, TreeOK, Offsets
<1> QED
  BY <1>2, <1>3, TotalType DEF Reachable

\* A step of one caller moves bytes between the files, its debt and the counter.
LEMMA AccountMoves ==
  ASSUME IInv, IInv', Accounted, NEW p \in Procs, NEW o, op' = [op EXCEPT ![p] = o],
         used' - used >= (Reachable' - Reachable) + (Owed(o) - Owed(op[p])),
         "empty_write" \notin Allowed =>
           used' - used = (Reachable' - Reachable) + (Owed(o) - Owed(op[p]))
  PROVE  Accounted'
<1>1. op'[p] = o /\ \A q \in Procs \ {p} : op'[q] = op[q]
  BY DEF IInv, OpsOK
<1>2. Debts' = Debts - Owed(op[p]) + Owed(o) /\ Owed(op[p]) \in Nat /\ Owed(o) \in Nat
  BY <1>1, DebtsChange
<1>3. Debts \in Nat /\ Reachable \in Nat /\ used \in Nat
  BY SumsType DEF IInv, CounterOK
<1>4. Reachable' \in Nat /\ used' \in Nat
  BY ReachableNext DEF IInv, CounterOK
<1> QED
  BY <1>2, <1>3, <1>4 DEF Accounted

LEMMA AccountInit == Init => IInv /\ Accounted
<1> SUFFICES ASSUME Init PROVE Accounted
  BY InitInvariant
<1>1. IInv
  BY InitInvariant
<1>2. used = Reachable /\ Reachable \in Nat
  BY <1>1, SumsType DEF Init, Seeded
<1>3. [p \in Procs |-> Owed(op[p])] \in [Procs -> Nat]
  BY <1>1, OwedType DEF IInv, OpsOK
<1>4. \A p \in Procs : Owed(op[p]) = 0
  BY DEF Init, Owed, Idle, NewOp
<1>5. Debts = 0
  BY <1>3, <1>4, TotalZero DEF Debts
<1> QED
  BY <1>2, <1>5 DEF Accounted

LEMMA AccountKept ==
  ASSUME IInv, IInv', Accounted, NEW p \in Procs, NEW o, op' = [op EXCEPT ![p] = o],
         used' - used = (Reachable' - Reachable) + (Owed(o) - Owed(op[p]))
  PROVE  Accounted'
<1>1. used' - used \in Int
  BY DEF IInv, CounterOK
<1>2. used' - used >= (Reachable' - Reachable) + (Owed(o) - Owed(op[p]))
  BY <1>1
<1> QED
  BY <1>2, AccountMoves

\* Beginning an operation owes nothing yet.
LEMMA AccountBegins ==
  ASSUME IInv, IInv', Accounted, NEW p \in Procs, NEW o, Begin(p, o),
         o.stage \in {"write", "grow", "shrink", "opening", "unlink"},
         UNCHANGED <<file, size, used>>
  PROVE  Accounted'
<1>1. op' = [op EXCEPT ![p] = o] /\ Owed(op[p]) = 0 /\ Owed(o) = 0
  BY DEF Begin, Owed, Idle, NewOp
<1>2. Reachable' = Reachable
  BY ReachableSame DEF Named
<1>3. Reachable \in Nat /\ used \in Nat
  BY SumsType DEF IInv, CounterOK
<1>4. used' - used = (Reachable' - Reachable) + (Owed(o) - Owed(op[p]))
  BY <1>1, <1>2, <1>3
<1> QED
  BY <1>1, <1>4, AccountKept

\* The file system's half of opening a name: what a truncation frees.
LEMMA AccountLink ==
  ASSUME IInv, IInv', FInv, NEW h \in Handles, NEW n \in Names, NEW truncate \in BOOLEAN,
         Link(h, n, truncate)
  PROVE  Reachable' = Reachable - (IF truncate /\ file[n] # None THEN size[file[n]] ELSE 0)
<1>1. Reachable \in Nat
  BY SumsType
<1>2. CASE /\ file[n] \in Inodes /\ file' = file
           /\ size' = IF truncate THEN [size EXCEPT ![file[n]] = 0] ELSE size
  <2>1. file[n] \in Named /\ file[n] # None /\ Named' = Named
    BY <1>2, NoneAssumption DEF Named
  <2>2. CASE truncate
    <3>1. size'[file[n]] = 0 /\ \A j \in Named \ {file[n]} : size'[j] = size[j]
      BY <1>2, <2>2, SumsType DEF IInv, TreeOK
    <3>2. Reachable' = Reachable - size[file[n]] + size'[file[n]]
      BY <2>1, <3>1, ReachableResize
    <3>3. size[file[n]] \in Nat
      BY <1>2, SizeAssumption DEF IInv, TreeOK, Offsets
    <3> QED
      BY <1>1, <2>1, <2>2, <3>1, <3>2, <3>3
  <2>3. CASE ~truncate
    BY <1>1, <1>2, <2>1, <2>3, ReachableSame
  <2> QED
    BY <2>2, <2>3
<1>3. ASSUME file[n] = None, NEW i \in FreeInode, file' = [file EXCEPT ![n] = i],
             size' = [size EXCEPT ![i] = 0]
      PROVE  Reachable' = Reachable
  <2>1. i \notin Named /\ i \in Inodes /\ i # None
    BY NoneAssumption DEF FreeInode
  <2>2. Named' = Named \union {i}
    BY <1>3, <2>1 DEF Named, IInv, TreeOK
  <2>3. size'[i] = 0 /\ \A j \in Named : size'[j] = size[j]
    BY <1>3, <2>1, SumsType DEF IInv, TreeOK
  <2> QED
    BY <2>1, <2>2, <2>3, ReachableCreate
<1> QED
  BY <1>1, <1>2, <1>3, LinkFacts DEF FInv

LEMMA AccountStep ==
  ASSUME IInv, IInv', FInv, Accounted, Sequential, [Next]_vars PROVE Accounted'
<1>0. Reachable \in Nat /\ Debts \in Nat /\ used \in Nat
  BY SumsType DEF IInv, CounterOK
<1>1. ASSUME NEW p \in Procs, NEW h \in Handles, NEW from \in Offsets,
             NEW to \in Offsets, WriteAt(p, h, from, to)
      PROVE  Accounted'
  <2>1. PICK o : o = NewOp("write", h, None, size[open[h]], from, to)
    OBVIOUS
  <2>2. Begin(p, o) /\ o.stage = "write" /\ UNCHANGED <<file, size, used>>
    BY <1>1, <2>1 DEF WriteAt, NewOp
  <2> QED
    BY <2>2, AccountBegins
<1>2. ASSUME NEW p \in Procs, NEW h \in Handles, NEW to \in Offsets, Truncate(p, h, to)
      PROVE  Accounted'
  <2>1. PICK o : o = NewOp(IF to > size[open[h]] THEN "grow" ELSE "shrink",
                           h, None, size[open[h]], 0, to)
    OBVIOUS
  <2>2. Begin(p, o) /\ o.stage \in {"grow", "shrink"} /\ UNCHANGED <<file, size, used>>
    BY <1>2, <2>1 DEF Truncate, NewOp
  <2> QED
    BY <2>2, AccountBegins
<1>3. ASSUME NEW p \in Procs, NEW h \in Handles, NEW n \in Names, OpenTrunc(p, h, n)
      PROVE  Accounted'
  <2>1. PICK o : o = NewOp("opening", h, n, StatSize(n), 0, 0)
    OBVIOUS
  <2>2. Begin(p, o) /\ o.stage = "opening" /\ UNCHANGED <<file, size, used>>
    BY <1>3, <2>1 DEF OpenTrunc, NewOp
  <2> QED
    BY <2>2, AccountBegins
<1>4. ASSUME NEW p \in Procs, NEW n \in Names, Unlink(p, n)
      PROVE  Accounted'
  <2>1. PICK o : o = NewOp("unlink", None, n, StatSize(n), 0, 0)
    OBVIOUS
  <2>2. Begin(p, o) /\ o.stage = "unlink" /\ UNCHANGED <<file, size, used>>
    BY <1>4, <2>1 DEF Unlink, NewOp
  <2> QED
    BY <2>2, AccountBegins
<1>5. ASSUME NEW p \in Procs, Reserve(p)
      PROVE  Accounted'
  <2> DEFINE n == Growth(op[p].old, op[p].to)
  <2>1. Reachable' = Reachable
    BY <1>5, ReachableSame DEF Reserve, Named
  <2>2. Owed(op[p]) = 0
    BY <1>5 DEF Reserve, Owed
  <2>3. n \in Nat
    BY SizeAssumption DEF IInv, OpsOK, Ops, Offsets, Growth
  <2>4. ASSUME op' = [op EXCEPT ![p] = Idle], used' = used PROVE Accounted'
    <3>1. Owed(Idle) = 0
      BY DEF Owed, Idle, NewOp
    <3>2. PICK o : o = Idle
      OBVIOUS
    <3>3. used' - used = (Reachable' - Reachable) + (Owed(o) - Owed(op[p]))
      BY <1>0, <2>1, <2>2, <2>4, <3>1, <3>2
    <3> QED
      BY <2>4, <3>2, <3>3, AccountKept
  <2>5. ASSUME op' = [op EXCEPT ![p].stage = IF op[p].stage = "write" THEN "reserved"
                                                                      ELSE "extend"],
               used' = used + n
        PROVE  Accounted'
    <3>1. PICK o : o = [op[p] EXCEPT !.stage = IF op[p].stage = "write" THEN "reserved"
                                                                      ELSE "extend"]
      OBVIOUS
    <3>2. op' = [op EXCEPT ![p] = o]
      BY <2>5, <3>1
    <3>3. o.stage \in {"reserved", "extend"} /\ o.old = op[p].old /\ o.to = op[p].to
      BY <3>1 DEF IInv, OpsOK, Ops
    <3>4. Owed(o) = n
      BY <3>3 DEF Owed
    <3> HIDE DEF n
    <3>5. used' - used = (Reachable' - Reachable) + (Owed(o) - Owed(op[p]))
      BY <1>0, <2>1, <2>2, <2>3, <2>5, <3>4
    <3> QED
      BY <3>2, <3>5, AccountKept
  <2> QED
    BY <1>5, <2>4, <2>5 DEF Reserve
<1>6. ASSUME NEW p \in Procs, BackingWrite(p)
      PROVE  Accounted'
  <2>1. PICK i \in Inodes : i = open[op[p].handle] /\ i \in Named
    BY <1>6 DEF BackingWrite, FInv, Ready, ReadyOp, FileOps, OpenIsNamed, Opened, IInv, TreeOK
  <2>2. PICK old \in Nat, from \in Nat, to \in Nat :
           /\ old = op[p].old /\ old = size[i] /\ from = op[p].from /\ to = op[p].to
           /\ op[p].stage = "reserved" /\ from <= to
    BY <1>6, <2>1, SizeAssumption
       DEF BackingWrite, FInv, Ready, ReadyOp, FileOps, IInv, OpsOK, Ops, Offsets
  <2>3. PICK end \in from..to :
           /\ end = from => "empty_write" \in Allowed
           /\ size' = [size EXCEPT ![i] = IF end > from /\ end > @ THEN end ELSE @]
           /\ op' = [op EXCEPT ![p].stage = "credit", ![p].credit = Refund(p, end)]
           /\ UNCHANGED <<file, used>>
    BY <1>6, <2>1, <2>2 DEF BackingWrite
  <2>4. PICK o : o = [op[p] EXCEPT !.stage = "credit", !.credit = Refund(p, end)]
    OBVIOUS
  <2>5. /\ op' = [op EXCEPT ![p] = o]
        /\ Owed(o) = Growth(old, to) - Growth(old, end) /\ Owed(op[p]) = Growth(old, to)
    BY <2>2, <2>3, <2>4 DEF Owed, Refund, IInv, OpsOK, Ops
  <2>6. size'[i] = IF end > from /\ end > old THEN end ELSE old
    BY <2>2, <2>3 DEF IInv, TreeOK
  <2>7. \A j \in Named \ {i} : size'[j] = size[j]
    BY <2>3, SumsType DEF IInv, TreeOK
  <2>8. Reachable' = Reachable - old + size'[i]
    <3>1. Named' = Named
      BY <2>3 DEF Named
    <3> QED
      BY <2>1, <2>2, <2>7, <3>1, ReachableResize
  <2>9. /\ Growth(old, to) \in Nat /\ Growth(old, end) \in Nat /\ size'[i] \in Nat
        /\ size'[i] - old <= Growth(old, end)
        /\ end # from => size'[i] - old = Growth(old, end)
    BY <2>3, <2>6 DEF Growth
  <2>10. used' = used
    BY <2>3
  <2>11. /\ used' - used >= (Reachable' - Reachable) + (Owed(o) - Owed(op[p]))
         /\ end # from => used' - used = (Reachable' - Reachable) + (Owed(o) - Owed(op[p]))
    BY <1>0, <2>5, <2>8, <2>9, <2>10
  <2> QED
    BY <2>3, <2>5, <2>11, AccountMoves
<1>7. ASSUME NEW p \in Procs, BackingTruncate(p)
      PROVE  Accounted'
  <2>1. PICK i \in Inodes : i = open[op[p].handle] /\ i \in Named
    BY <1>7 DEF BackingTruncate, FInv, Ready, ReadyOp, FileOps, OpenIsNamed, Opened, IInv, TreeOK
  <2>2. PICK old \in Nat, to \in Nat :
           old = op[p].old /\ old = size[i] /\ to = op[p].to
    BY <1>7, <2>1, SizeAssumption
       DEF BackingTruncate, FInv, Ready, ReadyOp, FileOps, IInv, OpsOK, Ops, Offsets
  <2>3. /\ op[p].stage = "extend" => old < to /\ Owed(op[p]) = to - old
        /\ op[p].stage = "shrink" => to <= old /\ Owed(op[p]) = 0
    BY <2>2 DEF IInv, OpsSound, Owed, Growth
  <2>4. PICK c :
           /\ op' = [op EXCEPT ![p].stage = "credit", ![p].credit = c]
           /\ \/ /\ size' = [size EXCEPT ![i] = to]
                 /\ c = IF op[p].stage = "shrink" THEN old - to ELSE 0
              \/ size' = size /\ c = IF op[p].stage = "extend" THEN to - old ELSE 0
    BY <1>7, <2>1, <2>2 DEF BackingTruncate
  <2>5. PICK o : o = [op[p] EXCEPT !.stage = "credit", !.credit = c]
    OBVIOUS
  <2>6. op' = [op EXCEPT ![p] = o] /\ Owed(o) = c
    BY <2>4, <2>5 DEF Owed, IInv, OpsOK, Ops
  <2>7. \A j \in Named \ {i} : size'[j] = size[j]
    BY <2>4, SumsType DEF IInv, TreeOK
  <2>8. Reachable' = Reachable - old + size'[i]
    <3>1. Named' = Named
      BY <1>7 DEF Named, BackingTruncate
    <3> QED
      BY <2>1, <2>2, <2>7, <3>1, ReachableResize
  <2>9. used' = used /\ op[p].stage \in {"extend", "shrink"}
    BY <1>7 DEF BackingTruncate
  <2>10. size'[i] = to \/ size'[i] = old
    BY <2>2, <2>4 DEF IInv, TreeOK
  <2>11. size'[i] - old + (c - Owed(op[p])) = 0
    <3>1. CASE size' = [size EXCEPT ![i] = to] /\ c = IF op[p].stage = "shrink" THEN old - to ELSE 0
      <4>1. size'[i] = to
        BY <3>1 DEF IInv, TreeOK
      <4> QED
        BY <2>3, <2>9, <3>1, <4>1
    <3>2. CASE size' = size /\ c = IF op[p].stage = "extend" THEN to - old ELSE 0
      BY <2>2, <2>3, <2>9, <3>2
    <3> QED
      BY <2>4, <3>1, <3>2
  <2>12. Owed(op[p]) \in Int /\ c \in Int
    BY <2>3, <2>4, <2>9
  <2>13. used' - used = (Reachable' - Reachable) + (Owed(o) - Owed(op[p]))
    BY <1>0, <2>6, <2>8, <2>9, <2>10, <2>11, <2>12
  <2> QED
    BY <2>6, <2>13, AccountKept
<1>8. ASSUME NEW p \in Procs, BackingOpen(p)
      PROVE  Accounted'
  <2>1. PICK h \in Handles, n \in Names : h = op[p].handle /\ n = op[p].name
    BY <1>8 DEF BackingOpen, IInv, OpsSound
  <2>2. Link(h, n, TRUE) /\ used' = used /\ op[p].stage = "opening"
    BY <1>8, <2>1 DEF BackingOpen
  <2>3. PICK o : o = [op[p] EXCEPT !.stage = "credit", !.credit = op[p].old]
    OBVIOUS
  <2>4. op' = [op EXCEPT ![p] = o] /\ Owed(o) = op[p].old /\ Owed(op[p]) = 0
    BY <1>8, <2>3 DEF BackingOpen, Owed, IInv, OpsOK, Ops
  <2>5. op[p].old \in Nat
    BY SizeAssumption DEF IInv, OpsOK, Ops, Offsets
  <2>6. Reachable' = Reachable - op[p].old
    <3>1. op[p].old = IF file[n] # None THEN size[file[n]] ELSE 0
      BY <2>1, <2>2 DEF FInv, Ready, ReadyOp
    <3> QED
      BY <2>2, <3>1, AccountLink
  <2>7. used' - used = (Reachable' - Reachable) + (Owed(o) - Owed(op[p]))
    BY <1>0, <2>2, <2>4, <2>5, <2>6
  <2> QED
    BY <2>4, <2>7, AccountKept
<1>9. ASSUME NEW p \in Procs, BackingRemove(p)
      PROVE  Accounted'
  <2>1. PICK n \in Names : n = op[p].name
    BY <1>9 DEF BackingRemove, IInv, OpsSound
  <2>2. PICK i \in Named : i = file[n] /\ i # None /\ op[p].old = size[i] /\ Exists(n)
    BY <1>9, <2>1 DEF BackingRemove, FInv, Ready, ReadyOp, Exists, Named
  <2>3. /\ file' = [file EXCEPT ![n] = None] /\ size' = size /\ used' = used
        /\ op' = [op EXCEPT ![p].stage = "credit", ![p].credit = op[p].old]
    BY <1>9, <2>1, <2>2 DEF BackingRemove
  <2>4. PICK o : o = [op[p] EXCEPT !.stage = "credit", !.credit = op[p].old]
    OBVIOUS
  <2>5. op' = [op EXCEPT ![p] = o] /\ Owed(o) = op[p].old /\ Owed(op[p]) = 0
    <3>1. op' = [op EXCEPT ![p] = o] /\ o.stage = "credit" /\ o.credit = op[p].old
      BY <2>3, <2>4 DEF IInv, OpsOK, Ops
    <3>2. op[p].stage = "unlink"
      BY <1>9 DEF BackingRemove
    <3> QED
      BY <3>1, <3>2 DEF Owed
  <2>6. Named' = Named \ {i}
    <3>1. \A m \in Names \ {n} : file'[m] = file[m] /\ file[m] # i
      BY <2>2, <2>3 DEF FInv, OneName, IInv, TreeOK
    <3>2. file'[n] = None
      BY <2>3 DEF IInv, TreeOK
    <3> QED
      BY <2>2, <3>1, <3>2 DEF Named
  <2>7. Reachable' = Reachable - size[i] /\ size[i] \in Nat
    BY <2>3, <2>6, ReachableRemove, SumsType
  <2>8. used' - used = (Reachable' - Reachable) + (Owed(o) - Owed(op[p]))
    BY <1>0, <2>2, <2>3, <2>5, <2>7
  <2> QED
    BY <2>5, <2>8, AccountKept
<1>10. ASSUME NEW p \in Procs, Release(p)
       PROVE  Accounted'
  <2>1. PICK c \in Nat : c = op[p].credit
    BY SizeAssumption DEF IInv, OpsOK, Ops, Offsets
  <2>2. PICK o : o = Idle
    OBVIOUS
  <2>3. op' = [op EXCEPT ![p] = o] /\ Owed(op[p]) = c /\ Owed(o) = 0
    BY <1>10, <2>1, <2>2 DEF Release, Owed, Idle, NewOp
  <2>4. Owed(op[p]) <= Debts
    <3>1. \A q \in Procs \ {p} : op'[q] = op[q]
      BY <2>3 DEF IInv, OpsOK
    <3> QED
      BY <3>1, DebtsChange
  <2>5. used' = used - c
    BY <1>0, <1>10, <2>1, <2>3, <2>4 DEF Release, Accounted
  <2>6. Reachable' = Reachable
    BY <1>10, ReachableSame DEF Release, Named
  <2>7. used' - used = (Reachable' - Reachable) + (Owed(o) - Owed(op[p]))
    BY <1>0, <2>3, <2>5, <2>6
  <2> QED
    BY <2>3, <2>7, AccountKept
<1>11. ASSUME NEW h \in Handles, NEW n \in Names, OpenPlain(h, n)
       PROVE  Accounted'
  <2>1. Link(h, n, FALSE) /\ UNCHANGED <<used, op>>
    BY <1>11 DEF OpenPlain
  <2>2. Reachable' = Reachable - (IF FALSE /\ file[n] # None THEN size[file[n]] ELSE 0)
    BY <2>1, AccountLink
  <2>3. Reachable' = Reachable
    BY <1>0, <2>2
  <2>4. Debts' = Debts
    BY <2>1 DEF Debts
  <2> QED
    BY <2>1, <2>3, <2>4, AccountSame
<1>12. ASSUME NEW n \in Names, Rmdir(n)
       PROVE  Accounted'
  BY <1>12 DEF Rmdir, Sequential
<1>13. ASSUME NEW n \in Names, NEW t \in Names, Symlink(n, t)
       PROVE  Accounted'
  BY <1>13 DEF Symlink, Sequential
<1>14. ASSUME UNCHANGED <<file, size, used, op>> PROVE Accounted'
  <2>1. Reachable' = Reachable /\ Debts' = Debts
    BY <1>14, ReachableSame DEF Named, Debts
  <2> QED
    BY <1>14, <2>1, AccountSame
<1>15. ASSUME NEW h \in Handles, Close(h)
       PROVE  Accounted'
  BY <1>14, <1>15 DEF Close
<1>16. ASSUME NEW p \in Procs, BackingRefuses(p)
       PROVE  Accounted'
  <2>1. PICK o : o = Idle
    OBVIOUS
  <2>2. op' = [op EXCEPT ![p] = o] /\ Owed(op[p]) = 0 /\ Owed(o) = 0
    BY <1>16, <2>1 DEF BackingRefuses, Owed, Idle, NewOp
  <2>3. Reachable' = Reachable /\ used' = used
    BY <1>16, ReachableSame DEF BackingRefuses, Named
  <2>4. used' - used = (Reachable' - Reachable) + (Owed(o) - Owed(op[p]))
    BY <1>0, <2>2, <2>3
  <2> QED
    BY <2>2, <2>4, AccountKept
<1>17. ASSUME UNCHANGED vars PROVE Accounted'
  BY <1>14, <1>17 DEF vars
<1> QED
  BY <1>1, <1>2, <1>3, <1>4, <1>5, <1>6, <1>7, <1>8, <1>9, <1>10, <1>11, <1>12,
     <1>13, <1>15, <1>16, <1>17, Zenon DEF Next

\* For sequential use, every state accounts for every byte.
LEMMA AccountInvariant ==
  ASSUME Sequential
  PROVE  Spec => [](IInv /\ FInv /\ Accounted)
<1>1. Init => IInv /\ FInv /\ Accounted
  BY AccountInit, FilesInit
<1>2. IInv /\ FInv /\ Accounted /\ [Next]_vars => (IInv /\ FInv /\ Accounted)'
  BY StepInvariant, FilesStep, AccountStep
<1> QED
  BY <1>1, <1>2, PTL DEF Spec

\* The counter covers the bytes that are there, for any number of callers of different
\* files and any interleaving of their steps, at every step of every operation: reserve
\* comes before the write, release after the removal, and in between the difference is
\* what the operations in progress owe.
THEOREM CounterCovers ==
  ASSUME Sequential
  PROVE  Spec => []NeverUndercounts
<1>1. IInv /\ FInv /\ Accounted => NeverUndercounts
  BY SumsType DEF IInv, CounterOK, Accounted, NeverUndercounts
<1> QED
  BY <1>1, AccountInvariant, PTL

\* "A single counter tracks the sum of the logical size of every regular file reachable
\* through the FS": exactly, whenever no operation is in progress, unless a write that
\* moved nothing kept its reservation.
THEOREM CounterIsExact ==
  ASSUME Sequential, "empty_write" \notin Allowed
  PROVE  Spec => []ExactWhenIdle
<1>1. IInv /\ FInv /\ Accounted => ExactWhenIdle
  <2> SUFFICES ASSUME IInv, Accounted, \A p \in Procs : op[p] = Idle
               PROVE  used = Reachable
    BY DEF ExactWhenIdle
  <2>1. [p \in Procs |-> Owed(op[p])] \in [Procs -> Nat]
    BY OwedType DEF IInv, OpsOK
  <2>2. \A p \in Procs : Owed(op[p]) = 0
    BY DEF Owed, Idle, NewOp
  <2>3. Debts = 0
    BY <2>1, <2>2, TotalZero DEF Debts
  <2> QED
    BY <2>3, SumsType DEF Accounted, IInv, CounterOK
<1> QED
  BY <1>1, AccountInvariant, PTL

\* The cap caps the bytes a guest can reach, for sequential use of the files: the counter
\* is within it, and covers them.
THEOREM CapCapsBytes ==
  ASSUME Sequential
  PROVE  Spec => []CapIsEnforced
<1>1. NeverUndercounts /\ UsedWithinCap /\ IInv => CapIsEnforced
  BY SumsType, CapAssumption
     DEF NeverUndercounts, UsedWithinCap, CapIsEnforced, IInv, CounterOK
<1> QED
  BY <1>1, CounterCovers, CapIsKept, Invariant, PTL
=============================================================================
