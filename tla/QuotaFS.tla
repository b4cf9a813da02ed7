------------------------------- MODULE QuotaFS -------------------------------
(***************************************************************************)
(* The byte cap of a temp mount: quotafs/quotafs.go over the host          *)
(* directory of internal/osmount.                                          *)
(*                                                                         *)
(* Each metered operation is a sequence of separate critical sections:     *)
(* read the file's size (Stat), reserve on the shared counter, touch the   *)
(* backing file system, give credit back to the counter.  Only the counter *)
(* is guarded by a mutex, so operations of two callers interleave between  *)
(* those steps.  Unmetered operations (Symlink, Rmdir, plain Open, Close)  *)
(* are one step.                                                           *)
(***************************************************************************)
EXTENDS Integers, FiniteSets, Totals

CONSTANTS
  Procs,      \* callers with an operation in progress at the same time
  Names,      \* directory entries of the mount
  Inodes,     \* files of the host directory, reachable or only open
  Handles,    \* open regular files
  None,       \* no inode, no link target
  Cap,        \* counter.max
  SizeLimit,  \* bound: offsets and sizes
  Allowed     \* what the guest does besides well-formed sequential file use

ASSUME CapAssumption == Cap \in Nat
ASSUME SizeAssumption == SizeLimit \in Nat
ASSUME NoneAssumption == None \notin Names \union Inodes \union Handles
ASSUME FiniteAssumption == IsFiniteSet(Procs) /\ IsFiniteSet(Inodes)
ASSUME AllowedAssumption ==
  Allowed \subseteq {"share_file", "short_write", "empty_write", "symlink",
                     "rmdir_file", "unlink_open"}

VARIABLES
  file,    \* Names -> the inode a name denotes, None if absent or a link
  link,    \* Names -> the name a symlink points to, None otherwise
  size,    \* Inodes -> logical size
  open,    \* Handles -> the inode an open quotaFile wraps, or None
  used,    \* counter.used
  seed,    \* what New counted
  op       \* Procs -> the operation in progress

vars == <<file, link, size, open, used, seed, op>>

Offsets == 0..SizeLimit
Stages  == {"idle", "write", "reserved", "grow", "extend", "shrink", "opening",
            "unlink", "credit"}

\* An operation in progress: the handle and name it works on, the size it read,
\* the range it writes, and the bytes it will release.
Ops == [stage: Stages, handle: Handles \union {None}, name: Names \union {None},
        old: Offsets, from: Offsets, to: Offsets, credit: Offsets]

NewOp(stage, handle, name, old, from, to) ==
  [stage |-> stage, handle |-> handle, name |-> name, old |-> old,
   from |-> from, to |-> to, credit |-> 0]

Idle == NewOp("idle", None, None, 0, 0, 0)

TypeOK ==
  /\ file \in [Names -> Inodes \union {None}]
  /\ link \in [Names -> Names \union {None}]
  /\ size \in [Inodes -> Offsets]
  /\ open \in [Handles -> Inodes \union {None}]
  /\ used \in Nat /\ seed \in Nat
  /\ op \in [Procs -> Ops]

-----------------------------------------------------------------------------
(* The file system below.                                                  *)

Named     == {file[n] : n \in Names} \ {None}
Opened    == {open[h] : h \in Handles} \ {None}
FreeInode == Inodes \ (Named \union Opened)

\* os.Root.Stat and OpenFile follow a final symlink; Remove does not.
Target(n)  == IF link[n] # None THEN link[n] ELSE n
Resolve(n) == file[Target(n)]

\* Mutant: a file that is removed or truncated on open is not measured first.
StatNothing(n) == 0

\* StatAt(name), as far as the metering reads it: 0 when it fails.
StatSize(n) == IF Resolve(n) # None THEN size[Resolve(n)] ELSE 0

\* Bytes of the regular files reachable through the mount.
Reachable == Total([i \in Named |-> size[i]])

-----------------------------------------------------------------------------
(* The counter.                                                            *)

Growth(old, end) == IF end > old THEN end - old ELSE 0

\* Mutants: a cap checked before adding, a release that trusts its argument.
FitsLate(n) == used <= Cap
ReleaseUnclamped(p) ==
  /\ op[p].stage = "credit"
  /\ used' = used - 2 * op[p].credit
  /\ op' = [op EXCEPT ![p] = Idle]
  /\ UNCHANGED <<file, link, size, open, seed>>

Fits(n) == n <= 0 \/ used + n <= Cap

\* counter.release, the last step of every operation that gives bytes back.
Release(p) ==
  /\ op[p].stage = "credit"
  /\ used' = IF used > op[p].credit THEN used - op[p].credit ELSE 0
  /\ op' = [op EXCEPT ![p] = Idle]
  /\ UNCHANGED <<file, link, size, open, seed>>

-----------------------------------------------------------------------------
(* Metered operations on an open file.                                     *)

\* The files and names an operation in progress works on.  Without
\* "share_file", two operations in progress work on different ones.
InUse(q) ==
  IF op[q].stage \in {"idle", "credit"} THEN {}
  ELSE IF op[q].name = None THEN {open[op[q].handle]}
  ELSE {op[q].name, Target(op[q].name), Resolve(op[q].name)}
Alone(S) == "share_file" \in Allowed \/ \A q \in Procs : InUse(q) \intersect (S \ {None}) = {}

Begin(p, newOp) == op[p] = Idle /\ op' = [op EXCEPT ![p] = newOp]

\* WriteAt and Write: read the size (and, in Write, the position).  The range
\* is [from, to); a caller of Write has positioned the handle at from.
WriteAt(p, h, from, to) ==
  /\ open[h] # None /\ Alone({open[h]})
  /\ from < to \/ ("empty_write" \in Allowed /\ from = to)
  /\ Begin(p, NewOp("write", h, None, size[open[h]], from, to))
  /\ UNCHANGED <<file, link, size, open, used, seed>>

\* tryReserve(predicted), or ErrQuotaExceeded.
Reserve(p) ==
  LET o == op[p]
      n == Growth(o.old, o.to)
  IN /\ o.stage \in {"write", "grow"}
     /\ IF Fits(n)
          THEN /\ used' = used + n
               /\ op' = [op EXCEPT ![p].stage =
                           IF o.stage = "write" THEN "reserved" ELSE "extend"]
          ELSE op' = [op EXCEPT ![p] = Idle] /\ UNCHANGED used
     /\ UNCHANGED <<file, link, size, open, seed>>

\* Mutant: a write that ends early gets its whole reservation back.
RefundAll(p, end) == IF end < op[p].to THEN Growth(op[p].old, op[p].to) ELSE 0
Refund(p, end) == Growth(op[p].old, op[p].to) - Growth(op[p].old, end)

\* The backing write moves everything, or stops early with an error, perhaps
\* before it has moved anything.
BackingWrite(p) ==
  LET o == op[p]
      i == open[o.handle]
  IN /\ o.stage = "reserved"
     /\ \E end \in o.from..o.to :
          /\ end < o.to => "short_write" \in Allowed
          /\ end = o.from => "empty_write" \in Allowed
          /\ size' = [size EXCEPT ![i] = IF end > o.from /\ end > @ THEN end ELSE @]
          /\ op' = [op EXCEPT ![p].stage = "credit", ![p].credit = Refund(p, end)]
     /\ UNCHANGED <<file, link, open, used, seed>>

\* Truncate: read the size; growing reserves first, shrinking credits after.
Truncate(p, h, to) ==
  /\ open[h] # None /\ Alone({open[h]})
  /\ LET old == size[open[h]] IN
       Begin(p, NewOp(IF to > old THEN "grow" ELSE "shrink", h, None, old, 0, to))
  /\ UNCHANGED <<file, link, size, open, used, seed>>

BackingTruncate(p) ==
  LET o == op[p]
      i == open[o.handle]
  IN /\ o.stage \in {"extend", "shrink"}
     /\ \/ /\ size' = [size EXCEPT ![i] = o.to]
           /\ op' = [op EXCEPT ![p].stage = "credit",
                      ![p].credit = IF o.stage = "shrink" THEN o.old - o.to ELSE 0]
        \/ /\ "short_write" \in Allowed    \* the backing truncate fails
           /\ op' = [op EXCEPT ![p].stage = "credit",
                      ![p].credit = IF o.stage = "extend" THEN o.to - o.old ELSE 0]
           /\ UNCHANGED size
     /\ UNCHANGED <<file, link, open, used, seed>>

-----------------------------------------------------------------------------
(* Operations on the directory.                                            *)

HandleFree(h) == open[h] = None /\ \A p \in Procs : op[p].handle # h

\* Open h on what n denotes, creating the file if there is none.
Link(h, n, truncate) ==
  IF Resolve(n) # None
    THEN /\ open' = [open EXCEPT ![h] = Resolve(n)]
         /\ size' = IF truncate THEN [size EXCEPT ![Resolve(n)] = 0] ELSE size
         /\ UNCHANGED file
    ELSE \E i \in FreeInode :
           /\ file' = [file EXCEPT ![Target(n)] = i]
           /\ open' = [open EXCEPT ![h] = i]
           /\ size' = [size EXCEPT ![i] = 0]

\* Open, or OpenAt with O_CREATE: nothing to meter.
OpenPlain(h, n) ==
  /\ HandleFree(h) /\ Alone({n, Target(n), Resolve(n)})
  /\ Link(h, n, FALSE)
  /\ UNCHANGED <<link, used, seed, op>>

\* OpenAt with O_TRUNC: note the size, open, credit what was freed.
OpenTrunc(p, h, n) ==
  /\ HandleFree(h) /\ Alone({n, Target(n), Resolve(n)})
  /\ Begin(p, NewOp("opening", h, n, StatSize(n), 0, 0))
  /\ UNCHANGED <<file, link, size, open, used, seed>>

BackingOpen(p) ==
  /\ op[p].stage = "opening"
  /\ Link(op[p].handle, op[p].name, TRUE)
  /\ op' = [op EXCEPT ![p].stage = "credit", ![p].credit = op[p].old]
  /\ UNCHANGED <<link, used, seed>>

Exists(n) == file[n] # None \/ link[n] # None

\* UnlinkAt: note the size, remove, credit it.
Unlink(p, n) ==
  /\ Exists(n) /\ Alone({n, Target(n), Resolve(n)})
  /\ file[n] \in Opened => "unlink_open" \in Allowed
  /\ Begin(p, NewOp("unlink", None, n, StatSize(n), 0, 0))
  /\ UNCHANGED <<file, link, size, open, used, seed>>

BackingRemove(p) ==
  LET n == op[p].name IN
  /\ op[p].stage = "unlink" /\ Exists(n)
  /\ file' = [file EXCEPT ![n] = None]
  /\ link' = [link EXCEPT ![n] = None]
  /\ op' = [op EXCEPT ![p].stage = "credit", ![p].credit = op[p].old]
  /\ UNCHANGED <<size, open, used, seed>>

\* OpenAt or UnlinkAt below returns an error, the name being gone or for a reason of the
\* host's: the operation ends and the size it read is credited to no one.
BackingRefuses(p) ==
  /\ op[p].stage \in {"opening", "unlink"}
  /\ op' = [op EXCEPT ![p] = Idle]
  /\ UNCHANGED <<file, link, size, open, used, seed>>

\* Unmetered: RmdirAt is os.Root.Remove, which removes a regular file too.
Rmdir(n) ==
  /\ "rmdir_file" \in Allowed
  /\ file[n] # None /\ file[n] \notin Opened /\ Alone({file[n], n})
  /\ file' = [file EXCEPT ![n] = None]
  /\ UNCHANGED <<link, size, open, used, seed, op>>

\* Unmetered: SymlinkAt.  Links to links and loops are left out.
Symlink(n, t) ==
  /\ "symlink" \in Allowed
  /\ n # t /\ ~Exists(n) /\ link[t] = None /\ \A m \in Names : link[m] # n
  /\ Alone({n})
  /\ link' = [link EXCEPT ![n] = t]
  /\ UNCHANGED <<file, size, open, used, seed, op>>

Close(h) ==
  /\ open[h] # None
  /\ \A p \in Procs : op[p].handle # h
  /\ open' = [open EXCEPT ![h] = None]
  /\ UNCHANGED <<file, link, size, used, seed, op>>

-----------------------------------------------------------------------------
\* New counts what the directory holds.
Seeded == used = Reachable /\ used \in Nat

Init ==
  /\ file \in [Names -> Inodes \union {None}]
  /\ \A m, n \in Names : m # n /\ file[m] # None => file[m] # file[n]
  /\ link = [n \in Names |-> None]
  /\ size \in [Inodes -> Offsets]
  /\ \A i \in Inodes \ Named : size[i] = 0
  /\ open = [h \in Handles |-> None]
  /\ Seeded
  /\ seed = used
  /\ op = [p \in Procs |-> Idle]

Next ==
  \/ \E p \in Procs :
       \/ \E h \in Handles, from, to \in Offsets : WriteAt(p, h, from, to)
       \/ \E h \in Handles, to \in Offsets : Truncate(p, h, to)
       \/ \E h \in Handles, n \in Names : OpenTrunc(p, h, n)
       \/ \E n \in Names : Unlink(p, n)
       \/ Reserve(p) \/ BackingWrite(p) \/ BackingTruncate(p)
       \/ BackingOpen(p) \/ BackingRemove(p) \/ BackingRefuses(p) \/ Release(p)
  \/ \E h \in Handles, n \in Names : OpenPlain(h, n)
  \/ \E n \in Names : Rmdir(n)
  \/ \E n, t \in Names : Symlink(n, t)
  \/ \E h \in Handles : Close(h)

Spec == Init /\ [][Next]_vars

-----------------------------------------------------------------------------
\* The counter never passes the cap, for any interleaving: the check and the
\* addition are one critical section.  (A directory may be over the cap when it
\* is wrapped; then the counter never passes its first value.)
UsedWithinCap == used <= Cap \/ used <= seed

\* The cap caps what it says: the bytes a guest can reach in the mount.
CapIsEnforced == Reachable <= Cap \/ Reachable <= seed

\* At every step of every operation the counter covers the bytes that are there.
NeverUndercounts == Reachable <= used

\* "A single counter tracks the sum of the logical size of every regular file
\* reachable through the FS": once the operations in progress have ended.
ExactWhenIdle == (\A p \in Procs : op[p] = Idle) => used = Reachable
=============================================================================
