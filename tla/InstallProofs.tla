---------------------------- MODULE InstallProofs ----------------------------
(* Proofs of the properties of Install, for any number of commands,         *)
(* versions, bundles, files, credentials and mounts.                        *)
EXTENDS Install, TLAPS

Files  == [Paths -> Bundles \cup {None}]
Things == Credentials \cup Mounts \cup Versions

Kinds == {"idle", "import", "build", "boot", "mount", "unmount", "reconfigure", "delete"}
Steps == {"start", "latest", "get", "index", "manifest", "confirm", "creds", "mounts",
          "resolve", "load", "running", "map", "reconfigure", "delete"}

Ops == [kind : Kinds, at : Steps,
        bundle : Bundles \cup {None}, version : Versions \cup {None},
        index : Files, read : Files, todo : SUBSET Things,
        mounted : SUBSET Mounts, overtaken : BOOLEAN]

TypeOK ==
  /\ row \subseteq Versions
  /\ files \in [Versions -> Files]
  /\ configured \subseteq Credentials /\ mapped \subseteq Mounts
  /\ op \in [Procs -> Ops]
  /\ imported \subseteq Versions

(* What a command holds at each step.                                       *)
Bound(o) ==
  /\ o.kind \in Installing => o.bundle \in Bundles
  /\ o.kind \in Resolving /\ o.at \in {"get", "index", "manifest", "resolve", "load", "running"}
       => o.version \in Versions

(* Whatever a command has read was trusted when it read it, and what Import *)
(* goes on with is trusted.                                                 *)
Asked(o) ==
  /\ \A q \in Paths : o.read[q] # None => Trusted(o.read[q])
  /\ o.kind = "import" /\ o.at \in {"creds", "mounts"} => Trusted(o.bundle)

(* An import leaves no required credential behind it.                       *)
Provisioned(o) ==
  o.kind = "import" =>
    /\ o.at = "creds" => Manifest[o.bundle].required \ o.todo \subseteq configured
    /\ o.at = "mounts" => Manifest[o.bundle].required \subseteq configured

(* The index a boot has taken is what the version still holds, unless it    *)
(* was overtaken; what it reads agrees with it.                             *)
Current(o) ==
  o.kind = "boot" =>
    /\ o.at \in {"latest", "get", "index", "manifest"} => \A q \in Paths : o.read[q] = None
    /\ o.at \in {"manifest", "resolve", "load", "running"} /\ ~o.overtaken =>
         /\ o.index = files[o.version]
         /\ \A q \in Paths : o.read[q] \in {None, o.index[q]}
         /\ o.at # "manifest" => o.index["manifest"] # None

(* The check of the mounts is made on the manifest the particle runs under. *)
Fits(o) ==
  o.kind = "boot" /\ o.at \in {"load", "running"} =>
    /\ o.read["manifest"] # None
    /\ MountsFit(o.read["manifest"], o.mounted)

Good(o) == Bound(o) /\ Asked(o) /\ Provisioned(o) /\ Current(o) /\ Fits(o)

(* A version is the files of one bundle, or nothing.                        *)
FilesOf(b) == [q \in Paths |-> IF q \in Manifest[b].paths THEN b ELSE None]

RegistryIsWhole ==
  \A v \in Versions : files[v] = NoFiles \/ \E b \in Bundles : files[v] = FilesOf(b)

Inv == /\ TypeOK
       /\ \A p \in Procs : Good(op[p])
       /\ RegistryIsWhole
       /\ NothingUnapproved
       /\ ImportedIsProvisioned

----------------------------------------------------------------------------
USE BundlesAreBuilt

LEMMA NoFilesFacts == NoFiles \in Files /\ \A q \in Paths : NoFiles[q] = None
BY DEF NoFiles, Files

LEMMA IdleFacts ==
  /\ Idle.kind = "idle" /\ Idle.at = "start" /\ Idle.bundle = None /\ Idle.version = None
  /\ Idle.index = NoFiles /\ Idle.read = NoFiles /\ Idle.todo = {} /\ Idle.mounted = {}
  /\ Idle.overtaken = FALSE
BY DEF Idle

LEMMA IdleIsGood == Idle \in Ops /\ Good(Idle)
<1>1. Idle \in Ops
  <2>1. {} \in SUBSET Things /\ {} \in SUBSET Mounts /\ None \in Bundles \cup {None}
        /\ None \in Versions \cup {None} /\ FALSE \in BOOLEAN
    OBVIOUS
  <2>2. "idle" \in Kinds /\ "start" \in Steps
    BY DEF Kinds, Steps
  <2> QED
    BY <2>1, <2>2, NoFilesFacts, Zenon DEF Idle, Ops
<1>2. Good(Idle)
  BY IdleFacts, NoFilesFacts
  DEF Good, Bound, Asked, Provisioned, Current, Fits, Installing, Resolving, Resolvers
<1> QED
  BY <1>1, <1>2

LEMMA InitInv == Init => Inv
<1> SUFFICES ASSUME Init PROVE Inv
  OBVIOUS
<1>1. TypeOK
  <2>1. files \in [Versions -> Files]
    BY NoFilesFacts DEF Init
  <2>2. op \in [Procs -> Ops]
    BY IdleIsGood DEF Init
  <2> QED
    BY <2>1, <2>2 DEF Init, TypeOK
<1>2. \A p \in Procs : Good(op[p])
  BY IdleIsGood DEF Init
<1>3. \A v \in Versions : files[v] = NoFiles
  BY DEF Init
<1> QED
  BY <1>1, <1>2, <1>3, NoFilesFacts
  DEF Init, Inv, RegistryIsWhole, NothingUnapproved, ImportedIsProvisioned

----------------------------------------------------------------------------
(* A step that moves one command and takes nothing from the stores.         *)
Moves(p, o) ==
  /\ op' = [op EXCEPT ![p] = o]
  /\ row' = row /\ files' = files /\ imported' = imported
  /\ configured \subseteq configured' /\ configured' \subseteq Credentials
  /\ mapped' \subseteq Mounts
  /\ accepted \subseteq accepted'

(* What is trusted, provisioned or current stays so in such a step.         *)
LEMMA GoodLasts ==
  ASSUME NEW o, Good(o), files' = files, configured \subseteq configured',
         accepted \subseteq accepted'
  PROVE  Good(o)'
BY DEF Good, Bound, Asked, Provisioned, Current, Fits, Trusted

LEMMA MoveKeepsInv ==
  ASSUME Inv, NEW p \in Procs, NEW o, o \in Ops, Good(o)', Moves(p, o)
  PROVE  Inv'
<1>1. op'[p] = o /\ \A r \in Procs \ {p} : op'[r] = op[r]
  BY DEF Inv, TypeOK, Moves
<1>2. TypeOK'
  <2>1. op' \in [Procs -> Ops]
    BY DEF Inv, TypeOK, Moves
  <2> QED
    BY <2>1 DEF Inv, TypeOK, Moves
<1>3. (\A r \in Procs : Good(op[r]))'
  <2> SUFFICES ASSUME NEW r \in Procs PROVE Good(op[r])'
    OBVIOUS
  <2>1. CASE r = p
    BY <1>1, <2>1 DEF Good, Bound, Asked, Provisioned, Current, Fits, Trusted
  <2>2. CASE r # p
    <3>1. PICK x : x = op[r]
      OBVIOUS
    <3>2. Good(x) /\ op'[r] = x
      BY <1>1, <2>2, <3>1 DEF Inv
    <3>3. Good(x)'
      BY <3>2, GoodLasts DEF Moves
    <3> QED
      BY <3>2, <3>3 DEF Good, Bound, Asked, Provisioned, Current, Fits, Trusted
  <2> QED
    BY <2>1, <2>2
<1>4. RegistryIsWhole'
  BY DEF Inv, RegistryIsWhole, Moves
<1>5. NothingUnapproved'
  BY DEF Inv, NothingUnapproved, Trusted, Moves
<1>6. ImportedIsProvisioned'
  BY DEF Inv, ImportedIsProvisioned, Moves
<1> QED
  BY <1>2, <1>3, <1>4, <1>5, <1>6 DEF Inv

LEMMA StaysKeepsInv ==
  ASSUME Inv, NEW p \in Procs, NEW o, o \in Ops, Good(o),
         Becomes(p, o), UNCHANGED <<stores, history>>
  PROVE  Inv'
<1>1. Moves(p, o)
  BY DEF Becomes, Moves, stores, history, Inv, TypeOK
<1>2. Good(o)'
  BY <1>1, GoodLasts DEF Moves
<1> QED
  BY <1>1, <1>2, MoveKeepsInv

LEMMA OpFacts ==
  ASSUME Inv, NEW p \in Procs
  PROVE  op[p] \in Ops /\ Good(op[p])
BY DEF Inv, TypeOK

LEMMA SetAt ==
  ASSUME NEW o \in Ops, NEW s \in Steps
  PROVE  LET n == [o EXCEPT !.at = s] IN
         /\ n \in Ops /\ n.at = s
         /\ n.kind = o.kind /\ n.bundle = o.bundle /\ n.version = o.version
         /\ n.index = o.index /\ n.read = o.read /\ n.todo = o.todo
         /\ n.mounted = o.mounted /\ n.overtaken = o.overtaken
<1>1. [o EXCEPT !.at = s] \in Ops
  BY Zenon DEF Ops
<1> QED
  BY <1>1 DEF Ops

LEMMA SetTodo ==
  ASSUME NEW o \in Ops, NEW t \in SUBSET Things
  PROVE  LET n == [o EXCEPT !.todo = t] IN
         /\ n \in Ops /\ n.todo = t
         /\ n.kind = o.kind /\ n.at = o.at /\ n.bundle = o.bundle /\ n.version = o.version
         /\ n.index = o.index /\ n.read = o.read
         /\ n.mounted = o.mounted /\ n.overtaken = o.overtaken
<1>1. [o EXCEPT !.todo = t] \in Ops
  BY Zenon DEF Ops
<1> QED
  BY <1>1 DEF Ops

LEMMA SetRead ==
  ASSUME NEW o \in Ops, NEW q \in Paths, NEW b \in Bundles \cup {None}
  PROVE  LET n == [o EXCEPT !.read[q] = b] IN
         /\ n \in Ops /\ n.read[q] = b /\ \A r \in Paths \ {q} : n.read[r] = o.read[r]
         /\ n.kind = o.kind /\ n.at = o.at /\ n.bundle = o.bundle /\ n.version = o.version
         /\ n.index = o.index /\ n.todo = o.todo
         /\ n.mounted = o.mounted /\ n.overtaken = o.overtaken
<1> DEFINE n == [o EXCEPT !.read[q] = b]
<1>1. n = [o EXCEPT !.read = [o.read EXCEPT ![q] = b]]
  BY DEF Ops
<1>2. o.read \in Files /\ [o.read EXCEPT ![q] = b] \in Files
  BY DEF Ops, Files
<1>3. n \in Ops
  BY <1>1, <1>2, Zenon DEF Ops
<1>4. n.read = [o.read EXCEPT ![q] = b]
  BY <1>1 DEF Ops
<1> QED
  BY <1>2, <1>3, <1>4 DEF Ops, Files

----------------------------------------------------------------------------
(* The commands begin and end.                                              *)

LEMMA BecomesIdle ==
  ASSUME Inv, NEW p \in Procs, Becomes(p, Idle), UNCHANGED <<stores, history>>
  PROVE  Inv'
BY IdleIsGood, StaysKeepsInv

LEMMA AbandonKeepsInv == ASSUME Inv, NEW p \in Procs, Abandon(p) PROVE Inv'
BY BecomesIdle DEF Abandon

LEMMA StartImportKeepsInv ==
  ASSUME Inv, NEW p \in Procs, NEW b \in Bundles, StartImport(p, b)
  PROVE  Inv'
<1> DEFINE o == [Idle EXCEPT !.kind = "import", !.at = "latest", !.bundle = b]
<1>1. o \in Ops
  BY IdleIsGood, Zenon DEF Ops, Kinds, Steps
<1>2. o.kind = "import" /\ o.at = "latest" /\ o.bundle = b /\ o.read = NoFiles
  BY DEF Idle
<1>3. Good(o)
  BY <1>2, NoFilesFacts
  DEF Good, Bound, Asked, Provisioned, Current, Fits, Installing, Resolving, Resolvers
<1> QED
  BY <1>1, <1>3, StaysKeepsInv DEF StartImport, Start

LEMMA StartBuildKeepsInv ==
  ASSUME Inv, NEW p \in Procs, NEW b \in Bundles, StartBuild(p, b)
  PROVE  Inv'
<1> DEFINE o == [Idle EXCEPT !.kind = "build", !.at = "creds", !.bundle = b,
                             !.todo = Manifest[b].creds]
<1>1. Manifest[b].creds \in SUBSET Things
  BY DEF Things
<1>2. o \in Ops
  BY <1>1, IdleIsGood, Zenon DEF Ops, Kinds, Steps
<1>3. o.kind = "build" /\ o.at = "creds" /\ o.bundle = b /\ o.read = NoFiles
  BY DEF Idle
<1>4. Good(o)
  BY <1>3, NoFilesFacts
  DEF Good, Bound, Asked, Provisioned, Current, Fits, Installing, Resolving, Resolvers
<1> QED
  BY <1>2, <1>4, StaysKeepsInv DEF StartBuild, Start

LEMMA StartLatestKeepsInv ==
  ASSUME Inv, NEW p \in Procs, NEW k \in Resolvers \cup {"reconfigure"}, StartLatest(p, k)
  PROVE  Inv'
<1> DEFINE o == [Idle EXCEPT !.kind = k, !.at = "latest"]
<1>1. o \in Ops
  BY IdleIsGood, Zenon DEF Ops, Kinds, Steps, Resolvers
<1>2. o.kind = k /\ o.at = "latest" /\ o.read = NoFiles
  BY DEF Idle
<1>3. Good(o)
  BY <1>2, NoFilesFacts
  DEF Good, Bound, Asked, Provisioned, Current, Fits, Installing, Resolvers
<1> QED
  BY <1>1, <1>3, StaysKeepsInv DEF StartLatest, Start

LEMMA StartVersionKeepsInv ==
  ASSUME Inv, NEW p \in Procs, NEW k \in Resolvers, NEW v \in Versions, StartVersion(p, k, v)
  PROVE  Inv'
<1> DEFINE o == [Idle EXCEPT !.kind = k, !.at = "get", !.version = v]
<1>1. o \in Ops
  BY IdleIsGood, Zenon DEF Ops, Kinds, Steps, Resolvers
<1>2. o.kind = k /\ o.at = "get" /\ o.version = v /\ o.read = NoFiles
  BY DEF Idle
<1>3. Good(o)
  BY <1>2, NoFilesFacts
  DEF Good, Bound, Asked, Provisioned, Current, Fits, Installing, Resolvers
<1> QED
  BY <1>1, <1>3, StaysKeepsInv DEF StartVersion, Start

LEMMA StartDeleteKeepsInv ==
  ASSUME Inv, NEW p \in Procs, NEW vs \in SUBSET Versions, StartDelete(p, vs)
  PROVE  Inv'
<1> DEFINE o == [Idle EXCEPT !.kind = "delete", !.at = "delete", !.todo = vs]
<1>1. vs \in SUBSET Things
  BY DEF Things
<1>2. o \in Ops
  BY <1>1, IdleIsGood, Zenon DEF Ops, Kinds, Steps
<1>3. o.kind = "delete" /\ o.at = "delete" /\ o.read = NoFiles
  BY DEF Idle
<1>4. Good(o)
  BY <1>3, NoFilesFacts
  DEF Good, Bound, Asked, Provisioned, Current, Fits, Installing, Resolving, Resolvers
<1> QED
  BY <1>2, <1>4, StaysKeepsInv DEF StartDelete, Start

----------------------------------------------------------------------------
(* Resolution.                                                              *)

LEMMA SetPrior ==
  ASSUME NEW b \in Bundles, NEW prior \in Bundles \cup {None}
  PROVE  LET n == [Idle EXCEPT !.kind = "import", !.at = "confirm", !.bundle = b,
                               !.read["manifest"] = prior] IN
         /\ n \in Ops /\ n.kind = "import" /\ n.at = "confirm" /\ n.bundle = b
         /\ \A q \in Paths : n.read[q] \in {prior, None}
<1>1. PICK i : i = [Idle EXCEPT !.kind = "import", !.at = "confirm", !.bundle = b]
  OBVIOUS
<1>2. i \in Ops
  BY <1>1, IdleIsGood, Zenon DEF Ops, Kinds, Steps
<1>3. i.kind = "import" /\ i.at = "confirm" /\ i.bundle = b /\ i.read = NoFiles
  BY <1>1 DEF Idle
<1>4. PICK n : n = [i EXCEPT !.read["manifest"] = prior]
  OBVIOUS
<1>5. /\ n \in Ops /\ n.read["manifest"] = prior
      /\ \A r \in Paths \ {"manifest"} : n.read[r] = i.read[r]
      /\ n.kind = i.kind /\ n.at = i.at /\ n.bundle = i.bundle
  BY <1>2, <1>4, SetRead
<1>6. n = [Idle EXCEPT !.kind = "import", !.at = "confirm", !.bundle = b,
                       !.read["manifest"] = prior]
  BY <1>1, <1>4, IdleIsGood DEF Ops
<1> QED
  BY <1>3, <1>5, <1>6, NoFilesFacts

(* An import goes on with permissions to compare with that were trusted.    *)
LEMMA ConfirmKeepsInv ==
  ASSUME Inv, NEW p \in Procs, op[p].kind = "import", NEW prior \in Bundles \cup {None},
         prior # None => Trusted(prior), Confirm(p, prior), UNCHANGED <<stores, history>>
  PROVE  Inv'
<1>1. PICK b : b = op[p].bundle
  OBVIOUS
<1>2. b \in Bundles
  BY <1>1, OpFacts DEF Good, Bound, Installing
<1>3. PICK o : o = [Idle EXCEPT !.kind = "import", !.at = "confirm", !.bundle = b,
                                !.read["manifest"] = prior]
  OBVIOUS
<1>4. /\ o \in Ops /\ o.kind = "import" /\ o.at = "confirm" /\ o.bundle = b
      /\ \A q \in Paths : o.read[q] \in {prior, None}
  BY <1>2, <1>3, SetPrior, ZenonT(30)
<1>5. Good(o)
  BY <1>2, <1>4 DEF Good, Bound, Asked, Provisioned, Current, Fits, Installing
<1>6. Becomes(p, o)
  BY <1>1, <1>3 DEF Confirm, Becomes
<1> QED
  BY <1>4, <1>5, <1>6, StaysKeepsInv

LEMMA LatestKeepsInv == ASSUME Inv, NEW p \in Procs, Latest(p) PROVE Inv'
<1>1. At(p, Resolving, "latest") /\ UNCHANGED <<stores, history>>
  BY DEF Latest
<1>2. CASE \E v \in row : op' = [op EXCEPT ![p].at = "get", ![p].version = v]
  <2>1. PICK v \in row : op' = [op EXCEPT ![p].at = "get", ![p].version = v]
    BY <1>2
  <2>2. PICK o : o = [op[p] EXCEPT !.at = "get", !.version = v]
    OBVIOUS
  <2>3. v \in Versions
    BY DEF Inv, TypeOK
  <2>4. o \in Ops
    BY <2>2, <2>3, OpFacts, Zenon DEF Ops, Steps
  <2>5. o.at = "get" /\ o.version = v /\ o.kind = op[p].kind /\ o.bundle = op[p].bundle
        /\ o.read = op[p].read
    BY <2>2, OpFacts DEF Ops
  <2>6. Good(o)
    BY <1>1, <2>3, <2>5, OpFacts DEF At, Good, Bound, Asked, Provisioned, Current, Fits
  <2>7. Becomes(p, o)
    BY <2>1, <2>2 DEF Becomes
  <2> QED
    BY <1>1, <2>4, <2>6, <2>7, StaysKeepsInv
<1>3. CASE op[p].kind = "import" /\ Confirm(p, None)
  BY <1>1, <1>3, ConfirmKeepsInv
<1>4. CASE Becomes(p, Idle)
  BY <1>1, <1>4, BecomesIdle
<1> QED
  BY <1>2, <1>3, <1>4 DEF Latest

LEMMA GetKeepsInv == ASSUME Inv, NEW p \in Procs, Get(p) PROVE Inv'
<1>1. At(p, Resolving, "get") /\ UNCHANGED <<stores, history>>
  BY DEF Get
<1>2. CASE op' = [op EXCEPT ![p].at = "index"]
  <2>1. PICK x : x = op[p]
    OBVIOUS
  <2>2. PICK o : o = [x EXCEPT !.at = "index"]
    OBVIOUS
  <2>3. "index" \in Steps
    BY DEF Steps
  <2>4. /\ o \in Ops /\ o.at = "index" /\ o.kind = x.kind /\ o.bundle = x.bundle
        /\ o.read = x.read /\ o.version = x.version
    BY <2>1, <2>2, <2>3, OpFacts, SetAt
  <2>5. Good(o)
    BY <1>1, <2>1, <2>4, OpFacts DEF At, Good, Bound, Asked, Provisioned, Current, Fits
  <2>6. Becomes(p, o)
    BY <1>2, <2>1, <2>2 DEF Becomes
  <2> QED
    BY <1>1, <2>4, <2>5, <2>6, StaysKeepsInv
<1>3. CASE op[p].kind = "import" /\ Confirm(p, None)
  BY <1>1, <1>3, ConfirmKeepsInv
<1>4. CASE Becomes(p, Idle)
  BY <1>1, <1>4, BecomesIdle
<1> QED
  BY <1>2, <1>3, <1>4 DEF Get

LEMMA SnapshotKeepsInv == ASSUME Inv, NEW p \in Procs, Snapshot(p) PROVE Inv'
<1>1. At(p, Resolving, "index") /\ UNCHANGED <<stores, history>>
  BY DEF Snapshot
<1>2. CASE Becomes(p, [Idle EXCEPT !.kind = "unmount", !.at = "map"])
  <2> DEFINE o == [Idle EXCEPT !.kind = "unmount", !.at = "map"]
  <2>1. o \in Ops
    BY IdleIsGood, Zenon DEF Ops, Kinds, Steps
  <2>2. o.kind = "unmount" /\ o.at = "map" /\ o.read = NoFiles
    BY DEF Idle
  <2>3. Good(o)
    BY <2>2, NoFilesFacts DEF Good, Bound, Asked, Provisioned, Current, Fits, Installing
  <2> QED
    BY <1>1, <1>2, <2>1, <2>3, StaysKeepsInv
<1>3. CASE op' = [op EXCEPT ![p].index = files[op[p].version], ![p].at = "manifest"]
  <2>1. PICK x, index : x = op[p] /\ index = files[x.version]
    OBVIOUS
  <2>2. x \in Ops /\ Good(x)
    BY <2>1, OpFacts
  <2>3. x.version \in Versions
    BY <1>1, <2>1, <2>2 DEF At, Good, Bound
  <2>4. index \in Files
    BY <2>1, <2>3 DEF Inv, TypeOK
  <2>5. PICK o : o = [x EXCEPT !.index = index, !.at = "manifest"]
    OBVIOUS
  <2>6. o \in Ops
    BY <2>2, <2>4, <2>5, Zenon DEF Ops, Steps
  <2>7. /\ o.at = "manifest" /\ o.kind = x.kind /\ o.bundle = x.bundle /\ o.read = x.read
        /\ o.version = x.version /\ o.index = index
    BY <2>2, <2>5 DEF Ops
  <2>8. Good(o)
    BY <1>1, <2>1, <2>2, <2>3, <2>7
    DEF At, Good, Bound, Asked, Provisioned, Current, Fits
  <2>9. Becomes(p, o)
    BY <1>3, <2>1, <2>5 DEF Becomes
  <2> QED
    BY <1>1, <2>6, <2>8, <2>9, StaysKeepsInv
<1> QED
  BY <1>2, <1>3 DEF Snapshot

(* What a file system of the registry returns is in the table.              *)
LEMMA BlobIsTrusted ==
  ASSUME Inv, NEW p \in Procs, NEW q \in Paths, op[p].version \in Versions
  PROVE  /\ queryBlob(p, q) \in Bundles \cup {None}
         /\ queryBlob(p, q) # None =>
              /\ op[p].index[q] # None
              /\ queryBlob(p, q) = files[op[p].version][q]
              /\ Trusted(queryBlob(p, q))
<1>1. files[op[p].version][q] \in Bundles \cup {None}
  BY ZenonT(30) DEF Inv, TypeOK, Files
<1>2. CASE op[p].index[q] = None
  BY <1>2 DEF queryBlob
<1>3. CASE op[p].index[q] # None
  <2>1. queryBlob(p, q) = files[op[p].version][q]
    BY <1>3 DEF queryBlob
  <2> QED
    BY <1>1, <1>3, <2>1 DEF Inv, NothingUnapproved
<1> QED
  BY <1>2, <1>3

LEMMA ReadManifestKeepsInv == ASSUME Inv, NEW p \in Procs, ReadManifest(p) PROVE Inv'
<1>1. At(p, Resolving, "manifest") /\ UNCHANGED <<stores, history>>
  BY DEF ReadManifest
<1>2. PICK b : b = queryBlob(p, "manifest")
  OBVIOUS
<1>3. op[p].version \in Versions
  BY <1>1, OpFacts DEF At, Good, Bound
<1>4. /\ b \in Bundles \cup {None}
      /\ b # None => /\ Trusted(b) /\ op[p].index["manifest"] # None
                     /\ b = files[op[p].version]["manifest"]
  BY <1>2, <1>3, BlobIsTrusted
<1>5. CASE op[p].kind = "import" /\ Confirm(p, b)
  BY <1>1, <1>4, <1>5, ConfirmKeepsInv
<1>6. CASE Becomes(p, Idle)
  BY <1>1, <1>6, BecomesIdle
<1>7. CASE /\ op[p].kind = "boot" /\ b # None
           /\ op' = [op EXCEPT ![p].read["manifest"] = b, ![p].at = "resolve",
                               ![p].todo = Manifest[b].mounts]
  <2>1. PICK x : x = op[p]
    OBVIOUS
  <2>2. x \in Ops /\ Good(x)
    BY <2>1, OpFacts
  <2>3. PICK n : n = [x EXCEPT !.read["manifest"] = b]
    OBVIOUS
  <2>4. /\ n \in Ops /\ n.read["manifest"] = b
        /\ \A r \in Paths \ {"manifest"} : n.read[r] = x.read[r]
        /\ n.kind = x.kind /\ n.bundle = x.bundle /\ n.version = x.version
        /\ n.index = x.index /\ n.overtaken = x.overtaken
    BY <1>4, <2>2, <2>3, SetRead
  <2>5. PICK o : o = [n EXCEPT !.at = "resolve", !.todo = Manifest[b].mounts]
    OBVIOUS
  <2>6. Manifest[b].mounts \in SUBSET Things
    BY <1>4, <1>7 DEF Things
  <2>7. o \in Ops
    BY <2>4, <2>5, <2>6, Zenon DEF Ops, Steps
  <2>8. /\ o.at = "resolve" /\ o.read = n.read /\ o.kind = x.kind /\ o.bundle = x.bundle
        /\ o.version = x.version /\ o.index = x.index /\ o.overtaken = x.overtaken
    BY <2>4, <2>5 DEF Ops
  <2>9. Bound(o) /\ Provisioned(o) /\ Fits(o)
    BY <1>3, <1>7, <2>1, <2>8 DEF Bound, Provisioned, Fits, Installing
  <2>10. Asked(o)
    BY <1>4, <1>7, <2>1, <2>2, <2>4, <2>8 DEF Good, Asked
  <2>11. Current(o)
    BY <1>1, <1>4, <1>7, <2>1, <2>2, <2>4, <2>8 DEF At, Good, Current
  <2>12. Becomes(p, o)
    BY <1>7, <2>1, <2>3, <2>5 DEF Becomes
  <2> QED
    BY <1>1, <2>7, <2>9, <2>10, <2>11, <2>12, StaysKeepsInv DEF Good
<1>8. ASSUME NEW kind \in {"mount", "reconfigure"}, NEW at \in {"map", "reconfigure"},
             NEW todo \in SUBSET Things,
             Becomes(p, [Idle EXCEPT !.kind = kind, !.at = at, !.todo = todo])
      PROVE  Inv'
  <2> DEFINE o == [Idle EXCEPT !.kind = kind, !.at = at, !.todo = todo]
  <2>1. o \in Ops
    BY IdleIsGood, Zenon DEF Ops, Kinds, Steps
  <2>2. o.kind = kind /\ o.at = at /\ o.read = NoFiles
    BY DEF Idle
  <2>3. Good(o)
    BY <2>2, NoFilesFacts DEF Good, Bound, Asked, Provisioned, Current, Fits, Installing
  <2> QED
    BY <1>1, <1>8, <2>1, <2>3, StaysKeepsInv
<1>9. b # None => Manifest[b].mounts \in SUBSET Things /\ Manifest[b].creds \in SUBSET Things
  BY <1>4 DEF Things
<1> QED
  BY <1>2, <1>5, <1>6, <1>7, <1>8, <1>9 DEF ReadManifest

----------------------------------------------------------------------------
(* Permissions, credentials and mounts.                                     *)

(* To have accepted a manifest is to have accepted one that asks the same.  *)
LEMMA SameIsTrusted ==
  ASSUME NEW b \in Bundles, NEW prior, SamePermissions(b, prior), Trusted(prior)
  PROVE  Trusted(b)
<1>1. Approval(b) = Approval(prior)
  BY DEF SamePermissions
<1>2. CASE NothingToAsk(prior)
  <2>1. /\ Manifest[b].caps \ {"kv"} = Manifest[prior].caps \ {"kv"}
        /\ Manifest[b].mounts = Manifest[prior].mounts
        /\ Manifest[b].creds = Manifest[prior].creds
    BY <1>1 DEF Approval
  <2> QED
    BY <1>2, <2>1 DEF NothingToAsk, Trusted
<1>3. CASE Approval(prior) \in accepted
  BY <1>1, <1>3 DEF Trusted
<1> QED
  BY <1>2, <1>3 DEF Trusted

(* From confirm to creds, with the bundle trusted.                          *)
LEMMA ConfirmedKeepsInv ==
  ASSUME Inv, NEW p \in Procs, At(p, {"import"}, "confirm"),
         NEW b \in Bundles, b = op[p].bundle, GoesWith(p, "creds", Manifest[b].creds),
         UNCHANGED <<stores, imported>>, accepted \subseteq accepted', Trusted(b)'
  PROVE  Inv'
<1>1. Manifest[b].creds \in SUBSET Things /\ Manifest[b].required \subseteq Manifest[b].creds
  BY DEF Things
<1>2. PICK o : o = [Idle EXCEPT !.kind = "import", !.bundle = b, !.at = "creds",
                                !.todo = Manifest[b].creds]
  OBVIOUS
<1>3. "creds" \in Steps
  BY DEF Steps
<1>4. /\ o \in Ops /\ o.kind = "import" /\ o.bundle = b /\ o.at = "creds"
      /\ o.todo = Manifest[b].creds /\ \A q \in Paths : o.read[q] = None
  <2>1. o \in Ops
    BY <1>1, <1>2, <1>3, IdleIsGood, Zenon DEF Ops, Kinds
  <2>2. o.kind = "import" /\ o.bundle = b /\ o.at = "creds" /\ o.todo = Manifest[b].creds
        /\ o.read = NoFiles
    BY <1>2 DEF Idle
  <2> QED
    BY <2>1, <2>2, NoFilesFacts
<1>5. op' = [op EXCEPT ![p] = o]
  BY <1>2 DEF GoesWith, Becomes, At
<1>6. Moves(p, o)
  BY <1>5 DEF Moves, stores, Inv, TypeOK
<1>7. Good(o)'
  BY <1>1, <1>4 DEF Good, Bound, Asked, Provisioned, Current, Fits, Trusted, Resolving
<1> QED
  BY <1>4, <1>6, <1>7, MoveKeepsInv

LEMMA ImportHasBundle ==
  ASSUME Inv, NEW p \in Procs, At(p, Installing, "confirm") \/ At(p, Installing, "creds")
                               \/ At(p, Installing, "mounts")
  PROVE  op[p].bundle \in Bundles
BY OpFacts DEF At, Good, Bound

LEMMA SilentKeepsInv == ASSUME Inv, NEW p \in Procs, Silent(p) PROVE Inv'
<1>1. PICK b : b = op[p].bundle
  OBVIOUS
<1>2. At(p, {"import"}, "confirm") /\ At(p, Installing, "confirm")
  BY DEF Silent, At, Installing
<1>3. b \in Bundles
  BY <1>1, <1>2, ImportHasBundle
<1>4. Trusted(b)
  <2>1. PICK prior : prior = op[p].read["manifest"]
    OBVIOUS
  <2>2. CASE NothingToAsk(b)
    BY <2>2 DEF Trusted
  <2>3. CASE SamePermissions(b, prior)
    <3>1. Trusted(prior)
      BY <2>1, <2>3, OpFacts DEF Good, Asked, SamePermissions
    <3> QED
      BY <1>3, <2>3, <3>1, SameIsTrusted
  <2> QED
    BY <1>1, <2>1, <2>2, <2>3 DEF Silent
<1>5. Trusted(b)' /\ accepted \subseteq accepted'
  BY <1>4 DEF Silent, history, Trusted
<1>6. UNCHANGED <<stores, imported>> /\ GoesWith(p, "creds", Manifest[b].creds)
  BY <1>1 DEF Silent, history
<1> QED
  BY <1>1, <1>2, <1>3, <1>5, <1>6, ConfirmedKeepsInv

LEMMA AcceptKeepsInv == ASSUME Inv, NEW p \in Procs, Accept(p) PROVE Inv'
<1>1. PICK b : b = op[p].bundle
  OBVIOUS
<1>2. At(p, {"import"}, "confirm") /\ At(p, Installing, "confirm")
  BY DEF Accept, At, Installing
<1>3. b \in Bundles
  BY <1>1, <1>2, ImportHasBundle
<1>4. Trusted(b)' /\ accepted \subseteq accepted'
  BY <1>1 DEF Accept, Trusted
<1>5. UNCHANGED <<stores, imported>> /\ GoesWith(p, "creds", Manifest[b].creds)
  BY <1>1 DEF Accept
<1> QED
  BY <1>1, <1>2, <1>3, <1>4, <1>5, ConfirmedKeepsInv

(* One thing less to do, at the same step.                                  *)
LEMMA TodoShrinks ==
  ASSUME Inv, NEW p \in Procs, op[p].kind \in Installing, NEW c, NEW o,
         o = [op[p] EXCEPT !.todo = @ \ {c}]
  PROVE  /\ o \in Ops /\ o.todo = op[p].todo \ {c}
         /\ o.kind = op[p].kind /\ o.at = op[p].at /\ o.bundle = op[p].bundle
         /\ o.version = op[p].version /\ o.read = op[p].read
<1>1. op[p] \in Ops /\ op[p].todo \ {c} \in SUBSET Things
  BY OpFacts DEF Ops
<1>2. PICK x, t : x = op[p] /\ t = op[p].todo \ {c}
  OBVIOUS
<1>3. o = [x EXCEPT !.todo = t]
  BY <1>2
<1> QED
  BY <1>1, <1>2, <1>3, SetTodo

LEMMA SetUpKeepsInv ==
  ASSUME Inv, NEW p \in Procs, NEW c \in Credentials, SetUp(p, c)
  PROVE  Inv'
<1>1. op[p].kind \in Installing /\ op[p].at = "creds" /\ c \in op[p].todo
  BY DEF SetUp, At
<1>2. PICK o : o = [op[p] EXCEPT !.todo = @ \ {c}]
  OBVIOUS
<1>3. PICK x : x = op[p]
  OBVIOUS
<1>4. /\ o \in Ops /\ o.todo = x.todo \ {c}
      /\ o.kind = x.kind /\ o.at = x.at /\ o.bundle = x.bundle
      /\ o.version = x.version /\ o.read = x.read
  BY <1>1, <1>2, <1>3, TodoShrinks
<1>5. Moves(p, o)
  BY <1>2 DEF SetUp, Moves, history, Inv, TypeOK
<1>6. Good(x)
  BY <1>3, OpFacts
<1>7. x.kind = "import" => Manifest[x.bundle].required \ o.todo \subseteq configured'
  <2>1. ASSUME x.kind = "import"
        PROVE  c \in configured' \/ c \notin Manifest[x.bundle].required
    BY <1>3, <2>1 DEF SetUp, ImportLeaves
  <2>2. configured \subseteq configured'
    BY <1>5 DEF Moves
  <2> QED
    BY <1>1, <1>3, <1>4, <1>6, <2>1, <2>2 DEF Good, Provisioned
<1>8. Provisioned(o)'
  BY <1>1, <1>3, <1>4, <1>7 DEF Provisioned
<1>9. (Bound(o) /\ Asked(o) /\ Current(o) /\ Fits(o))'
  BY <1>1, <1>3, <1>4, <1>5, <1>6
  DEF Good, Bound, Asked, Current, Fits, Installing, Moves, Trusted
<1> QED
  BY <1>4, <1>5, <1>8, <1>9, MoveKeepsInv DEF Good

LEMMA CredentialsDoneKeepsInv ==
  ASSUME Inv, NEW p \in Procs, CredentialsDone(p)
  PROVE  Inv'
<1>1. op[p].kind \in Installing /\ op[p].at = "creds" /\ op[p].todo = {}
  BY DEF CredentialsDone, At
<1>2. PICK kind, b : kind = op[p].kind /\ b = op[p].bundle
  OBVIOUS
<1>3. b \in Bundles
  BY <1>1, <1>2, ImportHasBundle DEF At
<1>4. kind = "import" => Trusted(b) /\ Manifest[b].required \subseteq configured
  BY <1>1, <1>2, OpFacts DEF Good, Asked, Provisioned
<1>5. Manifest[b].mounts \in SUBSET Things
  BY <1>3 DEF Things
<1>6. PICK o : o = [Idle EXCEPT !.kind = kind, !.bundle = b, !.at = "mounts",
                                !.todo = Manifest[b].mounts]
  OBVIOUS
<1>7. "mounts" \in Steps
  BY DEF Steps
<1>8. /\ o \in Ops /\ o.kind = kind /\ o.bundle = b /\ o.at = "mounts"
      /\ \A q \in Paths : o.read[q] = None
  <2>1. kind \in Kinds
    BY <1>1, <1>2 DEF Installing, Kinds
  <2>2. o \in Ops
    BY <1>3, <1>5, <1>6, <1>7, <2>1, IdleIsGood, Zenon DEF Ops
  <2>3. o.kind = kind /\ o.bundle = b /\ o.at = "mounts" /\ o.read = NoFiles
    BY <1>6 DEF Idle
  <2> QED
    BY <2>2, <2>3, NoFilesFacts
<1>9. Good(o)
  BY <1>1, <1>2, <1>3, <1>4, <1>8
  DEF Good, Bound, Asked, Provisioned, Current, Fits, Installing
<1>10. Becomes(p, o) /\ UNCHANGED <<stores, history>>
  BY <1>2, <1>6 DEF CredentialsDone, GoesWith, Becomes
<1> QED
  BY <1>8, <1>9, <1>10, StaysKeepsInv

LEMMA SetUpMountKeepsInv ==
  ASSUME Inv, NEW p \in Procs, NEW m \in Mounts, SetUpMount(p, m)
  PROVE  Inv'
<1>1. op[p].kind \in Installing /\ op[p].at = "mounts"
  BY DEF SetUpMount, At
<1>2. PICK o : o = [op[p] EXCEPT !.todo = @ \ {m}]
  OBVIOUS
<1>3. PICK x : x = op[p]
  OBVIOUS
<1>4. /\ o \in Ops /\ o.kind = x.kind /\ o.at = x.at /\ o.bundle = x.bundle
      /\ o.version = x.version /\ o.read = x.read
  BY <1>1, <1>2, <1>3, TodoShrinks
<1>5. Good(x)
  BY <1>3, OpFacts
<1>6. Good(o)
  BY <1>1, <1>3, <1>4, <1>5
  DEF Good, Bound, Asked, Provisioned, Current, Fits, Installing
<1>7. Moves(p, o)
  BY <1>2 DEF SetUpMount, Moves, history, Inv, TypeOK
<1>8. Good(o)'
  BY <1>6, <1>7, GoodLasts DEF Moves
<1> QED
  BY <1>4, <1>7, <1>8, MoveKeepsInv

----------------------------------------------------------------------------
(* Commands whose one write ends them.                                      *)

LEMMA EndKeepsInv ==
  ASSUME Inv, NEW p \in Procs, Moves(p, Idle)
  PROVE  Inv'
<1>1. Good(Idle)'
  BY IdleIsGood, GoodLasts DEF Moves
<1> QED
  BY <1>1, IdleIsGood, MoveKeepsInv

LEMMA ReconfigureKeepsInv ==
  ASSUME Inv, NEW p \in Procs, NEW c \in Credentials, Reconfigure(p, c)
  PROVE  Inv'
<1>1. Moves(p, Idle)
  BY DEF Reconfigure, Becomes, Moves, history, Inv, TypeOK
<1> QED
  BY <1>1, EndKeepsInv

LEMMA MountKeepsInv ==
  ASSUME Inv, NEW p \in Procs, NEW m \in Mounts, Mount(p, m)
  PROVE  Inv'
<1>1. Moves(p, Idle)
  BY DEF Mount, Becomes, Moves, history, Inv, TypeOK
<1> QED
  BY <1>1, EndKeepsInv

LEMMA UnmountKeepsInv ==
  ASSUME Inv, NEW p \in Procs, NEW m \in Mounts, Unmount(p, m)
  PROVE  Inv'
<1>1. Moves(p, Idle)
  BY DEF Unmount, Becomes, Moves, history, Inv, TypeOK
<1> QED
  BY <1>1, EndKeepsInv

----------------------------------------------------------------------------
(* Boot.                                                                    *)

LEMMA ResolveMountKeepsInv ==
  ASSUME Inv, NEW p \in Procs, NEW m \in Mounts, ResolveMount(p, m)
  PROVE  Inv'
<1>1. op[p].kind = "boot" /\ op[p].at = "resolve" /\ UNCHANGED <<stores, history>>
  BY DEF ResolveMount, At
<1>2. PICK x : x = op[p]
  OBVIOUS
<1>3. x \in Ops /\ Good(x)
  BY <1>2, OpFacts
<1>4. ASSUME NEW t \in SUBSET Things, NEW mounted \in SUBSET Mounts,
             op' = [op EXCEPT ![p].todo = t, ![p].mounted = mounted]
      PROVE  Inv'
  <2>1. PICK o : o = [x EXCEPT !.todo = t, !.mounted = mounted]
    OBVIOUS
  <2>2. o \in Ops
    BY <1>3, <2>1, Zenon DEF Ops
  <2>3. /\ o.kind = x.kind /\ o.at = x.at /\ o.bundle = x.bundle /\ o.version = x.version
        /\ o.index = x.index /\ o.read = x.read /\ o.overtaken = x.overtaken
    BY <1>3, <2>1 DEF Ops
  <2>4. Good(o)
    BY <1>1, <1>2, <1>3, <2>3
    DEF Good, Bound, Asked, Provisioned, Current, Fits, Installing
  <2>5. Becomes(p, o)
    BY <1>2, <1>4, <2>1 DEF Becomes
  <2> QED
    BY <1>1, <2>2, <2>4, <2>5, StaysKeepsInv
<1>5. op[p].todo \ {m} \in SUBSET Things /\ op[p].mounted \cup {m} \in SUBSET Mounts
      /\ op[p].mounted \in SUBSET Mounts
  BY <1>2, <1>3 DEF Ops
<1>6. CASE op' = [op EXCEPT ![p].todo = @ \ {m}, ![p].mounted = @ \cup {m}]
  <2>1. op' = [op EXCEPT ![p].todo = op[p].todo \ {m}, ![p].mounted = op[p].mounted \cup {m}]
    BY <1>3, <1>6 DEF Ops, Inv, TypeOK
  <2>2. PICK t, mounted : t = op[p].todo \ {m} /\ mounted = op[p].mounted \cup {m}
    OBVIOUS
  <2> QED
    BY <1>4, <1>5, <2>1, <2>2
<1>7. CASE op' = [op EXCEPT ![p].todo = @ \ {m}]
  <2>1. PICK o : o = [op[p] EXCEPT !.todo = @ \ {m}]
    OBVIOUS
  <2>2. PICK t : t = x.todo \ {m}
    OBVIOUS
  <2>3. o = [x EXCEPT !.todo = t] /\ t \in SUBSET Things
    BY <1>2, <1>5, <2>1, <2>2
  <2>4. /\ o \in Ops /\ o.kind = x.kind /\ o.at = x.at /\ o.bundle = x.bundle
        /\ o.version = x.version /\ o.index = x.index /\ o.read = x.read
        /\ o.overtaken = x.overtaken
    BY <1>3, <2>3, SetTodo
  <2>5. Good(o)
    BY <1>1, <1>2, <1>3, <2>4
    DEF Good, Bound, Asked, Provisioned, Current, Fits, Installing
  <2>6. Becomes(p, o)
    BY <1>7, <2>1 DEF Becomes
  <2> QED
    BY <1>1, <2>4, <2>5, <2>6, StaysKeepsInv
<1>8. CASE Becomes(p, Idle)
  BY <1>1, <1>8, BecomesIdle
<1> QED
  BY <1>6, <1>7, <1>8 DEF ResolveMount

(* A boot reads one more file, as it is in the table now.                   *)
LEMMA ReadKeepsInv ==
  ASSUME Inv, NEW p \in Procs, NEW q \in Paths, NEW b, b = queryBlob(p, q),
         op[p].kind = "boot", op[p].at \in {"resolve", "load", "running"},
         NEW at \in {"load", "running"},
         q = "manifest" => b # None /\ MountsFit(b, op[p].mounted),
         op[p].at = "resolve" => q = "manifest",
         op' = [op EXCEPT ![p].read[q] = b, ![p].at = at], UNCHANGED <<stores, history>>
  PROVE  Inv'
<1>1. PICK x : x = op[p]
  OBVIOUS
<1>2. x \in Ops /\ Good(x)
  BY <1>1, OpFacts
<1>3. op[p].version \in Versions
  BY <1>1, <1>2 DEF Good, Bound, Resolving, Resolvers
<1>4. b \in Bundles \cup {None} /\ (b # None => Trusted(b) /\ b = files[x.version][q])
  BY <1>1, <1>3, BlobIsTrusted
<1>5. x.index[q] = None => b = None
  BY <1>1 DEF queryBlob
<1>6. PICK n : n = [x EXCEPT !.read[q] = b]
  OBVIOUS
<1>7. /\ n \in Ops /\ n.read[q] = b /\ \A r \in Paths \ {q} : n.read[r] = x.read[r]
      /\ n.kind = x.kind /\ n.bundle = x.bundle /\ n.version = x.version
      /\ n.index = x.index /\ n.mounted = x.mounted /\ n.overtaken = x.overtaken
  BY <1>2, <1>4, <1>6, SetRead
<1>8. PICK o : o = [n EXCEPT !.at = at]
  OBVIOUS
<1>9. at \in Steps
  BY DEF Steps
<1>10. /\ o \in Ops /\ o.at = at /\ o.read = n.read /\ o.kind = x.kind /\ o.bundle = x.bundle
       /\ o.version = x.version /\ o.index = x.index /\ o.mounted = x.mounted
       /\ o.overtaken = x.overtaken
  BY <1>7, <1>8, <1>9, SetAt
<1>11. Bound(o) /\ Provisioned(o)
  BY <1>1, <1>3, <1>10 DEF Bound, Provisioned, Installing
<1>12. Asked(o)
  BY <1>1, <1>2, <1>4, <1>7, <1>10 DEF Good, Asked
<1>13. Current(o)
  BY <1>1, <1>2, <1>4, <1>5, <1>7, <1>10 DEF Good, Current
<1>14. Fits(o)
  <2>1. CASE q = "manifest"
    BY <1>1, <1>7, <1>10, <2>1 DEF Fits
  <2>2. CASE q # "manifest"
    BY <1>1, <1>2, <1>7, <1>10, <2>2 DEF Good, Fits
  <2> QED
    BY <2>1, <2>2
<1>15. Becomes(p, o)
  BY <1>1, <1>6, <1>8 DEF Becomes
<1> QED
  BY <1>10, <1>11, <1>12, <1>13, <1>14, <1>15, StaysKeepsInv DEF Good

LEMMA NewParticleKeepsInv == ASSUME Inv, NEW p \in Procs, NewParticle(p) PROVE Inv'
<1>1. PICK b : b = queryBlob(p, "manifest")
  OBVIOUS
<1>2. op[p].kind = "boot" /\ op[p].at = "resolve" /\ UNCHANGED <<stores, history>>
  BY DEF NewParticle, At
<1>3. CASE b # None /\ MountsFit(b, op[p].mounted)
  <2>1. op' = [op EXCEPT ![p].read["manifest"] = b, ![p].at = "load"]
    BY <1>1, <1>3 DEF NewParticle
  <2> QED
    BY <1>1, <1>2, <1>3, <2>1, ReadKeepsInv
<1>4. CASE ~(b # None /\ MountsFit(b, op[p].mounted))
  <2>1. Becomes(p, Idle)
    BY <1>1, <1>4 DEF NewParticle, Becomes
  <2> QED
    BY <1>2, <2>1, BecomesIdle
<1> QED
  BY <1>3, <1>4

LEMMA ReadFileKeepsInv ==
  ASSUME Inv, NEW p \in Procs, NEW q \in Paths, ReadFile(p, q)
  PROVE  Inv'
<1>1. PICK b : b = queryBlob(p, q)
  OBVIOUS
<1>2. op[p].kind = "boot" /\ op[p].at \in {"load", "running"} /\ q # "manifest"
      /\ UNCHANGED <<stores, history>>
  BY DEF ReadFile, At
<1>3. CASE b = None /\ op[p].at = "load"
  <2>1. Becomes(p, Idle)
    BY <1>1, <1>3 DEF ReadFile, Becomes
  <2> QED
    BY <1>2, <2>1, BecomesIdle
<1>4. CASE ~(b = None /\ op[p].at = "load")
  <2>1. op' = [op EXCEPT ![p].read[q] = b, ![p].at = "running"]
    BY <1>1, <1>4 DEF ReadFile
  <2> QED
    BY <1>1, <1>2, <2>1, ReadKeepsInv
<1> QED
  BY <1>3, <1>4

----------------------------------------------------------------------------
(* The registry's writes: one version is replaced, and whoever has resolved *)
(* it is overtaken.                                                         *)
Replaces(p, v, fs, o) ==
  /\ op' = Overtakes(p, v, o)
  /\ files' = [files EXCEPT ![v] = fs]
  /\ UNCHANGED <<configured, mapped>>

LEMMA SetOvertaken ==
  ASSUME NEW o \in Ops
  PROVE  LET n == [o EXCEPT !.overtaken = TRUE] IN
         /\ n \in Ops /\ n.overtaken
         /\ n.kind = o.kind /\ n.at = o.at /\ n.bundle = o.bundle /\ n.version = o.version
         /\ n.index = o.index /\ n.read = o.read /\ n.todo = o.todo /\ n.mounted = o.mounted
<1>1. [o EXCEPT !.overtaken = TRUE] \in Ops
  BY Zenon DEF Ops
<1> QED
  BY <1>1 DEF Ops

LEMMA ReplaceKeepsInv ==
  ASSUME Inv, NEW p \in Procs, NEW v \in Versions, NEW fs \in Files, NEW o \in Ops,
         Good(o), o.kind # "boot", Replaces(p, v, fs, o),
         row' \subseteq Versions, accepted \subseteq accepted',
         imported' \in {imported \cup {v}, imported \ {v}},
         fs = NoFiles \/ \E b \in Bundles : fs = FilesOf(b),
         \A q \in Paths, b \in Bundles : fs[q] = b => Trusted(b)',
         v \in imported' => \A q \in Paths :
                              fs[q] # None => Manifest[fs[q]].required \subseteq configured
  PROVE  Inv'
<1>1. files' \in [Versions -> Files] /\ files'[v] = fs
      /\ \A w \in Versions \ {v} : files'[w] = files[w]
  BY DEF Replaces, Inv, TypeOK
<1>2. /\ op' = [r \in Procs |-> op'[r]] /\ op'[p] = o
      /\ \A r \in Procs \ {p} :
           op'[r] = IF /\ op[r].kind = "boot" /\ op[r].version = v
                       /\ op[r].at \in {"manifest", "resolve", "load", "running"}
                      THEN [op[r] EXCEPT !.overtaken = TRUE] ELSE op[r]
  BY DEF Replaces, Overtakes
<1>3. ASSUME NEW r \in Procs \ {p}
      PROVE  op'[r] \in Ops /\ Good(op[r])'
  <2>1. PICK x, n : x = op[r] /\ n = op'[r]
    OBVIOUS
  <2>2. x \in Ops /\ Good(x)
    BY <2>1, OpFacts
  <2> DEFINE hit == /\ x.kind = "boot" /\ x.version = v
                    /\ x.at \in {"manifest", "resolve", "load", "running"}
  <2>3. n = IF hit THEN [x EXCEPT !.overtaken = TRUE] ELSE x
    BY <1>2, <2>1
  <2>4. /\ n \in Ops
        /\ n.kind = x.kind /\ n.at = x.at /\ n.bundle = x.bundle /\ n.version = x.version
        /\ n.index = x.index /\ n.read = x.read /\ n.todo = x.todo /\ n.mounted = x.mounted
        /\ ~n.overtaken => ~x.overtaken /\ ~hit
    <3>1. CASE hit
      BY <2>2, <2>3, <3>1, SetOvertaken
    <3>2. CASE ~hit
      BY <2>2, <2>3, <3>2
    <3> QED
      BY <3>1, <3>2
  <2>5. Bound(n)' /\ Provisioned(n)' /\ Fits(n)'
    BY <2>2, <2>4 DEF Good, Bound, Provisioned, Fits, Replaces
  <2>6. Asked(n)'
    BY <2>2, <2>4 DEF Good, Asked, Trusted
  <2>7. Current(n)'
    <3>1. CASE /\ n.kind = "boot" /\ ~n.overtaken
               /\ n.at \in {"manifest", "resolve", "load", "running"}
      <4>1. x.version \in Versions /\ x.version # v
        BY <2>2, <2>4, <3>1 DEF Good, Bound, Resolving, Resolvers
      <4>2. files'[n.version] = files[x.version]
        BY <1>1, <2>4, <4>1
      <4> QED
        BY <2>2, <2>4, <3>1, <4>2 DEF Good, Current
    <3>2. CASE ~(/\ n.kind = "boot" /\ ~n.overtaken
                 /\ n.at \in {"manifest", "resolve", "load", "running"})
      BY <2>2, <2>4, <3>2 DEF Good, Current
    <3> QED
      BY <3>1, <3>2
  <2> QED
    BY <2>1, <2>4, <2>5, <2>6, <2>7
    DEF Good, Bound, Asked, Provisioned, Current, Fits, Trusted
<1>4. TypeOK'
  <2>1. op' \in [Procs -> Ops]
    BY <1>2, <1>3
  <2> QED
    BY <1>1, <2>1 DEF Inv, TypeOK, Replaces
<1>5. (\A r \in Procs : Good(op[r]))'
  <2>1. Good(o)'
    BY DEF Good, Bound, Asked, Provisioned, Current, Fits, Trusted, Replaces
  <2>2. Good(op[p])'
    BY <1>2, <2>1 DEF Good, Bound, Asked, Provisioned, Current, Fits, Trusted
  <2> QED
    BY <1>3, <2>2
<1>6. RegistryIsWhole'
  BY <1>1 DEF Inv, RegistryIsWhole
<1>7. NothingUnapproved'
  <2>1. \A b : Trusted(b) => Trusted(b)'
    BY DEF Trusted
  <2>2. ASSUME NEW w \in Versions, NEW q \in Paths, NEW b, b = files'[w][q], b # None
        PROVE  Trusted(b)'
    <3>1. CASE w = v
      BY <1>1, <2>2, <3>1 DEF Files
    <3>2. CASE w # v
      BY <1>1, <2>1, <2>2, <3>2 DEF Inv, NothingUnapproved
    <3> QED
      BY <3>1, <3>2
  <2> QED
    BY <2>2 DEF NothingUnapproved, Trusted
<1>8. ImportedIsProvisioned'
  <2> SUFFICES ASSUME NEW w \in imported', NEW q \in Paths, files'[w][q] # None
               PROVE  Manifest[files'[w][q]].required \subseteq configured'
    BY DEF ImportedIsProvisioned
  <2>1. CASE w = v
    BY <1>1, <2>1 DEF Replaces
  <2>2. CASE w # v
    BY <1>1, <2>2 DEF Inv, TypeOK, ImportedIsProvisioned, Replaces
  <2> QED
    BY <2>1, <2>2
<1> QED
  BY <1>4, <1>5, <1>6, <1>7, <1>8 DEF Inv

LEMMA RegistryPutKeepsInv == ASSUME Inv, NEW p \in Procs, RegistryPut(p) PROVE Inv'
<1>1. op[p].kind \in Installing /\ op[p].at = "mounts"
  BY DEF RegistryPut, At
<1>2. PICK b, v : b = op[p].bundle /\ v = Manifest[b].version
  OBVIOUS
<1>3. b \in Bundles
  BY <1>1, <1>2, ImportHasBundle DEF At
<1>4. v \in Versions
  BY <1>2, <1>3
<1>5. PICK fs : fs = [q \in Paths |-> IF q \in Manifest[b].paths THEN b ELSE Cleared(v)[q]]
  OBVIOUS
<1>6. fs = FilesOf(b) /\ fs \in Files /\ \A q \in Paths : fs[q] \in {b, None}
  BY <1>3, <1>5, NoFilesFacts DEF FilesOf, Cleared, Files
<1>7. Replaces(p, v, fs, Idle)
  BY <1>2, <1>5 DEF RegistryPut, Replaces
<1>8. row' \subseteq Versions /\ accepted \subseteq accepted'
      /\ imported' \in {imported \cup {v}, imported \ {v}}
  BY <1>2, <1>4 DEF RegistryPut, Inv, TypeOK
<1>9. Trusted(b)'
  <2>1. CASE op[p].kind = "import"
    <3>1. Trusted(b)
      BY <1>1, <1>2, <2>1, OpFacts DEF Good, Asked
    <3> QED
      BY <1>8, <3>1 DEF Trusted
  <2>2. CASE op[p].kind # "import"
    BY <1>2, <2>2 DEF RegistryPut, Trusted
  <2> QED
    BY <2>1, <2>2
<1>10. v \in imported' => Manifest[b].required \subseteq configured
  <2>1. v \in imported' => op[p].kind = "import"
    BY <1>2 DEF RegistryPut
  <2> QED
    BY <1>1, <1>2, <2>1, OpFacts DEF Good, Provisioned
<1>11. \A q \in Paths, c \in Bundles : fs[q] = c => Trusted(c)'
  BY <1>6, <1>9 DEF Trusted
<1>12. v \in imported' => \A q \in Paths :
          fs[q] # None => Manifest[fs[q]].required \subseteq configured
  BY <1>6, <1>10
<1>13. Idle.kind # "boot"
  BY IdleFacts
<1> QED
  BY <1>3, <1>4, <1>6, <1>7, <1>8, <1>11, <1>12, <1>13, IdleIsGood, ReplaceKeepsInv

LEMMA DeleteKeepsInv ==
  ASSUME Inv, NEW p \in Procs, NEW v \in Versions, Delete(p, v)
  PROVE  Inv'
<1>1. op[p].kind = "delete" /\ op[p].at = "delete"
  BY DEF Delete, At
<1>2. PICK x : x = op[p]
  OBVIOUS
<1>3. x \in Ops /\ Good(x)
  BY <1>2, OpFacts
<1>4. PICK o : o = IF x.todo = {v} THEN Idle ELSE [x EXCEPT !.todo = @ \ {v}]
  OBVIOUS
<1>5. o \in Ops /\ Good(o) /\ o.kind # "boot"
  <2>1. CASE x.todo = {v}
    BY <1>4, <2>1, IdleIsGood, IdleFacts
  <2>2. CASE x.todo # {v}
    <3>1. PICK t : t = x.todo \ {v}
      OBVIOUS
    <3>2. t \in SUBSET Things
      BY <1>3, <3>1 DEF Ops
    <3>3. o = [x EXCEPT !.todo = t]
      BY <1>4, <2>2, <3>1
    <3>4. /\ o \in Ops /\ o.kind = x.kind /\ o.at = x.at /\ o.bundle = x.bundle
          /\ o.version = x.version /\ o.index = x.index /\ o.read = x.read
      BY <1>3, <3>2, <3>3, SetTodo
    <3> QED
      BY <1>1, <1>2, <1>3, <3>4
      DEF Good, Bound, Asked, Provisioned, Current, Fits, Installing
  <2> QED
    BY <2>1, <2>2
<1>6. Replaces(p, v, NoFiles, o)
  BY <1>2, <1>4 DEF Delete, Removed, Replaces
<1>7. row' \subseteq Versions /\ accepted \subseteq accepted' /\ imported' = imported \ {v}
  BY DEF Delete, Inv, TypeOK
<1>8. \A q \in Paths, b \in Bundles : NoFiles[q] = b => Trusted(b)'
  BY NoFilesFacts
<1> QED
  BY <1>5, <1>6, <1>7, <1>8, NoFilesFacts, ReplaceKeepsInv

----------------------------------------------------------------------------
LEMMA NextKeepsInv == Inv /\ [Next]_vars => Inv'
<1> SUFFICES ASSUME Inv, [Next]_vars PROVE Inv'
  OBVIOUS
<1>1. CASE Next
  <2>1. PICK p \in Procs :
          \/ \E b \in Bundles : StartImport(p, b) \/ StartBuild(p, b)
          \/ \E k \in Resolvers \cup {"reconfigure"} : StartLatest(p, k)
          \/ \E k \in Resolvers, v \in Versions : StartVersion(p, k, v)
          \/ \E vs \in SUBSET Versions : StartDelete(p, vs)
          \/ Latest(p) \/ Get(p) \/ Snapshot(p) \/ ReadManifest(p)
          \/ Silent(p) \/ Accept(p)
          \/ \E c \in Credentials : SetUp(p, c) \/ Reconfigure(p, c)
          \/ CredentialsDone(p)
          \/ \E m \in Mounts : SetUpMount(p, m) \/ Mount(p, m) \/ Unmount(p, m)
                                 \/ ResolveMount(p, m)
          \/ RegistryPut(p)
          \/ \E v \in Versions : Delete(p, v)
          \/ NewParticle(p)
          \/ \E q \in Paths : ReadFile(p, q)
          \/ Abandon(p)
    BY <1>1, Zenon DEF Next
  <2>2. CASE \E b \in Bundles : StartImport(p, b) \/ StartBuild(p, b)
    BY <2>2, StartImportKeepsInv, StartBuildKeepsInv
  <2>3. CASE \E k \in Resolvers \cup {"reconfigure"} : StartLatest(p, k)
    BY <2>3, StartLatestKeepsInv
  <2>4. CASE \E k \in Resolvers, v \in Versions : StartVersion(p, k, v)
    BY <2>4, StartVersionKeepsInv
  <2>5. CASE \E vs \in SUBSET Versions : StartDelete(p, vs)
    BY <2>5, StartDeleteKeepsInv
  <2>6. CASE Latest(p) \/ Get(p) \/ Snapshot(p) \/ ReadManifest(p)
    BY <2>6, LatestKeepsInv, GetKeepsInv, SnapshotKeepsInv, ReadManifestKeepsInv
  <2>7. CASE Silent(p) \/ Accept(p)
    BY <2>7, SilentKeepsInv, AcceptKeepsInv
  <2>8. CASE \E c \in Credentials : SetUp(p, c) \/ Reconfigure(p, c)
    BY <2>8, SetUpKeepsInv, ReconfigureKeepsInv
  <2>9. CASE CredentialsDone(p)
    BY <2>9, CredentialsDoneKeepsInv
  <2>10. CASE \E m \in Mounts : SetUpMount(p, m) \/ Mount(p, m) \/ Unmount(p, m)
                                  \/ ResolveMount(p, m)
    BY <2>10, SetUpMountKeepsInv, MountKeepsInv, UnmountKeepsInv, ResolveMountKeepsInv
  <2>11. CASE RegistryPut(p)
    BY <2>11, RegistryPutKeepsInv
  <2>12. CASE \E v \in Versions : Delete(p, v)
    BY <2>12, DeleteKeepsInv
  <2>13. CASE NewParticle(p)
    BY <2>13, NewParticleKeepsInv
  <2>14. CASE \E q \in Paths : ReadFile(p, q)
    BY <2>14, ReadFileKeepsInv
  <2>15. CASE Abandon(p)
    BY <2>15, AbandonKeepsInv
  <2> QED
    BY <2>1, <2>2, <2>3, <2>4, <2>5, <2>6, <2>7, <2>8, <2>9, <2>10, <2>11, <2>12,
       <2>13, <2>14, <2>15, Zenon
<1>2. CASE UNCHANGED vars
  <2>1. \A p \in Procs : Good(op[p])
    BY DEF Inv
  <2>2. /\ op' = op /\ row' = row /\ files' = files /\ configured' = configured
        /\ mapped' = mapped /\ accepted' = accepted /\ imported' = imported
    BY <1>2 DEF vars
  <2>3. (\A p \in Procs : Good(op[p]))'
    BY <2>1, <2>2 DEF Good, Bound, Asked, Provisioned, Current, Fits, Trusted
  <2> QED
    BY <2>2, <2>3
    DEF Inv, TypeOK, RegistryIsWhole, NothingUnapproved, ImportedIsProvisioned, Trusted
<1> QED
  BY <1>1, <1>2

LEMMA Invariance == Spec => []Inv
BY InitInv, NextKeepsInv, PTL DEF Spec

(* A silent reinstall never installs permissions nobody was asked about,    *)
(* whatever other commands do to the registry while it compares them.       *)
THEOREM NothingIsInstalledUnasked == Spec => []NothingUnapproved
<1>1. Inv => NothingUnapproved
  BY DEF Inv
<1> QED
  BY <1>1, Invariance, PTL

(* A version Import registered has its required credentials.                *)
THEOREM ImportProvisions == Spec => []ImportedIsProvisioned
<1>1. Inv => ImportedIsProvisioned
  BY DEF Inv
<1> QED
  BY <1>1, Invariance, PTL

(* A particle that no Put or Delete overtook runs on the files of one Put.  *)
THEOREM OnePutPerParticle == Spec => []RunsOnOnePut
<1>1. Inv => RunsOnOnePut
  <2> SUFFICES ASSUME Inv, NEW p \in Procs, At(p, {"boot"}, "running"), ~op[p].overtaken
               PROVE  /\ \E b \in Bundles : \A q \in Paths :
                            op[p].index[q] = IF q \in Manifest[b].paths THEN b ELSE None
                      /\ \A q \in Paths : op[p].read[q] \in {None, op[p].index[q]}
    BY DEF RunsOnOnePut
  <2>1. /\ op[p].version \in Versions /\ op[p].index = files[op[p].version]
        /\ \A q \in Paths : op[p].read[q] \in {None, op[p].index[q]}
        /\ op[p].index["manifest"] # None
    BY OpFacts DEF At, Good, Bound, Current, Resolving, Resolvers
  <2>2. PICK b \in Bundles : op[p].index = FilesOf(b)
    BY <2>1, NoFilesFacts DEF Inv, RegistryIsWhole
  <2> QED
    BY <2>1, <2>2 DEF FilesOf
<1> QED
  BY <1>1, Invariance, PTL

(* The mounts of a particle fit the manifest it runs under.                 *)
THEOREM MountsAreRight == Spec => []RunsWithItsMounts
<1>1. Inv => RunsWithItsMounts
  BY OpFacts DEF RunsWithItsMounts, At, Good, Fits, MountsFit
<1> QED
  BY <1>1, Invariance, PTL
=============================================================================
