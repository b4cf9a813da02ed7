------------------------------ MODULE Install ------------------------------
(***************************************************************************)
(* Commands of several processes over one state database, for one          *)
(* particle name: import, the build_particle tool of builder-mcp, delete,  *)
(* mount, unmount, reconfigure, and a boot that runs the particle.  Three  *)
(* stores share the database without a common transaction: the registry    *)
(* (registry/sqlite), the credentials and the mount mappings.  Every       *)
(* statement or transaction is one action; a prompt answered "no", an      *)
(* error (Put refuses a version that is not semver) or a crash between two *)
(* of them is Abandon.                                                     *)
(*                                                                         *)
(* A bundle is a built particle; its files are known by the bundle they    *)
(* come from, and its manifest is the record Manifest[b].  Credentials and *)
(* mounts are taken in any order, where the code goes by name.             *)
(***************************************************************************)
EXTENDS FiniteSets, Naturals

CONSTANTS Procs,      \* the commands that may run at once
          Versions,   \* the version numbers, in semver order
          Bundles,    \* the built particles of this name
          Manifest,   \* what a bundle declares
          Paths,      \* the files: "manifest" and others
          Credentials,
          Mounts,
          None

ASSUME BundlesAreBuilt ==
  /\ Versions \subseteq Nat
  /\ None \notin Bundles /\ None \notin Versions
  /\ "manifest" \in Paths
  /\ \A b \in Bundles :
       /\ Manifest[b].version \in Versions
       /\ "manifest" \in Manifest[b].paths /\ Manifest[b].paths \subseteq Paths
       /\ Manifest[b].creds \subseteq Credentials
       /\ Manifest[b].required \subseteq Manifest[b].creds
       /\ Manifest[b].mounts \subseteq Mounts
       /\ Manifest[b].needed \subseteq Manifest[b].mounts

VARIABLES row,         \* particle_registry: the versions registered
          files,       \* particle_registry_files, by version and path
          configured,  \* the credentials with an entry in the store
          mapped,      \* the mounts with a row in particle_mounts
          op,          \* what each command is in the middle of
          accepted,    \* history: the permissions users said yes to, with
                       \* --yes to all, or by asking build_particle for them
          imported     \* history: the versions whose last Put was Import's

vars == <<row, files, configured, mapped, op, accepted, imported>>

NoFiles == [q \in Paths |-> None]

Idle == [kind |-> "idle", at |-> "start", bundle |-> None, version |-> None,
         index |-> NoFiles, read |-> NoFiles, todo |-> {}, mounted |-> {},
         overtaken |-> FALSE]

Init ==
  /\ row = {}
  /\ files = [v \in Versions |-> NoFiles]
  /\ configured = {} /\ mapped = {}
  /\ op = [p \in Procs |-> Idle]
  /\ accepted = {} /\ imported = {}

stores == <<row, files, configured, mapped>>
history == <<accepted, imported>>

At(p, kinds, step) == op[p].kind \in kinds /\ op[p].at = step

Becomes(p, o) == op' = [op EXCEPT ![p] = o]

\* An installation goes on with its bundle; what it resolved is no longer needed.
GoesWith(p, step, todo) ==
  Becomes(p, [Idle EXCEPT !.kind = op[p].kind, !.bundle = op[p].bundle,
                          !.at = step, !.todo = todo])

Start(p, o) ==
  /\ op[p] = Idle
  /\ Becomes(p, o)
  /\ UNCHANGED <<stores, history>>

\* An error return, a prompt that is declined, a cancelled or killed process.
Abandon(p) ==
  /\ op[p] # Idle
  /\ Becomes(p, Idle)
  /\ UNCHANGED <<stores, history>>

StartImport(p, b) ==
  Start(p, [Idle EXCEPT !.kind = "import", !.at = "latest", !.bundle = b])

StartBuild(p, b) ==
  Start(p, [Idle EXCEPT !.kind = "build", !.at = "creds", !.bundle = b,
                        !.todo = Manifest[b].creds])

\* The commands that resolve "<name>", or "<name>@<version>".
Resolvers == {"boot", "mount", "unmount"}

StartLatest(p, kind) == Start(p, [Idle EXCEPT !.kind = kind, !.at = "latest"])

StartVersion(p, kind, v) ==
  Start(p, [Idle EXCEPT !.kind = kind, !.at = "get", !.version = v])

(***************************************************************************)
(* Resolution: List, then Get's two queries, then the manifest's bytes.    *)
(* Import looks up the permissions of the newest version this way, and an  *)
(* error there only means that it has none to compare with.                *)
(***************************************************************************)
Resolving == Resolvers \cup {"import", "reconfigure"}

\* Import goes on to the permissions, with those to compare with or None.
Confirm(p, prior) ==
  Becomes(p, [Idle EXCEPT !.kind = "import", !.at = "confirm", !.bundle = op[p].bundle,
                          !.read["manifest"] = prior])

Latest(p) ==
  /\ At(p, Resolving, "latest")
  /\ \/ \E v \in row : /\ \A w \in row : w <= v
                       /\ op' = [op EXCEPT ![p].at = "get", ![p].version = v]
     \/ /\ row = {} /\ op[p].kind = "import"
        /\ Confirm(p, None)
     \/ /\ row = {} /\ op[p].kind # "import"
        /\ Becomes(p, Idle)
  /\ UNCHANGED <<stores, history>>

Get(p) ==
  /\ At(p, Resolving, "get")
  /\ \/ /\ op[p].version \in row
        /\ op' = [op EXCEPT ![p].at = "index"]
     \/ /\ op[p].version \notin row /\ op[p].kind = "import"
        /\ Confirm(p, None)
     \/ /\ op[p].version \notin row /\ op[p].kind # "import"
        /\ Becomes(p, Idle)
  /\ UNCHANGED <<stores, history>>

Snapshot(p) ==
  /\ At(p, Resolving, "index")
  /\ \/ /\ op[p].kind = "unmount"
        /\ Becomes(p, [Idle EXCEPT !.kind = "unmount", !.at = "map"])
     \/ /\ op[p].kind # "unmount"
        /\ op' = [op EXCEPT ![p].index = files[op[p].version],
                            ![p].at = "manifest"]
  /\ UNCHANGED <<stores, history>>

\* Mutant: the query goes by the path alone.
queryPath(p, q) ==
  IF op[p].index[q] = None THEN None
  ELSE LET held == {v \in Versions : files[v][q] # None}
       IN IF held = {} THEN None ELSE files[CHOOSE v \in held : TRUE][q]

\* dbFS.ReadFile: the index says whether the file exists, the bytes are
\* fetched from the table as it is now.
queryBlob(p, q) ==
  IF op[p].index[q] = None THEN None ELSE files[op[p].version][q]

\* What follows once the manifest is read.
ReadManifest(p) ==
  /\ At(p, Resolving, "manifest")
  /\ LET b == queryBlob(p, "manifest") IN
     \/ /\ op[p].kind = "import"
        /\ Confirm(p, b)
     \/ /\ op[p].kind # "import" /\ b = None
        /\ Becomes(p, Idle)
     \/ /\ op[p].kind = "boot" /\ b # None
        /\ op' = [op EXCEPT ![p].read["manifest"] = b, ![p].at = "resolve",
                            ![p].todo = Manifest[b].mounts]
     \/ /\ op[p].kind = "mount" /\ b # None
        /\ Becomes(p, [Idle EXCEPT !.kind = "mount", !.at = "map", !.todo = Manifest[b].mounts])
     \/ /\ op[p].kind = "reconfigure" /\ b # None
        /\ Becomes(p, [Idle EXCEPT !.kind = "reconfigure", !.at = "reconfigure",
                                   !.todo = Manifest[b].creds])
  /\ UNCHANGED <<stores, history>>

(***************************************************************************)
(* Permissions.  What the user is asked about is the bundle's              *)
(* capabilities, but for kv, and its credentials.                          *)
(***************************************************************************)
Approval(b) ==
  [caps |-> Manifest[b].caps \ {"kv"}, mounts |-> Manifest[b].mounts,
   needed |-> Manifest[b].needed,
   creds |-> Manifest[b].creds, required |-> Manifest[b].required]

NothingToAsk(b) == Manifest[b].caps \subseteq {"kv"} /\ Manifest[b].mounts = {} /\ Manifest[b].creds = {}

\* Mutant: a change of the credentials alone does not count.
SameCapabilities(b, prior) ==
  prior # None /\ [Approval(b) EXCEPT !.creds = {}, !.required = {}]
                  = [Approval(prior) EXCEPT !.creds = {}, !.required = {}]

SamePermissions(b, prior) == prior # None /\ Approval(b) = Approval(prior)

\* PermissionAuto: nothing declared, or what the newest version declares.
Silent(p) ==
  /\ At(p, {"import"}, "confirm")
  /\ NothingToAsk(op[p].bundle) \/ SamePermissions(op[p].bundle, op[p].read["manifest"])
  /\ GoesWith(p, "creds", Manifest[op[p].bundle].creds)
  /\ UNCHANGED <<stores, history>>

\* The prompt, answered with yes, or PermissionSkip; with nothing to ask about
\* they do no more than Silent.
Accept(p) ==
  /\ At(p, {"import"}, "confirm")
  /\ ~NothingToAsk(op[p].bundle)
  /\ accepted' = accepted \cup {Approval(op[p].bundle)}
  /\ GoesWith(p, "creds", Manifest[op[p].bundle].creds)
  /\ UNCHANGED <<stores, imported>>

(***************************************************************************)
(* Credentials and mounts, one by one, then the registry.  Looking whether *)
(* a credential is configured and storing it are two statements with a     *)
(* prompt between; entries are never taken away by a command, so nothing   *)
(* is lost by making them one step.                                        *)
(***************************************************************************)
Installing == {"import", "build"}

\* Mutant: a credential that is declined is skipped.
ImportLeavesAny(b, c) == TRUE

\* setupOneCredential leaves an optional credential alone and returns without
\* error only when a required one is stored.
ImportLeaves(b, c) == c \in configured \/ c \notin Manifest[b].required

SetUp(p, c) ==
  /\ At(p, Installing, "creds")
  /\ c \in op[p].todo
  /\ \/ configured' = configured \cup {c}
     \/ /\ op[p].kind = "build" \/ ImportLeaves(op[p].bundle, c)
        /\ UNCHANGED configured
  /\ op' = [op EXCEPT ![p].todo = @ \ {c}]
  /\ UNCHANGED <<row, files, mapped, history>>

CredentialsDone(p) ==
  /\ At(p, Installing, "creds") /\ op[p].todo = {}
  /\ GoesWith(p, "mounts", Manifest[op[p].bundle].mounts)
  /\ UNCHANGED <<stores, history>>

\* Import asks for a directory unless one is mapped; build_particle takes
\* those it was given.  Either may leave a mount unmapped, a needed one too.
SetUpMount(p, m) ==
  /\ At(p, Installing, "mounts")
  /\ m \in op[p].todo
  /\ mapped' \in {mapped, mapped \cup {m}}
  /\ op' = [op EXCEPT ![p].todo = @ \ {m}]
  /\ UNCHANGED <<row, files, configured, history>>

\* The rows of the version that are left when Put inserts the new ones.
Cleared(v) == NoFiles

\* A boot that has taken the index of this version is overtaken.
Overtakes(p, v, o) ==
  [r \in Procs |->
     IF r = p THEN o
     ELSE IF /\ op[r].kind = "boot" /\ op[r].version = v
             /\ op[r].at \in {"manifest", "resolve", "load", "running"}
       THEN [op[r] EXCEPT !.overtaken = TRUE]
     ELSE op[r]]

RegistryPut(p) ==
  LET b == op[p].bundle
      v == Manifest[b].version
  IN /\ At(p, Installing, "mounts") /\ op[p].todo = {}
     /\ row' = row \cup {v}
     /\ files' = [files EXCEPT ![v] =
          [q \in Paths |-> IF q \in Manifest[b].paths THEN b ELSE Cleared(v)[q]]]
     /\ imported' = IF op[p].kind = "import" THEN imported \cup {v} ELSE imported \ {v}
     /\ accepted' = IF op[p].kind = "import" \/ NothingToAsk(b) THEN accepted
                    ELSE accepted \cup {Approval(b)}
     /\ op' = Overtakes(p, v, Idle)
     /\ UNCHANGED <<configured, mapped>>

(***************************************************************************)
(* The other commands that write.                                          *)
(***************************************************************************)
Reconfigure(p, c) ==
  /\ At(p, {"reconfigure"}, "reconfigure")
  /\ c \in op[p].todo
  /\ configured' = configured \cup {c}
  /\ Becomes(p, Idle)
  /\ UNCHANGED <<row, files, mapped, history>>

Mount(p, m) ==
  /\ At(p, {"mount"}, "map")
  /\ m \in op[p].todo
  /\ mapped' = mapped \cup {m}
  /\ Becomes(p, Idle)
  /\ UNCHANGED <<row, files, configured, history>>

Unmount(p, m) ==
  /\ At(p, {"unmount"}, "map")
  /\ mapped' = mapped \ {m}
  /\ Becomes(p, Idle)
  /\ UNCHANGED <<row, files, configured, history>>

\* delete <name> lists the versions, delete <name>@<v> asks for that one.
StartDelete(p, vs) ==
  /\ vs # {} /\ vs \subseteq row
  /\ vs = row \/ Cardinality(vs) = 1
  /\ Start(p, [Idle EXCEPT !.kind = "delete", !.at = "delete", !.todo = vs])

\* The rows of files that a Delete leaves.
Removed(v) == NoFiles

Delete(p, v) ==
  /\ At(p, {"delete"}, "delete")
  /\ v \in op[p].todo
  /\ row' = row \ {v}
  /\ files' = [files EXCEPT ![v] = Removed(v)]
  /\ imported' = imported \ {v}
  /\ op' = Overtakes(p, v, IF op[p].todo = {v} THEN Idle
                           ELSE [op[p] EXCEPT !.todo = @ \ {v}])
  /\ UNCHANGED <<configured, mapped, accepted>>

(***************************************************************************)
(* Boot: the mounts are resolved by the manifest as read above; NewParticle*)
(* reads the manifest again, checks the mounts it was given against it,    *)
(* and loads the program; the guest reads the other files as it goes.      *)
(***************************************************************************)
\* resolveMounts, one mount: from --mount, or the row, or not at all.
ResolveMount(p, m) ==
  /\ At(p, {"boot"}, "resolve")
  /\ m \in op[p].todo
  /\ \/ op' = [op EXCEPT ![p].todo = @ \ {m}, ![p].mounted = @ \cup {m}]
     \/ /\ m \notin mapped /\ m \notin Manifest[op[p].read["manifest"]].needed
        /\ op' = [op EXCEPT ![p].todo = @ \ {m}]
     \/ /\ m \notin mapped /\ m \in Manifest[op[p].read["manifest"]].needed
        /\ Becomes(p, Idle)
  /\ UNCHANGED <<stores, history>>

\* Mutant: what resolveMounts found missing is not looked for again.
MountsDeclared(b, mounted) == mounted \subseteq Manifest[b].mounts

\* buildMountPreopens' checks.
MountsFit(b, mounted) ==
  mounted \subseteq Manifest[b].mounts /\ Manifest[b].needed \subseteq mounted

NewParticle(p) ==
  /\ At(p, {"boot"}, "resolve") /\ op[p].todo = {}
  /\ LET b == queryBlob(p, "manifest") IN
     op' = IF b # None /\ MountsFit(b, op[p].mounted)
           THEN [op EXCEPT ![p].read["manifest"] = b, ![p].at = "load"]
           ELSE [op EXCEPT ![p] = Idle]
  /\ UNCHANGED <<stores, history>>

\* The program, then whatever the guest opens while it runs.
ReadFile(p, q) ==
  /\ \/ At(p, {"boot"}, "load") /\ q = "program"
     \/ At(p, {"boot"}, "running") /\ q # "manifest"
  /\ LET b == queryBlob(p, q) IN
     op' = IF b = None /\ op[p].at = "load" THEN [op EXCEPT ![p] = Idle]
           ELSE [op EXCEPT ![p].read[q] = b, ![p].at = "running"]
  /\ UNCHANGED <<stores, history>>

Next ==
  \E p \in Procs :
     \/ \E b \in Bundles : StartImport(p, b) \/ StartBuild(p, b)
     \/ \E k \in Resolvers \cup {"reconfigure"} : StartLatest(p, k)
     \/ \E k \in Resolvers, v \in Versions : StartVersion(p, k, v)
     \/ \E vs \in SUBSET Versions : StartDelete(p, vs)
     \/ Latest(p) \/ Get(p) \/ Snapshot(p) \/ ReadManifest(p)
     \/ Silent(p) \/ Accept(p)
     \/ \E c \in Credentials : SetUp(p, c) \/ Reconfigure(p, c)
     \/ CredentialsDone(p)
     \/ \E m \in Mounts : SetUpMount(p, m) \/ Mount(p, m) \/ Unmount(p, m)
                            \/ ResolveMount(p, m)
     \/ RegistryPut(p)
     \/ \E v \in Versions : Delete(p, v)
     \/ NewParticle(p)
     \/ \E q \in Paths : ReadFile(p, q)
     \/ Abandon(p)

Spec == Init /\ [][Next]_vars

(***************************************************************************)
(* Properties                                                              *)
(***************************************************************************)

\* A bundle whose permissions somebody may be held to have accepted.
Trusted(b) == NothingToAsk(b) \/ Approval(b) \in accepted

\* No version is registered whose permissions nobody was asked about: either
\* it declares none, or a user said yes to the same ones, or they came with
\* --yes or from build_particle, which do not ask.  The silent reinstall
\* compares with a version that other processes may put, put again or delete
\* between the List, the Get and the read of its manifest.
NothingUnapproved ==
  \A v \in Versions, q \in Paths : files[v][q] # None => Trusted(files[v][q])

\* importer.Import registers a version only after its required credentials are
\* configured, one transaction each; and whatever other commands do to the
\* registry or the mounts, they stay configured while the version is there.
\* (build_particle registers a version without them, on purpose.)
ImportedIsProvisioned ==
  \A v \in imported, q \in Paths :
     files[v][q] # None => Manifest[files[v][q]].required \subseteq configured

\* A particle runs on the files of one Put, all of them, unless its version
\* was put again or deleted under it.  The manifest is read twice and the files
\* one by one, from a table that other processes write.
RunsOnOnePut ==
  \A p \in Procs :
     At(p, {"boot"}, "running") /\ ~op[p].overtaken =>
        /\ \E b \in Bundles : \A q \in Paths :
              op[p].index[q] = IF q \in Manifest[b].paths THEN b ELSE None
        /\ \A q \in Paths : op[p].read[q] \in {None, op[p].index[q]}

\* A particle that runs has every mount its manifest needs and none it does not
\* declare, by the manifest it runs under: also when the version was put again
\* after resolveMounts had read another manifest, or a mapping was removed.
RunsWithItsMounts ==
  \A p \in Procs :
     At(p, {"boot"}, "running") =>
        LET b == op[p].read["manifest"]
        IN b # None => /\ op[p].mounted \subseteq Manifest[b].mounts
                       /\ Manifest[b].needed \subseteq op[p].mounted
=============================================================================
