----------------------------- MODULE MCInstall -----------------------------
(* Values for TLC: two builds of version 1, one that asks for nothing and one *)
(* that needs what a particle can need, and a version 2 whose capabilities   *)
(* are the same but for the credential.                                      *)
EXTENDS Install, TLC

Built(version, caps, creds, mounts, paths) ==
  [version |-> version, caps |-> caps, creds |-> creds, required |-> creds,
   mounts |-> mounts, needed |-> mounts,
   paths |-> {"manifest", "program"} \cup paths]

MCBundles == {"plain", "needy", "second"}

MCManifest ==
  "plain" :> Built(1, {"kv"}, {}, {}, {"asset"}) @@
  "needy" :> Built(1, {"http"}, {"key"}, {"data"}, {}) @@
  "second" :> Built(2, {"http"}, {}, {"data"}, {})

Symmetry == Permutations(Procs)
=============================================================================
