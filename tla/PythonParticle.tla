---------------------------- MODULE PythonParticle ----------------------------
(***************************************************************************)
(* A process that boots a particle (Boot) whose Python code uses libffi    *)
(* (Libffi) while it is up.  The adapter and the instance are one          *)
(* particle's: teardown comes when no call is running, and takes the       *)
(* trampolines, the table they are in and the shadow stack with it.  What  *)
(* get-manifest runs during a build is not followed.                       *)
(***************************************************************************)
EXTENDS Boot, Libffi

vars == <<bootVars, ffiVars>>

Init == BootInit /\ FfiInit

Next ==
  \/ TearDown /\ FfiGone
  \/ (Build \/ GoesWithout \/ Fail \/ Release \/ Ended) /\ UNCHANGED ffiVars
  \/ stage = "up" /\ program.command = "boot" /\ "libffi" \in held /\ FfiNext /\ UNCHANGED bootVars

Spec == Init /\ [][Next]_vars
=============================================================================
