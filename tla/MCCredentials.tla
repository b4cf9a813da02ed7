--------------------------- MODULE MCCredentials ---------------------------
(* Two methods, an API key and an OAuth grant, and callers that are alike.  *)
EXTENDS Credentials, TLC
CONSTANTS pat, google
MCMethods == {pat, google}
MCKind == (pat :> "apikey") @@ (google :> "oauth2")
Callers == Permutations(Procs)
=============================================================================
