---------------------------- MODULE Credentials ----------------------------
(* The callers of one credential: requests of a running particle            *)
(* (runtime/policy.go, credentials/host.go, signing.go), token rotation     *)
(* (credentials/oauth.go), setup, reconfiguration and re-authorisation      *)
(* (importer), in any number of goroutines and processes, and the OAuth     *)
(* provider they talk to between a read and a write of the store.           *)
(*                                                                          *)
(* A value is named by the grant it comes from (what the user typed, or one *)
(* authorisation) and, for tokens, how often that grant was renewed since.  *)
EXTENDS CredentialStore

CONSTANTS Procs,        \* callers
          MaxGrants,    \* bound: values typed and authorisations
          MaxRenewals   \* bound: refresh tokens given out per grant

VARIABLES grants,       \* the grants so far are 1 .. grants
          live,         \* per grant, the refresh token the provider takes
          op,           \* what each caller is doing
          madeFor,      \* history: the method each grant was made for
          lost,         \* history: grants whose live token reached nobody
          late          \* history: tokens were written after a switch

vars == <<storeVars, grants, live, op, madeFor, lost, late>>

Grants == 1 .. MaxGrants
TokenSet == [grant : Grants, n : 0 .. MaxRenewals]
Doings == {"use", "rotate", "setup", "reauth"}
Steps == {"idle", "read", "missing", "due", "lookup", "exchange", "kept",
          "authorize", "put", "write", "clear"}
Choices == {"set", "keep", "clear"}

(* id, method: the entry read last (in a setup, the method is the chosen    *)
(* one).  tok: the token at hand, paired: an access and a refresh token.    *)
(* again: a setup of the method that is configured, not a fresh one.        *)
(* existed: the entry was there when ReadSecret's first query ran.          *)
Ops == [step : Steps, doing : Doings, id : Ids \union {None},
        method : Methods \union {None}, role : Roles \union {None},
        tok : TokenSet \union {None}, paired : BOOLEAN,
        choice : Choices, again : BOOLEAN, existed : BOOLEAN]

Idle == [step |-> "idle", doing |-> "use", id |-> None, method |-> None,
         role |-> None, tok |-> None, paired |-> FALSE, choice |-> "set",
         again |-> FALSE, existed |-> FALSE]

ASSUME CredentialsAssumption == /\ MaxGrants \in Nat
                                /\ MaxRenewals \in Nat
                                /\ Tokens = TokenSet
                                /\ None \notin Ids \union Methods
                                /\ None \notin Roles

Init == /\ StoreInit
        /\ grants = 0
        /\ live = [g \in Grants |-> 0]
        /\ op = [p \in Procs |-> Idle]
        /\ madeFor = [g \in Grants |-> None]
        /\ lost = {}
        /\ late = FALSE

Becomes(p, o) == op' = [op EXCEPT ![p] = o]

(* Only the caller moves on.                                                *)
Goes(p, o) ==
  /\ Becomes(p, o)
  /\ UNCHANGED <<storeVars, grants, live, madeFor, lost, late>>

OAuth(method) == Kind[method] = "oauth2"

Reads(o, role) == [o EXCEPT !.step = "read", !.role = role]

(* Mutant: the kind is taken for the name of the method.                    *)
AtKind(doing, e) == [Idle EXCEPT !.doing = doing, !.id = e.id, !.method = KindOf(e)]
At(doing, e) == [Idle EXCEPT !.doing = doing, !.id = e.id, !.method = e.method]

----------------------------------------------------------------------------
(* Starting.  Each reads the descriptor of the name, and stops at once,     *)
(* changing nothing, where it finds none (or none of the kind it needs).    *)

(* A request that carries the placeholder, getRaw, sign, verify.            *)
Use(p) ==
  /\ op[p].step = "idle"
  /\ entry # None
  /\ Goes(p, Reads(At("use", entry), MainRole[KindOf(entry)]))

(* oauth.refresh *)
Refresh(p) ==
  /\ op[p].step = "idle"
  /\ entry # None
  /\ OAuth(entry.method)
  /\ Goes(p, [At("rotate", entry) EXCEPT !.step = "lookup"])

(* reconfigure --reauth-only *)
Reauth(p) ==
  /\ op[p].step = "idle"
  /\ entry # None
  /\ OAuth(entry.method)
  /\ Goes(p, Reads(At("reauth", entry), "client"))

(* What the prompts may say of the secret.  In the device-code flow nothing *)
(* is asked and the answer is Go's zero value, which is keep.               *)
Answers(method, again) ==
  IF again THEN Choices
           ELSE {"set"} \union {c \in {"keep"} : OAuth(method)}

(* import (of a credential not configured yet) and reconfigure              *)
Setup(p) ==
  /\ op[p].step = "idle"
  /\ \E method \in Methods :
       LET again == entry # None /\ entry.method = method IN
       \E choice \in Answers(method, again) :
         Goes(p, [Idle EXCEPT !.doing = "setup", !.method = method,
                              !.choice = choice, !.again = again,
                              !.step = IF OAuth(method) /\ choice = "keep" THEN "kept"
                                       ELSE IF ~OAuth(method) /\ choice # "set" THEN "put"
                                       ELSE "authorize"])

----------------------------------------------------------------------------
(* ReadSecret, two queries, and what its caller does with the answer.       *)

Fetched(o, value) ==
  IF o.role = "refresh" THEN Reads([o EXCEPT !.tok = value], "client")
  ELSE IF o.role = "client"
       THEN [o EXCEPT !.step = IF o.doing = "rotate" THEN "exchange" ELSE "authorize"]
  ELSE IF o.role = "access" THEN [o EXCEPT !.step = "due"]
  ELSE Idle

(* No client secret: a public client.  A rotation does not take a missing   *)
(* entry for one; setup and reauth do.                                      *)
NotFetched(o, answer) ==
  IF o.role = "client" /\ (answer = "not_set" \/ o.doing # "rotate")
  THEN Fetched(o, None)
  ELSE Idle

Read(p) ==
  /\ op[p].step = "read"
  /\ LET value == secret[<<op[p].id, op[p].role>>] IN
     Goes(p, IF value # None
             THEN Fetched(op[p], value)
             ELSE [op[p] EXCEPT !.step = "missing", !.existed = Exists(op[p].id)])

Missing(p) ==
  /\ op[p].step = "missing"
  /\ Goes(p, NotFetched(op[p], IF Exists(op[p].id) THEN "not_set" ELSE "not_found"))

----------------------------------------------------------------------------
(* Rotation.                                                                *)

(* An access token within 30 seconds of its end is renewed first; if that   *)
(* fails in any way, or it is not due, the request goes out with it.        *)
Due(p) ==
  /\ op[p].step = "due"
  /\ \/ Goes(p, [op[p] EXCEPT !.step = "lookup", !.doing = "rotate"])
     \/ Goes(p, Idle)

(* GetByID, then the two secrets, each a read of its own.                   *)
Lookup(p) ==
  /\ op[p].step = "lookup"
  /\ Goes(p, IF Exists(op[p].id) /\ OAuth(entry.method)
             THEN Reads(At("rotate", entry), "refresh")
             ELSE Idle)

Renewed(tok) == [tok EXCEPT !.n = @ + 1]

(* The provider of the method that was looked up takes the newest refresh   *)
(* token of a grant it made.  It may answer with an access token alone, or  *)
(* with a new refresh token too, and then the old one is spent; the answer  *)
(* may not arrive.                                                          *)
Exchange(p) ==
  LET tok == op[p].tok IN
  /\ op[p].step = "exchange"
  /\ madeFor[tok.grant] = op[p].method
  /\ tok.n = live[tok.grant]
  /\ UNCHANGED <<storeVars, grants, madeFor, late>>
  /\ \/ /\ Becomes(p, [op[p] EXCEPT !.step = "write"])
        /\ UNCHANGED <<live, lost>>
     \/ /\ tok.n < MaxRenewals
        /\ live' = [live EXCEPT ![tok.grant] = @ + 1]
        /\ \/ /\ Becomes(p, [op[p] EXCEPT !.step = "write", !.paired = TRUE,
                                          !.tok = Renewed(tok)])
              /\ UNCHANGED lost
           \/ /\ Becomes(p, Idle)
              /\ lost' = lost \union {tok.grant}

(* Mutant: the new refresh token is dropped.                                *)
NewTokensAccessOnly(o) == [r \in {"access"} |-> o.tok]
NewTokens(o) == [r \in {"access"} \union {x \in {"refresh"} : o.paired} |-> o.tok]

(* Rotation and reauth write to the id they read, whatever it is by now.    *)
Write(p) ==
  LET o == op[p] IN
  /\ o.step = "write"
  /\ WriteSecrets(o.id, NewTokens(o))
  /\ Becomes(p, Idle)
  /\ late' = (late \/ (Exists(o.id) /\ entry.method # o.method))
  /\ UNCHANGED <<grants, live, madeFor, lost>>

----------------------------------------------------------------------------
(* Setup.                                                                   *)

(* The client secret that is kept is read back; without an entry the setup  *)
(* ends here.                                                               *)
Kept(p) ==
  /\ op[p].step = "kept"
  /\ Goes(p, IF entry = None THEN Idle
             ELSE Reads([op[p] EXCEPT !.id = entry.id], "client"))

(* The user types a value, or authorises: the provider may or may not send  *)
(* a refresh token.                                                         *)
Authorize(p) ==
  /\ op[p].step = "authorize"
  /\ grants < MaxGrants
  /\ grants' = grants + 1
  /\ madeFor' = [madeFor EXCEPT ![grants + 1] = op[p].method]
  /\ \E paired \in BOOLEAN :
       /\ paired => OAuth(op[p].method)
       /\ Becomes(p, [op[p] EXCEPT !.tok = [grant |-> grants + 1, n |-> 0],
                                   !.paired = paired,
                                   !.step = IF op[p].doing = "setup" THEN "put" ELSE "write"])
  /\ UNCHANGED <<storeVars, live, lost, late>>

(* A blank client secret is not written.                                    *)
Given(o, blank) ==
  IF OAuth(o.method)
  THEN [r \in {"access"} \union {x \in {"refresh"} : o.paired}
                         \union {x \in {"client"} : o.choice = "set" /\ ~blank}
          |-> o.tok]
  ELSE [r \in {x \in {MainRole[Kind[o.method]]} : o.choice = "set"} |-> o.tok]

SetupPut(p) ==
  LET o == op[p] IN
  /\ o.step = "put"
  /\ \E blank \in BOOLEAN : Put(o.method, Given(o, blank))
  /\ Becomes(p, IF o.choice = "clear"
                THEN [o EXCEPT !.step = "clear", !.id = entry'.id]
                ELSE Idle)
  /\ UNCHANGED <<grants, live, madeFor, lost, late>>

(* A cleared secret is removed in a second transaction.                     *)
Clear(p) ==
  LET o == op[p] IN
  /\ o.step = "clear"
  /\ DeleteSecret(o.id, IF OAuth(o.method) THEN "client" ELSE MainRole[Kind[o.method]])
  /\ Becomes(p, Idle)
  /\ UNCHANGED <<grants, live, madeFor, lost, late>>

----------------------------------------------------------------------------
(* A host application deletes the entry.                                    *)
Remove(p) ==
  /\ op[p].step = "idle"
  /\ entry # None
  /\ Delete(entry.id)
  /\ UNCHANGED <<grants, live, op, madeFor, lost, late>>

(* An error of the store, the network or the prompts, a cancelled context,  *)
(* or the end of the process.  A refresh token not written yet is gone.     *)
Abandon(p) ==
  LET o == op[p] IN
  /\ o.step # "idle"
  /\ Becomes(p, Idle)
  /\ lost' = lost \union {g \in Grants : /\ o.step = "write"
                                         /\ o.paired
                                         /\ g = o.tok.grant}
  /\ UNCHANGED <<storeVars, grants, live, madeFor, late>>

Next == \E p \in Procs :
  \/ Use(p) \/ Refresh(p) \/ Reauth(p) \/ Setup(p)
  \/ Read(p) \/ Missing(p)
  \/ Due(p) \/ Lookup(p) \/ Exchange(p) \/ Write(p)
  \/ Kept(p) \/ Authorize(p) \/ SetupPut(p) \/ Clear(p)
  \/ Remove(p) \/ Abandon(p)

Spec == Init /\ [][Next]_vars

----------------------------------------------------------------------------
TypeOK == /\ entry \in Entries \union {None}
          /\ lastId \in 0 .. MaxIds
          /\ secret \in [Ids \X Roles -> TokenSet \union {None}]
          /\ grants \in 0 .. MaxGrants
          /\ live \in [Grants -> 0 .. MaxRenewals]
          /\ op \in [Procs -> Ops]
          /\ madeFor \in [Grants -> Methods \union {None}]
          /\ lost \subseteq Grants
          /\ late \in BOOLEAN

(* p is about to write the refresh token of grant g that the provider takes.*)
Brings(p, id, g) ==
  /\ op[p].step = "write"
  /\ op[p].paired
  /\ op[p].id = id
  /\ op[p].tok = [grant |-> g, n |-> live[g]]

(* However rotations, re-authorisations and setups interleave, the refresh  *)
(* token that is stored is the one the provider takes, or the rotation that *)
(* spent it is about to store the next: only an answer or a write that      *)
(* failed loses a credential.  (rotateAccessToken reads, goes to the        *)
(* network and writes without a lock, in several processes.)                *)
TokensStayUsable ==
  \A s \in Ids \X Roles : LET t == secret[s] IN
    s[2] = "refresh" /\ t # None => \/ t.n = live[t.grant]
                                    \/ t.grant \in lost
                                    \/ \E p \in Procs : Brings(p, s[1], t.grant)

(* A caller told "secret not set" held a real entry at the moment its       *)
(* secret was looked for: the two queries of ReadSecret give an answer that *)
(* was true, since an id is never given out twice.                          *)
NotSetIsTrue ==
  \A p \in Procs : op[p].step = "missing" /\ Exists(op[p].id) => op[p].existed

(* Every secret was made for the method that is configured, and is one of   *)
(* the roles it has.                                                        *)
FitsMethod(role, value) ==
  /\ role \in RolesOf[KindOf(entry)]
  /\ madeFor[value.grant] = entry.method

(* "Method switching never leaves stray secrets from the old method behind" *)
(* (credentials.go, Put).                                                   *)
NoStraySecret ==
  \A s \in Ids \X Roles :
    secret[s] # None /\ Exists(s[1]) => FitsMethod(s[2], secret[s])

(* ... and nothing but a rotation or reauth that was under way during the   *)
(* switch leaves any.                                                       *)
StraysCameLate == late \/ NoStraySecret
=============================================================================
