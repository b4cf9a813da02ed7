------------------------- MODULE CredentialsProofs -------------------------
(* Proofs of the safety properties of Credentials, for any number of        *)
(* callers, methods, entries, grants and renewals.                          *)
EXTENDS Credentials, TLAPS

Holding == {"read", "missing", "due", "lookup", "exchange", "write", "clear"}

(* What the step a caller is at says of the rest of its record.             *)
Shape(o) ==
  /\ o.step # "idle" => o.method # None
  /\ o.step \in Holding => o.id # None
  /\ o.step = "authorize" => o.doing \in {"setup", "reauth"}
  /\ o.step \in {"read", "missing"} => o.role # None
  /\ o.step \in {"read", "missing"} /\ o.role = "refresh" => o.doing = "rotate"
  /\ o.step \in {"read", "missing"} /\ o.doing # "use" => o.role \in {"refresh", "client"}
  /\ o.doing = "use" /\ o.step # "idle" => o.role = MainRole[Kind[o.method]]
  /\ o.doing = "use" => o.step \in {"idle", "read", "missing", "due"} /\ o.tok = None
  /\ o.paired => o.step \in {"put", "write", "clear"}
  /\ o.doing \in {"rotate", "reauth"} => OAuth(o.method) /\ o.id # None
  /\ o.doing = "rotate" /\ o.role = "client" => o.tok # None
  /\ o.step = "exchange" => o.doing = "rotate" /\ o.tok # None
  /\ o.step = "due" => o.doing = "use" /\ OAuth(o.method)
  /\ o.step = "write" => o.doing \in {"rotate", "reauth"} /\ o.tok # None
  /\ o.step = "put" => /\ o.doing = "setup"
                       /\ OAuth(o.method) \/ o.choice = "set" => o.tok # None
  /\ o.step = "kept" => o.doing = "setup" /\ o.tok = None /\ OAuth(o.method)
  /\ o.step = "clear" => o.doing = "setup"

(* The ids, grants and tokens in use have been given out.                   *)
Known(tok) == tok.grant <= grants /\ tok.n <= live[tok.grant]

KnownIds == /\ entry # None => entry.id <= lastId
            /\ \A p \in Procs : op[p].id # None => op[p].id <= lastId

KnownTokens == /\ \A s \in Ids \X Roles : secret[s] # None => Known(secret[s])
               /\ \A p \in Procs : op[p].tok # None => Known(op[p].tok)
               /\ \A g \in Grants : grants < g => live[g] = 0

(* What is about to be stored was made for the method it is stored under.   *)
MadeForMethod ==
  \A p \in Procs :
    /\ op[p].step \in {"write", "put"}
    /\ op[p].tok # None
    => madeFor[op[p].tok.grant] = op[p].method

(* The grant of a setup or reauth that has not stored it is nobody else's.  *)
Fresh(p) == /\ op[p].doing \in {"setup", "reauth"}
            /\ op[p].step \in {"put", "write"}
            /\ op[p].tok # None

FreshIsUnshared ==
  \A p \in Procs : Fresh(p) =>
    LET g == op[p].tok.grant IN
    /\ live[g] = 0
    /\ \A s \in Ids \X Roles : secret[s] # None => secret[s].grant # g
    /\ \A q \in Procs \ {p} : op[q].tok # None => op[q].tok.grant # g

(* While a rotation brings the new token of a grant, every other token of   *)
(* it is spent.                                                             *)
Bringing(p) == op[p].doing = "rotate" /\ op[p].step = "write" /\ op[p].paired

OthersAreSpent ==
  \A p \in Procs : Bringing(p) =>
    LET g == op[p].tok.grant IN
    /\ op[p].tok.n = live[g]
    /\ \A s \in Ids \X Roles :
         s[2] = "refresh" /\ secret[s] # None /\ secret[s].grant = g
                          => secret[s].n < live[g]
    /\ \A q \in Procs \ {p} : op[q].tok # None /\ op[q].tok.grant = g
                          => op[q].tok.n < live[g]

(* The tokens of one grant are of one entry.                                *)
Rotating(p) == op[p].doing = "rotate" /\ op[p].tok # None

OneEntryPerGrant ==
  \A p \in Procs : Rotating(p) =>
    LET g == op[p].tok.grant IN
    /\ \A s \in Ids \X Roles : secret[s] # None /\ secret[s].grant = g => s[1] = op[p].id
    /\ \A q \in Procs : Rotating(q) /\ op[q].tok.grant = g => op[q].id = op[p].id

Inv == /\ TypeOK
       /\ \A p \in Procs : Shape(op[p])
       /\ KnownIds
       /\ KnownTokens
       /\ MadeForMethod
       /\ FreshIsUnshared
       /\ OthersAreSpent
       /\ OneEntryPerGrant
       /\ NoOrphanSecret
       /\ TokensStayUsable
       /\ NotSetIsTrue
       /\ StraysCameLate

----------------------------------------------------------------------------
USE StoreAssumption, CredentialsAssumption

LEMMA InitInv == Init => Inv
<1> SUFFICES ASSUME Init PROVE Inv
  OBVIOUS
<1>1. op = [p \in Procs |-> Idle] /\ \A p \in Procs : op[p] = Idle
  BY DEF Init
<1>2. Idle \in Ops /\ Shape(Idle) /\ Idle.id = None /\ Idle.tok = None /\ Idle.step = "idle" /\ Idle.doing = "use"
  BY DEF Idle, Ops, Shape, Steps, Doings, Choices, Holding
<1>3. TypeOK
  <2>1. op \in [Procs -> Ops]
    BY <1>1, <1>2
  <2>2. live \in [Grants -> 0 .. MaxRenewals] /\ grants \in 0 .. MaxGrants /\ lastId \in 0 .. MaxIds
    BY DEF Init, StoreInit
  <2>3. madeFor \in [Grants -> Methods \union {None}]
    BY DEF Init
  <2>4. secret \in [Ids \X Roles -> TokenSet \union {None}] /\ entry \in Entries \union {None}
    BY DEF Init, StoreInit
  <2>5. lost \subseteq Grants /\ late \in BOOLEAN
    BY DEF Init
  <2> QED
    BY <2>1, <2>2, <2>3, <2>4, <2>5 DEF TypeOK
<1>4. entry = None /\ \A s \in Ids \X Roles : secret[s] = None
  BY DEF Init, StoreInit
<1> QED
  BY <1>1, <1>2, <1>3, <1>4
  DEF Init, StoreInit, Inv, KnownIds, KnownTokens, MadeForMethod, FreshIsUnshared, Fresh,
      OthersAreSpent, Bringing, OneEntryPerGrant, Rotating, NoOrphanSecret,
      TokensStayUsable, NotSetIsTrue, StraysCameLate, NoStraySecret

----------------------------------------------------------------------------
(* A step that moves nothing but one caller.                                *)
GoodMove(p, o) ==
  /\ o \in Ops
  /\ Shape(o)
  /\ o.id # None => o.id <= lastId
  /\ o.step # "write" /\ op[p].step # "write"
  /\ o.step = "put" => o.tok = None
  /\ o.step = "missing" /\ Exists(o.id) => o.existed
  /\ \/ o.tok = None
     \/ o.tok = op[p].tok /\ o.id = op[p].id /\ o.doing = op[p].doing
     \/ /\ o.doing = "rotate"
        /\ <<o.id, "refresh">> \in Ids \X Roles
        /\ o.tok = secret[<<o.id, "refresh">>]

LEMMA GoesKeepsInv ==
  ASSUME Inv, NEW p \in Procs, NEW o, GoodMove(p, o), Goes(p, o)
  PROVE  Inv'
<1>1. /\ UNCHANGED <<entry, lastId, secret, grants, live, madeFor, lost, late>>
      /\ op' = [op EXCEPT ![p] = o]
  BY DEF Goes, Becomes, storeVars
<1>2. op \in [Procs -> Ops] /\ o \in Ops
  BY DEF Inv, TypeOK, GoodMove
<1>3. op'[p] = o /\ \A q \in Procs : q # p => op'[q] = op[q]
  BY <1>1, <1>2
<1>4. TypeOK'
  <2>1. op' \in [Procs -> Ops]
    BY <1>1, <1>2
  <2> QED
    BY <2>1, <1>1 DEF Inv, TypeOK
<1>5. (\A q \in Procs : Shape(op[q]))'
  BY <1>3 DEF Inv, GoodMove
<1>6. KnownIds'
  BY <1>1, <1>3 DEF Inv, GoodMove, KnownIds
<1>7. o.tok # None => Known(o.tok)
  BY DEF Inv, KnownTokens, GoodMove
<1>8. KnownTokens'
  BY <1>1, <1>3, <1>7 DEF Inv, KnownTokens, Known
<1>9. MadeForMethod'
  BY <1>1, <1>3 DEF Inv, GoodMove, MadeForMethod
<1>10. \A q \in Procs \ {p} : op[q].step \in {"put", "write"} /\ op[q].tok # None =>
         /\ Fresh(q) /\ o.tok # None => o.tok.grant # op[q].tok.grant
         /\ Bringing(q) /\ o.tok # None /\ o.tok.grant = op[q].tok.grant
              => o.tok.n < live[op[q].tok.grant]
  BY DEF Inv, GoodMove, FreshIsUnshared, OthersAreSpent
<1>11. FreshIsUnshared'
  <2> SUFFICES ASSUME NEW q \in Procs, Fresh(q)' PROVE
        (LET g == op[q].tok.grant IN
         /\ live[g] = 0
         /\ \A s \in Ids \X Roles : secret[s] # None => secret[s].grant # g
         /\ \A r \in Procs \ {q} : op[r].tok # None => op[r].tok.grant # g)'
    BY DEF FreshIsUnshared
  <2>1. q # p
    BY <1>3 DEF Fresh, GoodMove
  <2>2. op'[q] = op[q] /\ Fresh(q)
    BY <2>1, <1>3 DEF Fresh
  <2> QED
    BY <2>1, <2>2, <1>1, <1>3, <1>10 DEF Inv, FreshIsUnshared, Fresh
<1>12. OthersAreSpent'
  <2> SUFFICES ASSUME NEW q \in Procs, Bringing(q)' PROVE
        (LET g == op[q].tok.grant IN
         /\ op[q].tok.n = live[g]
         /\ \A s \in Ids \X Roles :
              s[2] = "refresh" /\ secret[s] # None /\ secret[s].grant = g
                               => secret[s].n < live[g]
         /\ \A r \in Procs \ {q} : op[r].tok # None /\ op[r].tok.grant = g
                               => op[r].tok.n < live[g])'
    BY DEF OthersAreSpent
  <2>1. q # p
    BY <1>3 DEF Bringing, GoodMove
  <2>2. op'[q] = op[q] /\ Bringing(q) /\ op[q].tok # None
    BY <2>1, <1>3 DEF Inv, Shape, Bringing
  <2> QED
    BY <2>1, <2>2, <1>1, <1>3, <1>10 DEF Inv, OthersAreSpent, Bringing
<1>13. Rotating(p)' => \/ Rotating(p) /\ o.tok = op[p].tok /\ o.id = op[p].id
                       \/ /\ <<o.id, "refresh">> \in Ids \X Roles
                          /\ o.tok = secret[<<o.id, "refresh">>]
                          /\ o.tok # None
  BY <1>3 DEF Rotating, GoodMove
<1>14. \A s, t \in Ids \X Roles : secret[s] # None /\ secret[t] # None => s[1] = t[1]
  BY DEF Inv, NoOrphanSecret, Exists
<1>15. OneEntryPerGrant'
  <2> SUFFICES ASSUME NEW q \in Procs, Rotating(q)' PROVE
        (LET g == op[q].tok.grant IN
         /\ \A s \in Ids \X Roles : secret[s] # None /\ secret[s].grant = g => s[1] = op[q].id
         /\ \A r \in Procs : Rotating(r) /\ op[r].tok.grant = g => op[r].id = op[q].id)'
    BY DEF OneEntryPerGrant
  <2>1. \A r \in Procs \ {p} : (Rotating(r)' <=> Rotating(r)) /\ op'[r] = op[r]
    BY <1>3 DEF Rotating
  <2>2. CASE ~Rotating(p)'
    BY <2>1, <2>2, <1>1 DEF Inv, OneEntryPerGrant
  <2>3. CASE Rotating(p) /\ o.tok = op[p].tok /\ o.id = op[p].id
    BY <2>1, <2>3, <1>1, <1>3 DEF Inv, OneEntryPerGrant
  <2>4. CASE /\ <<o.id, "refresh">> \in Ids \X Roles
             /\ o.tok = secret[<<o.id, "refresh">>]
             /\ o.tok # None
    <3>1. \A s \in Ids \X Roles : secret[s] # None => s[1] = o.id
      BY <2>4, <1>14
    <3>2. \A r \in Procs \ {p} : Rotating(r) /\ op[r].tok.grant = o.tok.grant => op[r].id = o.id
      BY <2>4 DEF Inv, OneEntryPerGrant
    <3> QED
      BY <3>1, <3>2, <2>1, <1>1, <1>3 DEF Inv, OneEntryPerGrant
  <2> QED
    BY <1>13, <2>2, <2>3, <2>4
<1>16. NoOrphanSecret' /\ StraysCameLate'
  BY <1>1 DEF Inv, NoOrphanSecret, Exists, StraysCameLate, NoStraySecret, FitsMethod, KindOf
<1>17. TokensStayUsable'
  <2>1. \A q \in Procs, s \in Ids : \A g : Brings(q, s, g) => Brings(q, s, g)'
    <3> SUFFICES ASSUME NEW q \in Procs, NEW s \in Ids, NEW g, Brings(q, s, g)
                 PROVE  Brings(q, s, g)'
      OBVIOUS
    <3>1. q # p
      BY DEF Brings, GoodMove
    <3> QED
      BY <3>1, <1>1, <1>3 DEF Brings
  <2> QED
    BY <2>1, <1>1 DEF Inv, TokensStayUsable
<1>18. NotSetIsTrue'
  BY <1>1, <1>3 DEF Inv, NotSetIsTrue, GoodMove, Exists
<1> QED
  BY <1>4, <1>5, <1>6, <1>8, <1>9, <1>11, <1>12, <1>15, <1>16, <1>17, <1>18 DEF Inv

LEMMA RoleFacts ==
  ASSUME NEW m \in Methods
  PROVE  /\ MainRole[Kind[m]] \in Roles
         /\ MainRole[Kind[m]] \notin {"refresh", "client"}
         /\ OAuth(m) <=> MainRole[Kind[m]] = "access"
         /\ OAuth(m) => {"access", "refresh", "client"} \subseteq Roles
<1>1. Kind[m] \in {"basic", "apikey", "signing", "raw", "oauth2"}
  BY DEF RolesOf
<1>2. RolesOf[Kind[m]] \subseteq Roles
  BY DEF Roles
<1>3. MainRole[Kind[m]] \in RolesOf[Kind[m]]
  BY <1>1 DEF MainRole, RolesOf
<1>4. /\ MainRole[Kind[m]] \notin {"refresh", "client"}
      /\ OAuth(m) <=> MainRole[Kind[m]] = "access"
  BY <1>1 DEF MainRole, OAuth
<1>5. OAuth(m) => RolesOf[Kind[m]] = {"access", "refresh", "client"}
  BY DEF OAuth, RolesOf
<1> QED
  BY <1>2, <1>3, <1>4, <1>5

LEMMA EntryFacts ==
  ASSUME Inv, entry # None
  PROVE  entry.id \in Ids /\ entry.id # None /\ entry.id <= lastId
         /\ entry.method \in Methods /\ entry.method # None
BY DEF Inv, TypeOK, Entries, KnownIds

LEMMA UseKeepsInv == ASSUME Inv, NEW p \in Procs, Use(p) PROVE Inv'
<1> DEFINE o == Reads(At("use", entry), MainRole[KindOf(entry)])
<1>1. entry # None /\ op[p].step = "idle" /\ Goes(p, o)
  BY DEF Use
<1>2. MainRole[Kind[entry.method]] \in Roles \ {"refresh", "client"}
  BY <1>1, EntryFacts, RoleFacts
<1>3. GoodMove(p, o)
  <2>1. /\ o.step = "read" /\ o.doing = "use" /\ o.id = entry.id /\ o.method = entry.method
        /\ o.tok = None /\ o.paired = FALSE /\ o.role = MainRole[Kind[entry.method]]
    BY DEF Reads, At, Idle, KindOf
  <2>2. o \in Ops
    BY <1>1, <1>2, EntryFacts DEF Reads, At, Idle, KindOf, Ops, Steps, Doings, Choices
  <2>3. Shape(o)
    BY <1>1, <1>2, <2>1, EntryFacts DEF Shape, Holding, OAuth
  <2> QED
    BY <1>1, <2>1, <2>2, <2>3, EntryFacts DEF GoodMove
<1> QED
  BY <1>1, <1>3, GoesKeepsInv

LEMMA RefreshKeepsInv == ASSUME Inv, NEW p \in Procs, Refresh(p) PROVE Inv'
<1> DEFINE o == [At("rotate", entry) EXCEPT !.step = "lookup"]
<1>1. entry # None /\ op[p].step = "idle" /\ OAuth(entry.method) /\ Goes(p, o)
  BY DEF Refresh
<1>2. "client" # None
  BY <1>1, EntryFacts, RoleFacts
<1>3. GoodMove(p, o)
  <2>1. /\ o.step = "lookup" /\ o.doing = "rotate" /\ o.id = entry.id /\ o.method = entry.method
        /\ o.tok = None /\ o.paired = FALSE /\ o.role = None
    BY DEF At, Idle
  <2>2. o \in Ops
    BY <1>1, EntryFacts DEF At, Idle, Ops, Steps, Doings, Choices
  <2>3. Shape(o)
    BY <1>1, <1>2, <2>1, EntryFacts DEF Shape, Holding, OAuth
  <2> QED
    BY <1>1, <2>1, <2>2, <2>3, EntryFacts DEF GoodMove
<1> QED
  BY <1>1, <1>3, GoesKeepsInv

LEMMA ReauthKeepsInv == ASSUME Inv, NEW p \in Procs, Reauth(p) PROVE Inv'
<1> DEFINE o == Reads(At("reauth", entry), "client")
<1>1. entry # None /\ op[p].step = "idle" /\ OAuth(entry.method) /\ Goes(p, o)
  BY DEF Reauth
<1>2. "client" \in Roles
  BY <1>1, EntryFacts, RoleFacts
<1>3. GoodMove(p, o)
  <2>1. /\ o.step = "read" /\ o.doing = "reauth" /\ o.id = entry.id /\ o.method = entry.method
        /\ o.tok = None /\ o.paired = FALSE /\ o.role = "client"
    BY DEF At, Idle, Reads
  <2>2. o \in Ops
    BY <1>1, <1>2, EntryFacts DEF At, Reads, Idle, Ops, Steps, Doings, Choices
  <2>3. Shape(o)
    BY <1>1, <1>2, <2>1, EntryFacts DEF Shape, Holding, OAuth
  <2> QED
    BY <1>1, <2>1, <2>2, <2>3, EntryFacts DEF GoodMove
<1> QED
  BY <1>1, <1>3, GoesKeepsInv

LEMMA SetupKeepsInv == ASSUME Inv, NEW p \in Procs, Setup(p) PROVE Inv'
<1>1. PICK method \in Methods, choice \in Choices, again \in BOOLEAN,
           step \in {"kept", "put", "authorize"} :
        /\ step = "put" => ~OAuth(method) /\ choice # "set"
        /\ step = "kept" => OAuth(method)
        /\ Goes(p, [Idle EXCEPT !.doing = "setup", !.method = method,
                                !.choice = choice, !.again = again, !.step = step])
  <2>1. PICK method \in Methods :
          LET again == entry # None /\ entry.method = method IN
          \E choice \in Answers(method, again) :
            Goes(p, [Idle EXCEPT !.doing = "setup", !.method = method,
                              !.choice = choice, !.again = again,
                              !.step = IF OAuth(method) /\ choice = "keep" THEN "kept"
                                       ELSE IF ~OAuth(method) /\ choice # "set" THEN "put"
                                       ELSE "authorize"])
    BY DEF Setup
  <2>2. \A again \in BOOLEAN : Answers(method, again) \subseteq Choices
    BY DEF Answers, Choices
  <2> DEFINE again == entry # None /\ entry.method = method
  <2>3. again \in BOOLEAN
    OBVIOUS
  <2>4. PICK choice \in Choices :
            Goes(p, [Idle EXCEPT !.doing = "setup", !.method = method,
                              !.choice = choice, !.again = again,
                              !.step = IF OAuth(method) /\ choice = "keep" THEN "kept"
                                       ELSE IF ~OAuth(method) /\ choice # "set" THEN "put"
                                       ELSE "authorize"])
    BY <2>1, <2>2, <2>3
  <2> DEFINE step == IF OAuth(method) /\ choice = "keep" THEN "kept"
                     ELSE IF ~OAuth(method) /\ choice # "set" THEN "put"
                     ELSE "authorize"
  <2>5. /\ step \in {"kept", "put", "authorize"}
        /\ step = "put" => ~OAuth(method) /\ choice # "set"
        /\ step = "kept" => OAuth(method)
    BY DEF Choices
  <2> HIDE DEF again, step
  <2> QED
    BY <2>3, <2>4, <2>5
<1> DEFINE o == [Idle EXCEPT !.doing = "setup", !.method = method,
                             !.choice = choice, !.again = again, !.step = step]
<1>2. /\ o.step = step /\ o.doing = "setup" /\ o.id = None /\ o.method = method
      /\ o.tok = None /\ o.paired = FALSE /\ o.role = None /\ o.choice = choice
  BY DEF Idle
<1>3. o \in Ops
  BY <1>1 DEF Idle, Ops, Steps, Doings, Choices
<1>4. Shape(o)
  BY <1>1, <1>2 DEF Shape, Holding, OAuth
<1>5. op[p].step # "write"
  BY DEF Setup
<1>6. GoodMove(p, o)
  BY <1>1, <1>2, <1>3, <1>4, <1>5 DEF GoodMove
<1> QED
  BY <1>1, <1>6, GoesKeepsInv

LEMMA OpFacts ==
  ASSUME Inv, NEW p \in Procs
  PROVE  op[p] \in Ops /\ Shape(op[p]) /\ (op[p].id # None => op[p].id <= lastId)
BY DEF Inv, TypeOK, KnownIds

LEMMA IdleIsGood ==
  ASSUME NEW p \in Procs, op[p].step # "write"
  PROVE  GoodMove(p, Idle)
<1>1. /\ Idle.step = "idle" /\ Idle.doing = "use" /\ Idle.id = None /\ Idle.tok = None
      /\ Idle.paired = FALSE
  BY DEF Idle
<1>2. Idle \in Ops
  BY DEF Idle, Ops, Steps, Doings, Choices
<1> QED
  BY <1>1, <1>2 DEF GoodMove, Shape, Holding

(* The answers of a secret's read.                                          *)
LEMMA FetchedIsGood ==
  ASSUME Inv, NEW p \in Procs, op[p].step \in {"read", "missing"},
         NEW value,
         \/ value = None /\ op[p].role = "client"
         \/ value = secret[<<op[p].id, op[p].role>>] /\ value # None
  PROVE  GoodMove(p, Fetched(op[p], value))
<1> DEFINE x == op[p]
<1>1. x \in Ops /\ Shape(x) /\ (x.id # None => x.id <= lastId)
  BY OpFacts
<1>2. x.id \in Ids /\ x.role \in Roles /\ x.method \in Methods
  BY <1>1 DEF Shape, Holding, Ops
<1>3. CASE x.role = "refresh"
  <2> DEFINE o == Reads([x EXCEPT !.tok = value], "client")
  <2>1. Fetched(x, value) = o
    BY <1>3 DEF Fetched
  <2>2. x.doing = "rotate" /\ OAuth(x.method) /\ value = secret[<<x.id, "refresh">>] /\ value # None
    BY <1>1, <1>3 DEF Shape
  <2>3. <<x.id, "refresh">> \in Ids \X Roles /\ "client" \in Roles
    BY <1>2, <1>3, <2>2, RoleFacts
  <2>4. value \in TokenSet
    BY <2>2, <2>3 DEF Inv, TypeOK
  <2>5. o \in Ops
    BY <1>1, <2>3, <2>4 DEF Ops, Reads, Steps
  <2>6. /\ o.step = "read" /\ o.role = "client" /\ o.tok = value
        /\ o.id = x.id /\ o.doing = x.doing /\ o.method = x.method /\ o.paired = x.paired
    BY <1>1 DEF Ops, Reads
  <2>7. Shape(o)
    BY <1>1, <2>2, <2>3, <2>6 DEF Shape, Holding, OAuth
  <2> HIDE DEF o
  <2>8. GoodMove(p, o)
    BY <1>1, <2>2, <2>3, <2>5, <2>6, <2>7 DEF GoodMove
  <2> QED
    BY <2>1, <2>8
<1>4. CASE x.role = "client"
  <2> DEFINE o == [x EXCEPT !.step = IF x.doing = "rotate" THEN "exchange" ELSE "authorize"]
  <2>1. Fetched(x, value) = o
    BY <1>4 DEF Fetched
  <2>2. x.doing \in {"rotate", "setup", "reauth"}
    <3>1. x.doing # "use"
      BY <1>1, <1>2, <1>4, RoleFacts DEF Shape
    <3> QED
      BY <1>1, <3>1 DEF Ops, Doings
  <2>3. o \in Ops
    BY <1>1 DEF Ops, Steps
  <2>4. /\ o.step = IF x.doing = "rotate" THEN "exchange" ELSE "authorize"
        /\ o.role = "client" /\ o.tok = x.tok
        /\ o.id = x.id /\ o.doing = x.doing /\ o.method = x.method /\ o.paired = x.paired
    BY <1>1, <1>4 DEF Ops
  <2> HIDE DEF o
  <2>5. Shape(o)
    <3>1. CASE x.doing = "rotate"
      BY <1>1, <1>2, <1>4, <2>4, <3>1 DEF Shape, Holding, OAuth
    <3>2. CASE x.doing \in {"setup", "reauth"}
      BY <1>1, <1>2, <1>4, <2>4, <3>2 DEF Shape, Holding, OAuth
    <3> QED
      BY <2>2, <3>1, <3>2
  <2>6. GoodMove(p, o)
    BY <1>1, <2>2, <2>3, <2>4, <2>5 DEF GoodMove
  <2> QED
    BY <2>1, <2>6
<1>5. CASE x.role = "access"
  <2> DEFINE o == [x EXCEPT !.step = "due"]
  <2>1. Fetched(x, value) = o
    BY <1>5 DEF Fetched
  <2>2. x.doing = "use" /\ OAuth(x.method)
    BY <1>1, <1>2, <1>5, RoleFacts DEF Shape
  <2>3. o \in Ops
    BY <1>1 DEF Ops, Steps
  <2>4. /\ o.step = "due" /\ o.role = x.role /\ o.tok = x.tok
        /\ o.id = x.id /\ o.doing = x.doing /\ o.method = x.method /\ o.paired = x.paired
    BY <1>1 DEF Ops
  <2>5. Shape(o)
    BY <1>1, <1>2, <2>2, <2>4 DEF Shape, Holding, OAuth
  <2> HIDE DEF o
  <2>6. GoodMove(p, o)
    BY <1>1, <2>2, <2>3, <2>4, <2>5 DEF GoodMove
  <2> QED
    BY <2>1, <2>6
<1>6. CASE x.role \notin {"refresh", "client", "access"}
  <2>1. Fetched(x, value) = Idle
    BY <1>6 DEF Fetched
  <2> QED
    BY <2>1, IdleIsGood
<1> QED
  BY <1>3, <1>4, <1>5, <1>6

LEMMA ReadKeepsInv == ASSUME Inv, NEW p \in Procs, Read(p) PROVE Inv'
<1> DEFINE x == op[p]
           value == secret[<<x.id, x.role>>]
           o == [x EXCEPT !.step = "missing", !.existed = Exists(x.id)]
<1>1. x.step = "read" /\ Goes(p, IF value # None THEN Fetched(x, value) ELSE o)
  BY DEF Read
<1>2. CASE value # None
  BY <1>1, <1>2, FetchedIsGood, GoesKeepsInv
<1>3. CASE value = None
  <2>1. x \in Ops /\ Shape(x) /\ (x.id # None => x.id <= lastId)
    BY OpFacts
  <2>2. Exists(x.id) \in BOOLEAN
    BY DEF Exists
  <2>3. o \in Ops
    BY <2>1, <2>2 DEF Ops, Steps
  <2>4. /\ o.step = "missing" /\ o.existed = Exists(x.id) /\ o.role = x.role /\ o.tok = x.tok
        /\ o.id = x.id /\ o.doing = x.doing /\ o.method = x.method /\ o.paired = x.paired
    BY <2>1 DEF Ops
  <2>5. Shape(o)
    BY <1>1, <2>1, <2>4 DEF Shape, Holding, OAuth
  <2> HIDE DEF o
  <2>6. GoodMove(p, o)
    BY <1>1, <2>1, <2>3, <2>4, <2>5 DEF GoodMove
  <2> QED
    BY <1>1, <1>3, <2>6, GoesKeepsInv
<1> QED
  BY <1>2, <1>3

LEMMA MissingKeepsInv == ASSUME Inv, NEW p \in Procs, Missing(p) PROVE Inv'
<1> DEFINE answer == IF Exists(op[p].id) THEN "not_set" ELSE "not_found"
<1>1. op[p].step = "missing" /\ Goes(p, NotFetched(op[p], answer))
  BY DEF Missing
<1>2. GoodMove(p, NotFetched(op[p], answer))
  <2>1. CASE op[p].role = "client" /\ (answer = "not_set" \/ op[p].doing # "rotate")
    <3>1. NotFetched(op[p], answer) = Fetched(op[p], None)
      BY <2>1 DEF NotFetched
    <3> QED
      BY <1>1, <2>1, <3>1, FetchedIsGood
  <2>2. CASE ~(op[p].role = "client" /\ (answer = "not_set" \/ op[p].doing # "rotate"))
    <3>1. NotFetched(op[p], answer) = Idle
      BY <2>2 DEF NotFetched
    <3> QED
      BY <1>1, <3>1, IdleIsGood
  <2> QED
    BY <2>1, <2>2
<1> QED
  BY <1>1, <1>2, GoesKeepsInv

LEMMA DueKeepsInv == ASSUME Inv, NEW p \in Procs, Due(p) PROVE Inv'
<1> DEFINE x == op[p]
           o == [x EXCEPT !.step = "lookup", !.doing = "rotate"]
<1>1. x.step = "due" /\ (Goes(p, o) \/ Goes(p, Idle))
  BY DEF Due
<1>2. x \in Ops /\ Shape(x) /\ (x.id # None => x.id <= lastId)
  BY OpFacts
<1>3. x.doing = "use" /\ x.tok = None /\ x.id # None /\ x.method # None /\ OAuth(x.method)
  BY <1>1, <1>2 DEF Shape, Holding
<1>4. o \in Ops
  BY <1>2 DEF Ops, Steps, Doings
<1>5. /\ o.step = "lookup" /\ o.role = x.role /\ o.tok = None
      /\ o.id = x.id /\ o.doing = "rotate" /\ o.method = x.method /\ o.paired = x.paired
  BY <1>2, <1>3 DEF Ops
<1>6. x.role # "client"
  BY <1>1, <1>2, <1>3, RoleFacts DEF Shape, Ops
<1>7. Shape(o)
  BY <1>1, <1>2, <1>3, <1>5, <1>6 DEF Shape, Holding, OAuth
<1> HIDE DEF o
<1>8. GoodMove(p, o)
  BY <1>1, <1>2, <1>4, <1>5, <1>7 DEF GoodMove
<1> QED
  BY <1>1, <1>8, IdleIsGood, GoesKeepsInv

LEMMA LookupKeepsInv == ASSUME Inv, NEW p \in Procs, Lookup(p) PROVE Inv'
<1> DEFINE o == Reads(At("rotate", entry), "refresh")
<1>1. op[p].step = "lookup"
  BY DEF Lookup
<1>2. CASE Exists(op[p].id) /\ OAuth(entry.method)
  <2>1. Goes(p, o) /\ entry # None
    BY <1>2 DEF Lookup, Exists
  <2>2. "refresh" \in Roles /\ "refresh" # None
    BY <1>2, <2>1, EntryFacts, RoleFacts
  <2>3. /\ o.step = "read" /\ o.doing = "rotate" /\ o.id = entry.id /\ o.method = entry.method
        /\ o.tok = None /\ o.paired = FALSE /\ o.role = "refresh"
    BY DEF At, Idle, Reads
  <2>4. o \in Ops
    BY <2>1, <2>2, EntryFacts DEF At, Reads, Idle, Ops, Steps, Doings, Choices
  <2>5. Shape(o)
    BY <1>2, <2>1, <2>2, <2>3, EntryFacts DEF Shape, Holding, OAuth
  <2> HIDE DEF o
  <2>6. GoodMove(p, o)
    BY <1>1, <2>1, <2>3, <2>4, <2>5, EntryFacts DEF GoodMove
  <2> QED
    BY <2>1, <2>6, GoesKeepsInv
<1>3. CASE ~(Exists(op[p].id) /\ OAuth(entry.method))
  <2>1. Goes(p, Idle)
    BY <1>3 DEF Lookup
  <2> QED
    BY <1>1, <2>1, IdleIsGood, GoesKeepsInv
<1> QED
  BY <1>2, <1>3

LEMMA KeptKeepsInv == ASSUME Inv, NEW p \in Procs, Kept(p) PROVE Inv'
<1> DEFINE x == op[p]
           o == Reads([x EXCEPT !.id = entry.id], "client")
<1>1. x.step = "kept"
  BY DEF Kept
<1>2. CASE entry = None
  <2>1. Goes(p, Idle)
    BY <1>2 DEF Kept
  <2> QED
    BY <1>1, <2>1, IdleIsGood, GoesKeepsInv
<1>3. CASE entry # None
  <2>1. Goes(p, o)
    BY <1>3 DEF Kept
  <2>2. x \in Ops /\ Shape(x)
    BY OpFacts
  <2>3. x.doing = "setup" /\ x.tok = None /\ x.method \in Methods /\ OAuth(x.method)
    BY <1>1, <2>2 DEF Shape, Ops
  <2>4. "client" \in Roles /\ "client" # None
    BY <2>3, RoleFacts
  <2>5. /\ o.step = "read" /\ o.doing = "setup" /\ o.id = entry.id /\ o.method = x.method
        /\ o.tok = None /\ o.paired = x.paired /\ o.role = "client"
    BY <2>2, <2>3 DEF Ops, Reads
  <2>6. o \in Ops
    BY <1>3, <2>2, <2>4, EntryFacts DEF Reads, Ops, Steps
  <2>7. Shape(o)
    BY <1>1, <1>3, <2>2, <2>3, <2>4, <2>5, EntryFacts DEF Shape, Holding, OAuth
  <2> HIDE DEF o
  <2>8. GoodMove(p, o)
    BY <1>1, <1>3, <2>5, <2>6, <2>7, EntryFacts DEF GoodMove
  <2> QED
    BY <2>1, <2>8, GoesKeepsInv
<1> QED
  BY <1>2, <1>3

(* A step that only takes away: secrets, the entry, what callers are doing. *)
LEMMA ShrinkKeepsInv ==
  ASSUME Inv,
         UNCHANGED <<lastId, grants, live, madeFor, late>>,
         entry' = entry \/ entry' = None,
         secret' \in [Ids \X Roles -> TokenSet \union {None}],
         \A s \in Ids \X Roles : secret'[s] = secret[s] \/ secret'[s] = None,
         op' \in [Procs -> Ops],
         \A q \in Procs : op'[q] = op[q] \/ op'[q] = Idle,
         lost \subseteq lost', lost' \subseteq Grants,
         NoOrphanSecret',
         \A q \in Procs, i \in Ids, g \in Grants :
           Brings(q, i, g) => op'[q] = op[q] \/ g \in lost' \/ ~Exists(i)'
  PROVE  Inv'
<1>1. /\ Idle.step = "idle" /\ Idle.doing = "use" /\ Idle.id = None /\ Idle.tok = None
      /\ Shape(Idle)
  BY DEF Idle, Shape, Holding
<1>2. TypeOK'
  BY DEF Inv, TypeOK
<1>3. (\A p \in Procs : Shape(op[p]))'
  BY <1>1 DEF Inv
<1>4. KnownIds'
  BY <1>1 DEF Inv, KnownIds
<1>5. KnownTokens'
  BY <1>1 DEF Inv, KnownTokens, Known
<1>6. MadeForMethod'
  BY <1>1 DEF Inv, MadeForMethod
<1>7. \A q \in Procs : /\ Fresh(q)' => Fresh(q) /\ op'[q] = op[q]
                       /\ Bringing(q)' => Bringing(q) /\ op'[q] = op[q]
                       /\ Rotating(q)' => Rotating(q) /\ op'[q] = op[q]
                       /\ op'[q].tok # None => op'[q] = op[q]
  BY <1>1 DEF Fresh, Bringing, Rotating
<1>8. FreshIsUnshared'
  BY <1>7 DEF Inv, FreshIsUnshared
<1>9. OthersAreSpent'
  BY <1>7 DEF Inv, OthersAreSpent
<1>10. OneEntryPerGrant'
  BY <1>7 DEF Inv, OneEntryPerGrant
<1>11. TokensStayUsable'
  <2> SUFFICES ASSUME NEW s \in Ids \X Roles, s[2] = "refresh", secret'[s] # None
               PROVE  (\/ secret[s].n = live[secret[s].grant]
                       \/ secret[s].grant \in lost
                       \/ \E p \in Procs : Brings(p, s[1], secret[s].grant))'
    BY DEF TokensStayUsable
  <2>1. secret'[s] = secret[s] /\ secret[s].grant \in Grants /\ s[1] \in Ids
    BY DEF TokenSet
  <2>2. \/ secret[s].n = live[secret[s].grant]
        \/ secret[s].grant \in lost
        \/ \E p \in Procs : Brings(p, s[1], secret[s].grant)
    BY <2>1 DEF Inv, TokensStayUsable
  <2>3. ASSUME NEW p \in Procs, Brings(p, s[1], secret[s].grant)
        PROVE  Brings(p, s[1], secret[s].grant)' \/ secret'[s].grant \in lost'
    BY <2>1, <2>3 DEF Brings, NoOrphanSecret
  <2> QED
    BY <2>1, <2>2, <2>3
<1>12. NotSetIsTrue'
  BY <1>1 DEF Inv, NotSetIsTrue, Exists
<1>13. StraysCameLate'
  BY DEF Inv, StraysCameLate, NoStraySecret, FitsMethod, KindOf, Exists
<1> QED
  BY <1>2, <1>3, <1>4, <1>5, <1>6, <1>8, <1>9, <1>10, <1>11, <1>12, <1>13 DEF Inv

LEMMA BecomesIdle ==
  ASSUME Inv, NEW p \in Procs, Becomes(p, Idle)
  PROVE  /\ op' \in [Procs -> Ops]
         /\ op'[p] = Idle
         /\ \A q \in Procs : q # p => op'[q] = op[q]
<1>1. Idle \in Ops
  BY DEF Idle, Ops, Steps, Doings, Choices
<1> QED
  BY <1>1 DEF Inv, TypeOK, Becomes

LEMMA ClearKeepsInv == ASSUME Inv, NEW p \in Procs, Clear(p) PROVE Inv'
<1>1. /\ UNCHANGED <<entry, lastId, grants, live, madeFor, lost, late>>
      /\ op[p].step = "clear" /\ Becomes(p, Idle)
  BY DEF Clear, DeleteSecret
<1>2. PICK r : secret' = [secret EXCEPT ![<<op[p].id, r>>] = None]
  BY DEF Clear, DeleteSecret
<1>3. secret \in [Ids \X Roles -> TokenSet \union {None}]
  BY DEF Inv, TypeOK
<1>4. /\ secret' \in [Ids \X Roles -> TokenSet \union {None}]
      /\ \A s \in Ids \X Roles : secret'[s] = secret[s] \/ secret'[s] = None
  BY <1>2, <1>3
<1>5. NoOrphanSecret'
  BY <1>1, <1>4 DEF Inv, NoOrphanSecret, Exists
<1>6. \A q \in Procs : op'[q] = op[q] \/ op'[q] = Idle
  BY <1>1, BecomesIdle
<1>7. \A q \in Procs, i \in Ids, g \in Grants : Brings(q, i, g) => op'[q] = op[q]
  BY <1>1, BecomesIdle DEF Brings
<1>8. lost \subseteq Grants /\ op' \in [Procs -> Ops]
  BY <1>1, BecomesIdle DEF Inv, TypeOK
<1> QED
  BY <1>1, <1>4, <1>5, <1>6, <1>7, <1>8, ShrinkKeepsInv

LEMMA RemoveKeepsInv == ASSUME Inv, NEW p \in Procs, Remove(p) PROVE Inv'
<1>1. /\ UNCHANGED <<lastId, grants, live, op, madeFor, lost, late>>
      /\ entry # None /\ entry' = None /\ secret' = Wipe(secret, entry.id)
  BY DEF Remove, Delete, Exists
<1>2. secret \in [Ids \X Roles -> TokenSet \union {None}] /\ op \in [Procs -> Ops] /\ lost \subseteq Grants
  BY DEF Inv, TypeOK
<1>3. secret' = [s \in Ids \X Roles |-> None]
  BY <1>1, <1>2 DEF Wipe, Inv, NoOrphanSecret, Exists
<1>4. NoOrphanSecret'
  BY <1>3 DEF NoOrphanSecret
<1> QED
  BY <1>1, <1>2, <1>3, <1>4, ShrinkKeepsInv

LEMMA AbandonKeepsInv == ASSUME Inv, NEW p \in Procs, Abandon(p) PROVE Inv'
<1>1. /\ UNCHANGED <<entry, lastId, secret, grants, live, madeFor, late>>
      /\ Becomes(p, Idle)
      /\ lost' = lost \union {g \in Grants : /\ op[p].step = "write"
                                             /\ op[p].paired
                                             /\ g = op[p].tok.grant}
  BY DEF Abandon, storeVars
<1>2. secret \in [Ids \X Roles -> TokenSet \union {None}] /\ lost \subseteq Grants
  BY DEF Inv, TypeOK
<1>3. NoOrphanSecret'
  BY <1>1 DEF Inv, NoOrphanSecret, Exists
<1>4. op' \in [Procs -> Ops] /\ \A q \in Procs : op'[q] = op[q] \/ op'[q] = Idle
  BY <1>1, BecomesIdle
<1>5. \A q \in Procs, i \in Ids, g \in Grants : Brings(q, i, g) => op'[q] = op[q] \/ g \in lost'
  BY <1>1, BecomesIdle DEF Brings
<1>6. lost \subseteq lost' /\ lost' \subseteq Grants
  BY <1>1, <1>2
<1> QED
  BY <1>1, <1>2, <1>3, <1>4, <1>5, <1>6, ShrinkKeepsInv

LEMMA AuthorizeKeepsInv == ASSUME Inv, NEW p \in Procs, Authorize(p) PROVE Inv'
<1> DEFINE x == op[p]
           new == grants + 1
           next == IF x.doing = "setup" THEN "put" ELSE "write"
<1>1. /\ x.step = "authorize" /\ grants < MaxGrants /\ grants' = new
      /\ madeFor' = [madeFor EXCEPT ![new] = x.method]
      /\ UNCHANGED <<entry, lastId, secret, live, lost, late>>
  BY DEF Authorize, storeVars
<1>0. PICK tok : tok = [grant |-> new, n |-> 0]
  OBVIOUS
<1>2. PICK paired \in BOOLEAN :
        /\ paired => OAuth(x.method)
        /\ op' = [op EXCEPT ![p] = [x EXCEPT !.tok = [grant |-> new, n |-> 0], !.paired = paired,
                                             !.step = next]]
  BY DEF Authorize, Becomes
<1>3. x \in Ops /\ Shape(x) /\ (x.id # None => x.id <= lastId)
  BY OpFacts
<1>4. x.doing \in {"setup", "reauth"} /\ x.method # None
  BY <1>1, <1>3 DEF Shape
<1>5. new \in Grants /\ grants \in Nat /\ tok \in TokenSet
  BY <1>0, <1>1 DEF Inv, TypeOK, Grants, TokenSet
<1> DEFINE y == [x EXCEPT !.tok = tok, !.paired = paired, !.step = next]
<1>6. y \in Ops
  <2>1. next \in Steps
    BY DEF Steps
  <2> HIDE DEF next
  <2> QED
    BY <2>1, <1>3, <1>5 DEF Ops
<1>7. /\ y.step = (IF x.doing = "setup" THEN "put" ELSE "write")
      /\ y.tok = tok /\ y.paired = paired /\ y.doing = x.doing /\ y.id = x.id
      /\ y.method = x.method /\ y.role = x.role
  BY <1>3 DEF Ops
<1> HIDE DEF y
<1>8. tok # None /\ tok.grant = new /\ tok.n = 0
  BY <1>0, <1>5
<1>9. op \in [Procs -> Ops] /\ op' = [op EXCEPT ![p] = y]
  BY <1>0, <1>2 DEF Inv, TypeOK, y
<1>10. op'[p] = y /\ \A q \in Procs : q # p => op'[q] = op[q]
  BY <1>9
<1>11. TypeOK'
  <2>1. op' \in [Procs -> Ops]
    BY <1>6, <1>9
  <2>2. madeFor' \in [Grants -> Methods \union {None}]
    BY <1>1, <1>3 DEF Inv, TypeOK, Ops
  <2>3. grants' \in 0 .. MaxGrants
    BY <1>1, <1>5 DEF Grants
  <2> QED
    BY <1>1, <2>1, <2>2, <2>3 DEF Inv, TypeOK
<1>12. (\A q \in Procs : Shape(op[q]))'
  <2>1. Shape(y)
    <3>1. CASE x.doing = "setup"
      BY <1>3, <1>4, <1>7, <1>8, <3>1 DEF Shape, Holding, OAuth
    <3>2. CASE x.doing = "reauth"
      BY <1>3, <1>4, <1>7, <1>8, <3>2 DEF Shape, Holding, OAuth
    <3> QED
      BY <1>4, <3>1, <3>2
  <2> QED
    BY <2>1, <1>10 DEF Inv
<1>13. KnownIds'
  BY <1>1, <1>3, <1>7, <1>10 DEF Inv, KnownIds
<1>14. \A t \in TokenSet : Known(t) => Known(t)' /\ t.grant # new
  BY <1>1, <1>5 DEF Known, TokenSet, Grants
<1>15. live[new] = 0
  BY <1>5 DEF Inv, KnownTokens
<1>16. /\ \A s \in Ids \X Roles : secret[s] # None => Known(secret[s]) /\ secret[s] \in TokenSet
       /\ \A q \in Procs : op[q].tok # None => Known(op[q].tok) /\ op[q].tok \in TokenSet
  BY <1>9 DEF Inv, KnownTokens, TypeOK, Ops
<1>17. KnownTokens'
  <2>1. Known(tok)'
    BY <1>1, <1>5, <1>8, <1>15 DEF Known
  <2>2. \A g \in Grants : grants' < g => live[g] = 0
    BY <1>1, <1>5 DEF Inv, KnownTokens, Grants
  <2> QED
    BY <2>1, <2>2, <1>1, <1>7, <1>10, <1>14, <1>16 DEF KnownTokens
<1>18. MadeForMethod'
  <2>1. madeFor'[new] = x.method /\ \A g \in Grants : g # new => madeFor'[g] = madeFor[g]
    BY <1>1, <1>5 DEF Inv, TypeOK
  <2>2. \A q \in Procs : op[q].tok # None => madeFor'[op[q].tok.grant] = madeFor[op[q].tok.grant]
    BY <2>1, <1>14, <1>16 DEF TokenSet
  <2> QED
    BY <2>1, <2>2, <1>7, <1>8, <1>10 DEF Inv, MadeForMethod
<1>19. FreshIsUnshared'
  <2> SUFFICES ASSUME NEW q \in Procs, Fresh(q)' PROVE
        (LET g == op[q].tok.grant IN
         /\ live[g] = 0
         /\ \A s \in Ids \X Roles : secret[s] # None => secret[s].grant # g
         /\ \A r \in Procs \ {q} : op[r].tok # None => op[r].tok.grant # g)'
    BY DEF FreshIsUnshared
  <2>1. CASE q = p
    BY <2>1, <1>1, <1>7, <1>8, <1>10, <1>14, <1>15, <1>16
  <2>2. CASE q # p
    <3>1. Fresh(q) /\ op'[q] = op[q] /\ op[q].tok # None
      BY <2>2, <1>10 DEF Fresh
    <3>2. op[q].tok.grant # new
      BY <3>1, <1>14, <1>16
    <3> QED
      BY <2>2, <3>1, <3>2, <1>1, <1>7, <1>8, <1>10 DEF Inv, FreshIsUnshared
  <2> QED
    BY <2>1, <2>2
<1>20. ~Bringing(p)' /\ ~Rotating(p)'
  BY <1>4, <1>7, <1>10 DEF Bringing, Rotating
<1>21. OthersAreSpent'
  <2> SUFFICES ASSUME NEW q \in Procs, q # p, Bringing(q)' PROVE
        (LET g == op[q].tok.grant IN
         /\ op[q].tok.n = live[g]
         /\ \A s \in Ids \X Roles :
              s[2] = "refresh" /\ secret[s] # None /\ secret[s].grant = g
                               => secret[s].n < live[g]
         /\ \A r \in Procs \ {q} : op[r].tok # None /\ op[r].tok.grant = g
                               => op[r].tok.n < live[g])'
    BY <1>20 DEF OthersAreSpent
  <2>1. Bringing(q) /\ op'[q] = op[q] /\ op[q].tok # None
    BY <1>10 DEF Inv, Shape, Bringing
  <2>2. op[q].tok.grant # new
    BY <2>1, <1>14, <1>16
  <2> QED
    BY <2>1, <2>2, <1>1, <1>7, <1>8, <1>10 DEF Inv, OthersAreSpent
<1>22. OneEntryPerGrant'
  BY <1>1, <1>10, <1>20 DEF Inv, OneEntryPerGrant, Rotating
<1>23. NoOrphanSecret'
  BY <1>1 DEF Inv, NoOrphanSecret, Exists
<1>24. TokensStayUsable'
  <2>1. \A q \in Procs, i \in Ids : \A g : Brings(q, i, g) => Brings(q, i, g)'
    BY <1>1, <1>10 DEF Brings
  <2> QED
    BY <2>1, <1>1 DEF Inv, TokensStayUsable
<1>25. NotSetIsTrue'
  BY <1>1, <1>4, <1>7, <1>10 DEF Inv, NotSetIsTrue, Exists
<1>26. StraysCameLate'
  <2>1. \A s \in Ids \X Roles : secret[s] # None => madeFor'[secret[s].grant] = madeFor[secret[s].grant]
    BY <1>1, <1>14, <1>16 DEF Inv, TypeOK, TokenSet
  <2> QED
    BY <2>1, <1>1 DEF Inv, StraysCameLate, NoStraySecret, FitsMethod, KindOf, Exists
<1> QED
  BY <1>11, <1>12, <1>13, <1>17, <1>18, <1>19, <1>21, <1>22, <1>23, <1>24, <1>25, <1>26 DEF Inv

(* The token a rotation has in hand, while the provider takes it, is nobody *)
(* else's to bring.                                                         *)
LEMMA NobodyElseBrings ==
  ASSUME Inv, NEW p \in Procs, op[p].step = "exchange",
         op[p].tok.n = live[op[p].tok.grant]
  PROVE  \A q \in Procs :
           /\ Fresh(q) => op[q].tok.grant # op[p].tok.grant
           /\ Bringing(q) => op[q].tok.grant # op[p].tok.grant
           /\ \A i : ~Brings(q, i, op[p].tok.grant)
<1> SUFFICES ASSUME NEW q \in Procs
             PROVE  /\ Fresh(q) => op[q].tok.grant # op[p].tok.grant
                    /\ Bringing(q) => op[q].tok.grant # op[p].tok.grant
                    /\ \A i : ~Brings(q, i, op[p].tok.grant)
  OBVIOUS
<1>1. op[p].tok # None /\ op[p].doing = "rotate" /\ op[p].tok.n \in Nat
  BY OpFacts DEF Shape, Ops, TokenSet
<1>2. Fresh(q) => op[q].tok.grant # op[p].tok.grant
  BY <1>1 DEF Inv, FreshIsUnshared, Fresh
<1>3. Bringing(q) => op[q].tok.grant # op[p].tok.grant
  BY <1>1 DEF Inv, OthersAreSpent, Bringing
<1>4. \A i : Brings(q, i, op[p].tok.grant) => Fresh(q) \/ Bringing(q)
  BY OpFacts DEF Brings, Fresh, Bringing, Shape
<1>5. \A i : Brings(q, i, op[p].tok.grant) => op[q].tok.grant = op[p].tok.grant
  BY DEF Brings
<1> QED
  BY <1>2, <1>3, <1>4, <1>5

(* The provider answers with an access token alone.                         *)
LEMMA ExchangeSameKeepsInv ==
  ASSUME Inv, NEW p \in Procs, op[p].step = "exchange",
         op[p].tok.n = live[op[p].tok.grant],
         madeFor[op[p].tok.grant] = op[p].method,
         UNCHANGED <<entry, lastId, secret, grants, live, madeFor, lost, late>>,
         Becomes(p, [op[p] EXCEPT !.step = "write"])
  PROVE  Inv'
<1> DEFINE x == op[p]
           o == [x EXCEPT !.step = "write"]
<1>1. x \in Ops /\ Shape(x) /\ (x.id # None => x.id <= lastId)
  BY OpFacts
<1>2. x.doing = "rotate" /\ x.tok # None /\ x.paired = FALSE /\ x.method # None /\ x.id # None
  BY <1>1 DEF Shape, Holding, Ops
<1>3. o \in Ops
  BY <1>1 DEF Ops, Steps
<1>4. /\ o.step = "write" /\ o.tok = x.tok /\ o.paired = FALSE /\ o.doing = "rotate"
      /\ o.id = x.id /\ o.method = x.method /\ o.role = x.role
  BY <1>1, <1>2 DEF Ops
<1>5. op \in [Procs -> Ops] /\ op' = [op EXCEPT ![p] = o]
  BY DEF Inv, TypeOK, Becomes
<1> HIDE DEF o
<1>6. op'[p] = o /\ \A q \in Procs : q # p => op'[q] = op[q]
  BY <1>5
<1>7. TypeOK'
  <2>1. op' \in [Procs -> Ops]
    BY <1>3, <1>5
  <2> QED
    BY <2>1 DEF Inv, TypeOK
<1>8. (\A q \in Procs : Shape(op[q]))'
  <2>1. Shape(o)
    BY <1>1, <1>2, <1>4 DEF Shape, Holding, OAuth
  <2> QED
    BY <2>1, <1>6 DEF Inv
<1>9. KnownIds' /\ KnownTokens'
  BY <1>1, <1>4, <1>6 DEF Inv, KnownIds, KnownTokens, Known
<1>10. MadeForMethod'
  BY <1>4, <1>6 DEF Inv, MadeForMethod
<1>11. \A q \in Procs : /\ Fresh(q)' <=> Fresh(q)
                        /\ Bringing(q)' <=> Bringing(q)
                        /\ Rotating(q)' <=> Rotating(q)
                        /\ op'[q].tok = op[q].tok
                        /\ op'[q].id = op[q].id
  BY <1>2, <1>4, <1>6 DEF Fresh, Bringing, Rotating
<1>12. FreshIsUnshared'
  BY <1>11 DEF Inv, FreshIsUnshared
<1>13. OthersAreSpent'
  BY <1>11 DEF Inv, OthersAreSpent
<1>14. OneEntryPerGrant'
  BY <1>11 DEF Inv, OneEntryPerGrant
<1>15. NoOrphanSecret' /\ StraysCameLate'
  BY DEF Inv, NoOrphanSecret, Exists, StraysCameLate, NoStraySecret, FitsMethod, KindOf
<1>16. TokensStayUsable'
  <2>1. \A q \in Procs, i \in Ids : \A g : Brings(q, i, g) => Brings(q, i, g)'
    BY <1>6 DEF Brings
  <2> QED
    BY <2>1 DEF Inv, TokensStayUsable
<1>17. NotSetIsTrue'
  BY <1>4, <1>6 DEF Inv, NotSetIsTrue, Exists
<1> QED
  BY <1>7, <1>8, <1>9, <1>10, <1>12, <1>13, <1>14, <1>15, <1>16, <1>17 DEF Inv

(* The provider spends the token and gives out the next one, which arrives  *)
(* or does not.                                                             *)
LEMMA ExchangeNextKeepsInv ==
  ASSUME Inv, NEW p \in Procs, op[p].step = "exchange",
         op[p].tok.n = live[op[p].tok.grant],
         madeFor[op[p].tok.grant] = op[p].method,
         op[p].tok.n < MaxRenewals,
         live' = [live EXCEPT ![op[p].tok.grant] = @ + 1],
         UNCHANGED <<entry, lastId, secret, grants, madeFor, late>>,
         \/ /\ Becomes(p, [op[p] EXCEPT !.step = "write", !.paired = TRUE,
                                        !.tok = Renewed(op[p].tok)])
            /\ UNCHANGED lost
         \/ /\ Becomes(p, Idle)
            /\ lost' = lost \union {op[p].tok.grant}
  PROVE  Inv'
<1> DEFINE x == op[p]
<1>0. PICK g : g = x.tok.grant
  OBVIOUS
<1>1. x \in Ops /\ Shape(x) /\ (x.id # None => x.id <= lastId)
  BY OpFacts
<1>2. x.doing = "rotate" /\ x.tok # None /\ x.method # None /\ x.id # None
  BY <1>1 DEF Shape, Holding
<1>3. x.tok \in TokenSet /\ g \in Grants /\ x.tok.n \in 0 .. MaxRenewals
  BY <1>0, <1>1, <1>2 DEF Ops, TokenSet
<1>4. live \in [Grants -> 0 .. MaxRenewals] /\ op \in [Procs -> Ops] /\ lost \subseteq Grants
  BY DEF Inv, TypeOK
<1>5. /\ live' \in [Grants -> 0 .. MaxRenewals]
      /\ live'[g] = live[g] + 1
      /\ \A h \in Grants : h # g => live'[h] = live[h]
  BY <1>0, <1>3, <1>4
<1>6. \A t \in TokenSet : Known(t) => /\ Known(t)'
                                      /\ t.grant = g => t.n < live'[g]
  BY <1>3, <1>4, <1>5 DEF Known, TokenSet
<1>7. /\ \A s \in Ids \X Roles : secret[s] # None => Known(secret[s]) /\ secret[s] \in TokenSet
      /\ \A q \in Procs : op[q].tok # None => Known(op[q].tok) /\ op[q].tok \in TokenSet
  BY <1>4 DEF Inv, KnownTokens, TypeOK, Ops
<1>8. \A q \in Procs : /\ Fresh(q) => op[q].tok.grant # g
                       /\ Bringing(q) => op[q].tok.grant # g
                       /\ \A i : ~Brings(q, i, g)
  BY <1>0, NobodyElseBrings
(* What the caller has become.                                              *)
<1>9. PICK o \in Ops :
        /\ op' = [op EXCEPT ![p] = o]
        /\ Shape(o)
        /\ \/ /\ o.step = "write" /\ o.doing = "rotate" /\ o.paired = TRUE
              /\ o.tok = [grant |-> g, n |-> live'[g]]
              /\ o.id = x.id /\ o.method = x.method
              /\ lost' = lost
           \/ o = Idle /\ lost' = lost \union {g}
  <2>1. CASE /\ Becomes(p, [x EXCEPT !.step = "write", !.paired = TRUE, !.tok = Renewed(x.tok)])
             /\ UNCHANGED lost
    <3> DEFINE o == [x EXCEPT !.step = "write", !.paired = TRUE, !.tok = Renewed(x.tok)]
    <3>1. Renewed(x.tok) = [grant |-> g, n |-> live'[g]]
      BY <1>0, <1>3, <1>5 DEF TokenSet, Renewed
    <3>2. Renewed(x.tok) \in TokenSet
      BY <3>1, <1>3, <1>5 DEF TokenSet
    <3>3. o \in Ops
      BY <1>1, <3>2 DEF Ops, Steps
    <3>4. /\ o.step = "write" /\ o.doing = "rotate" /\ o.paired = TRUE
          /\ o.tok = Renewed(x.tok) /\ o.role = x.role
          /\ o.id = x.id /\ o.method = x.method
      BY <1>1, <1>2 DEF Ops
    <3> HIDE DEF o
    <3>5. o.tok # None
      BY <3>2, <3>4
    <3>6. Shape(o)
      BY <1>1, <1>2, <3>4, <3>5 DEF Shape, Holding, OAuth
    <3>7. op' = [op EXCEPT ![p] = o]
      BY <2>1 DEF Becomes, o
    <3> QED
      BY <2>1, <3>1, <3>3, <3>4, <3>6, <3>7
  <2>2. CASE Becomes(p, Idle) /\ lost' = lost \union {x.tok.grant}
    <3>1. Idle \in Ops /\ Shape(Idle)
      BY DEF Idle, Ops, Steps, Doings, Choices, Shape, Holding
    <3> QED
      BY <2>2, <3>1, <1>0 DEF Becomes
  <2> QED
    BY <2>1, <2>2
<1>10. op'[p] = o /\ \A q \in Procs : q # p => op'[q] = op[q]
  BY <1>4, <1>9
<1>11. Idle.step = "idle" /\ Idle.doing = "use" /\ Idle.id = None /\ Idle.tok = None
  BY DEF Idle
<1>12. o.id = None \/ o.id = x.id
  BY <1>9, <1>11
<1>13. o.tok = None \/ /\ o.tok.grant = g /\ o.tok.n = live'[g]
                       /\ o.doing = "rotate" /\ o.step = "write" /\ o.id = x.id
                       /\ o.method = x.method
  BY <1>9, <1>11
<1>14. ~Fresh(p)' /\ (Rotating(p)' => Rotating(p) /\ op'[p].tok.grant = g /\ op'[p].id = x.id)
  BY <1>2, <1>9, <1>10, <1>11 DEF Fresh, Rotating
<1>15. TypeOK'
  <2>1. op' \in [Procs -> Ops]
    BY <1>4, <1>9
  <2>2. lost' \subseteq Grants
    BY <1>3, <1>4, <1>9
  <2> QED
    BY <2>1, <2>2, <1>5 DEF Inv, TypeOK
<1>16. (\A q \in Procs : Shape(op[q]))'
  BY <1>9, <1>10 DEF Inv
<1>17. KnownIds'
  BY <1>1, <1>10, <1>12 DEF Inv, KnownIds
<1>18. KnownTokens'
  <2>1. g <= grants
    BY <1>0, <1>2, <1>7 DEF Known
  <2>2. o.tok # None => Known(o.tok)'
    BY <2>1, <1>5, <1>3, <1>13 DEF Known
  <2>3. \A h \in Grants : grants < h => live'[h] = 0
    BY <2>1, <1>3, <1>5 DEF Inv, KnownTokens, TypeOK, Grants
  <2> QED
    BY <2>2, <2>3, <1>6, <1>7, <1>10 DEF KnownTokens
<1>19. MadeForMethod'
  BY <1>0, <1>10, <1>13 DEF Inv, MadeForMethod
<1>20. FreshIsUnshared'
  <2> SUFFICES ASSUME NEW q \in Procs, Fresh(q)' PROVE
        (LET h == op[q].tok.grant IN
         /\ live[h] = 0
         /\ \A s \in Ids \X Roles : secret[s] # None => secret[s].grant # h
         /\ \A r \in Procs \ {q} : op[r].tok # None => op[r].tok.grant # h)'
    BY DEF FreshIsUnshared
  <2>1. q # p /\ op'[q] = op[q] /\ Fresh(q) /\ op[q].tok \in TokenSet
    BY <1>7, <1>10, <1>14 DEF Fresh
  <2>2. op[q].tok.grant # g /\ op[q].tok.grant \in Grants
    BY <2>1, <1>8 DEF TokenSet
  <2>3. live'[op[q].tok.grant] = 0
    BY <2>1, <2>2, <1>5 DEF Inv, FreshIsUnshared
  <2>4. \A r \in Procs \ {q} : op'[r].tok # None => op'[r].tok.grant # op[q].tok.grant
    BY <2>1, <2>2, <1>10, <1>13 DEF Inv, FreshIsUnshared
  <2>5. \A s \in Ids \X Roles : secret[s] # None => secret[s].grant # op[q].tok.grant
    BY <2>1 DEF Inv, FreshIsUnshared
  <2> QED
    BY <2>1, <2>3, <2>4, <2>5
<1>21. OthersAreSpent'
  <2> SUFFICES ASSUME NEW q \in Procs, Bringing(q)' PROVE
        (LET h == op[q].tok.grant IN
         /\ op[q].tok.n = live[h]
         /\ \A s \in Ids \X Roles :
              s[2] = "refresh" /\ secret[s] # None /\ secret[s].grant = h
                               => secret[s].n < live[h]
         /\ \A r \in Procs \ {q} : op[r].tok # None /\ op[r].tok.grant = h
                               => op[r].tok.n < live[h])'
    BY DEF OthersAreSpent
  <2>1. CASE q = p
    <3>1. op'[p] = o /\ o.tok # None /\ o.tok.grant = g /\ o.tok.n = live'[g]
      BY <2>1, <1>9, <1>10, <1>11, <1>13, <1>16 DEF Bringing, Shape
    <3> QED
      BY <2>1, <3>1, <1>6, <1>7, <1>10
  <2>2. CASE q # p
    <3>1. op'[q] = op[q] /\ Bringing(q) /\ op[q].tok # None
      BY <2>2, <1>10 DEF Inv, Shape, Bringing
    <3>2. op[q].tok.grant # g /\ op[q].tok.grant \in Grants
      BY <3>1, <1>7, <1>8 DEF TokenSet
    <3>3. live'[op[q].tok.grant] = live[op[q].tok.grant]
      BY <3>2, <1>5
    <3>4. \A r \in Procs \ {q} : op'[r].tok # None /\ op'[r].tok.grant = op[q].tok.grant
                                 => op'[r].tok.n < live[op[q].tok.grant]
      BY <3>1, <3>2, <1>10, <1>13 DEF Inv, OthersAreSpent
    <3> QED
      BY <3>1, <3>3, <3>4 DEF Inv, OthersAreSpent
  <2> QED
    BY <2>1, <2>2
<1>22. OneEntryPerGrant'
  <2>1. Rotating(p)
    BY <1>2 DEF Rotating
  <2>2. \A q \in Procs : Rotating(q)' => /\ Rotating(q)
                                         /\ op'[q].tok.grant = op[q].tok.grant
                                         /\ op'[q].id = op[q].id
    BY <1>0, <1>10, <1>14 DEF Rotating
  <2> QED
    BY <2>1, <2>2 DEF Inv, OneEntryPerGrant
<1>23. NoOrphanSecret' /\ StraysCameLate'
  BY DEF Inv, NoOrphanSecret, Exists, StraysCameLate, NoStraySecret, FitsMethod, KindOf
<1>24. TokensStayUsable'
  <2> SUFFICES ASSUME NEW s \in Ids \X Roles, s[2] = "refresh", secret'[s] # None
               PROVE  (\/ secret[s].n = live[secret[s].grant]
                       \/ secret[s].grant \in lost
                       \/ \E q \in Procs : Brings(q, s[1], secret[s].grant))'
    BY DEF TokensStayUsable
  <2>1. secret[s] # None /\ secret[s].grant \in Grants
    BY <1>7 DEF TokenSet
  <2>2. CASE secret[s].grant = g
    <3>1. CASE o = Idle /\ lost' = lost \union {g}
      BY <2>2, <3>1
    <3>2. CASE o.step = "write" /\ o.paired = TRUE /\ o.tok = [grant |-> g, n |-> live'[g]]
               /\ o.id = x.id
      <4>1. x.id = s[1]
        BY <1>0, <1>2, <2>1, <2>2 DEF Inv, OneEntryPerGrant, Rotating
      <4>2. Brings(p, s[1], secret[s].grant)'
        BY <2>2, <3>2, <4>1, <1>10 DEF Brings
      <4> QED
        BY <4>2
    <3> QED
      BY <1>9, <3>1, <3>2
  <2>3. CASE secret[s].grant # g
    <3>1. live'[secret[s].grant] = live[secret[s].grant]
      BY <2>1, <2>3, <1>5
    <3>2. \A q \in Procs : Brings(q, s[1], secret[s].grant) => Brings(q, s[1], secret[s].grant)'
      <4>1. ~Brings(p, s[1], secret[s].grant)
        BY DEF Brings
      <4> QED
        BY <3>1, <4>1, <1>10 DEF Brings
    <3>3. lost \subseteq lost'
      BY <1>9
    <3> QED
      BY <2>1, <3>1, <3>2, <3>3 DEF Inv, TokensStayUsable
  <2> QED
    BY <2>2, <2>3
<1>25. NotSetIsTrue'
  <2>1. o.step # "missing"
    BY <1>9, <1>11
  <2> QED
    BY <2>1, <1>10 DEF Inv, NotSetIsTrue, Exists
<1> QED
  BY <1>15, <1>16, <1>17, <1>18, <1>19, <1>20, <1>21, <1>22, <1>23, <1>24, <1>25 DEF Inv

LEMMA ExchangeKeepsInv == ASSUME Inv, NEW p \in Procs, Exchange(p) PROVE Inv'
<1>1. /\ op[p].step = "exchange"
      /\ op[p].tok.n = live[op[p].tok.grant]
      /\ madeFor[op[p].tok.grant] = op[p].method
      /\ UNCHANGED <<entry, lastId, secret, grants, madeFor, late>>
  BY DEF Exchange, storeVars
<1>2. CASE Becomes(p, [op[p] EXCEPT !.step = "write"]) /\ UNCHANGED <<live, lost>>
  BY <1>1, <1>2, ExchangeSameKeepsInv
<1>3. CASE /\ op[p].tok.n < MaxRenewals
           /\ live' = [live EXCEPT ![op[p].tok.grant] = @ + 1]
           /\ \/ /\ Becomes(p, [op[p] EXCEPT !.step = "write", !.paired = TRUE,
                                             !.tok = Renewed(op[p].tok)])
                 /\ UNCHANGED lost
              \/ /\ Becomes(p, Idle)
                 /\ lost' = lost \union {op[p].tok.grant}
  BY <1>1, <1>3, ExchangeNextKeepsInv
<1> QED
  BY <1>2, <1>3 DEF Exchange

(* The grant in hand of a caller that is about to store it, against what is *)
(* stored and what the others have.                                         *)
LEMMA StoringFacts ==
  ASSUME Inv, NEW p \in Procs, op[p].tok # None,
         op[p].step = "write" \/ (op[p].step = "put" /\ op[p].doing = "setup")
  PROVE  /\ op[p].tok \in TokenSet
         /\ madeFor[op[p].tok.grant] = op[p].method
         /\ op[p].paired => op[p].tok.n = live[op[p].tok.grant]
         /\ op[p].step = "put" => op[p].tok.n = live[op[p].tok.grant]
         /\ \A q \in Procs \ {p} :
              /\ Fresh(q) => op[q].tok.grant # op[p].tok.grant
              /\ Bringing(q) /\ op[q].tok.grant = op[p].tok.grant
                          => op[p].tok.n < live[op[p].tok.grant]
              /\ Rotating(q) /\ op[q].tok.grant = op[p].tok.grant => op[q].id = op[p].id
<1> DEFINE x == op[p]
<1>1. x \in Ops /\ Shape(x)
  BY OpFacts
<1>2. x.tok \in TokenSet /\ Known(x.tok) /\ x.tok.grant \in Grants /\ x.tok.n \in Nat
  BY <1>1 DEF Ops, TokenSet, Inv, KnownTokens
<1>3. madeFor[x.tok.grant] = x.method
  BY DEF Inv, MadeForMethod
<1>4. Fresh(p) \/ (x.step = "write" /\ Rotating(p))
  BY <1>1 DEF Fresh, Rotating, Shape
<1>5. \A q \in Procs \ {p} :
              /\ Fresh(q) => op[q].tok.grant # x.tok.grant
              /\ Bringing(q) /\ op[q].tok.grant = x.tok.grant
                          => x.tok.n < live[x.tok.grant]
  BY DEF Inv, FreshIsUnshared, OthersAreSpent
<1>6. Fresh(p) => x.tok.n = live[x.tok.grant]
  BY <1>2 DEF Inv, FreshIsUnshared, Known
<1>7. x.paired /\ Rotating(p) /\ x.step = "write" => x.tok.n = live[x.tok.grant]
  BY DEF Inv, OthersAreSpent, Bringing, Rotating
<1>8. x.step = "put" => Fresh(p)
  BY <1>4
<1>9. \A q \in Procs \ {p} : Rotating(q) /\ op[q].tok.grant = x.tok.grant => op[q].id = x.id
  <2>1. CASE Fresh(p)
    BY <2>1 DEF Inv, FreshIsUnshared, Rotating
  <2>2. CASE Rotating(p)
    BY <2>2 DEF Inv, OneEntryPerGrant
  <2> QED
    BY <1>4, <2>1, <2>2
<1> QED
  BY <1>2, <1>3, <1>4, <1>5, <1>6, <1>7, <1>8, <1>9

(* A step that stores what p has in hand, and after which p does no more    *)
(* than clear a secret.                                                     *)
Stores(p) ==
  /\ op[p].step = "write" \/ (op[p].step = "put" /\ op[p].doing = "setup")
  /\ UNCHANGED <<grants, live, madeFor, lost>>
  /\ entry' # None
  /\ entry'.id <= lastId' /\ lastId <= lastId'
  /\ \A i \in Ids : i <= lastId => (Exists(i)' => Exists(i))
  /\ \A s \in Ids \X Roles : secret'[s] # None =>
       \/ secret'[s] = secret[s]
       \/ /\ op[p].tok # None /\ secret'[s] = op[p].tok
          /\ s[1] = entry'.id
          /\ op[p].step = "write" => s[1] = op[p].id
          /\ s[2] = "refresh" => op[p].paired \/ op[p].step = "put"
  /\ op'[p] \in Ops /\ op' = [op EXCEPT ![p] = op'[p]]
  /\ Shape(op'[p])
  /\ op'[p].step \in {"idle", "clear"}
  /\ op'[p].doing \in {"use", "setup"}
  /\ op'[p].id # None => op'[p].id <= lastId'
  /\ op'[p].tok # None => op'[p].tok = op[p].tok

LEMMA StoringKeepsInv ==
  ASSUME Inv, NEW p \in Procs, Stores(p),
         TypeOK', NoOrphanSecret', StraysCameLate',
         op[p].step = "write" /\ op[p].paired =>
           \A s \in Ids \X Roles : s[1] = op[p].id /\ s[2] = "refresh" /\ secret'[s] # None
                                   => secret'[s] = op[p].tok
  PROVE  Inv'
<1> DEFINE x == op[p]
<1>1. x.tok # None =>
         /\ x.tok \in TokenSet /\ Known(x.tok)
         /\ x.paired \/ x.step = "put" => x.tok.n = live[x.tok.grant]
         /\ \A q \in Procs \ {p} :
              /\ Fresh(q) => op[q].tok.grant # x.tok.grant
              /\ Bringing(q) /\ op[q].tok.grant = x.tok.grant => x.tok.n < live[x.tok.grant]
              /\ Rotating(q) /\ op[q].tok.grant = x.tok.grant => op[q].id = x.id
  BY StoringFacts DEF Stores, Inv, KnownTokens
<1>2. \A s \in Ids \X Roles : secret'[s] # None =>
       \/ secret'[s] = secret[s]
       \/ /\ x.tok # None /\ secret'[s] = x.tok
          /\ s[1] = entry'.id
          /\ x.step = "write" => s[1] = x.id
          /\ s[2] = "refresh" => x.paired \/ x.step = "put"
  BY DEF Stores
<1>3. UNCHANGED <<grants, live, madeFor, lost>> /\ op \in [Procs -> Ops]
  BY DEF Stores, Inv, TypeOK
<1>4. \A q \in Procs : q # p => op'[q] = op[q]
  BY <1>3 DEF Stores
<1>5. op'[p].tok # None => op'[p].tok = x.tok
  BY DEF Stores
<1>6. (\A q \in Procs : Shape(op[q]))'
  BY <1>4 DEF Inv, Stores
<1>7. lastId \in Nat /\ lastId' \in Nat
  BY DEF Inv, TypeOK
<1>8. KnownIds'
  <2>1. \A q \in Procs : op'[q].id # None => op'[q].id <= lastId'
    <3> TAKE q \in Procs
    <3>1. CASE q = p
      BY <3>1 DEF Stores
    <3>2. CASE q # p
      <4>1. op'[q].id = op[q].id /\ (op[q].id # None => op[q].id \in Ids)
        BY <3>2, <1>3, <1>4 DEF Ops
      <4> QED
        BY <4>1, <1>7 DEF Inv, KnownIds, Stores, Ids
    <3> QED
      BY <3>1, <3>2
  <2> QED
    BY <2>1 DEF KnownIds, Stores
<1>9. KnownTokens'
  BY <1>1, <1>2, <1>3, <1>4, <1>5 DEF Inv, KnownTokens, Known
<1>10. \A q \in Procs : /\ Fresh(q)' => q # p /\ Fresh(q) /\ op'[q] = op[q]
                        /\ Bringing(q)' => q # p /\ Bringing(q) /\ op'[q] = op[q]
                        /\ Rotating(q)' => q # p /\ Rotating(q) /\ op'[q] = op[q]
  BY <1>4 DEF Stores, Fresh, Bringing, Rotating
<1>11. MadeForMethod'
  BY <1>3, <1>4 DEF Inv, MadeForMethod, Stores
<1>12. FreshIsUnshared'
  <2> SUFFICES ASSUME NEW q \in Procs, Fresh(q)' PROVE
        (LET g == op[q].tok.grant IN
         /\ live[g] = 0
         /\ \A s \in Ids \X Roles : secret[s] # None => secret[s].grant # g
         /\ \A r \in Procs \ {q} : op[r].tok # None => op[r].tok.grant # g)'
    BY DEF FreshIsUnshared
  <2>1. q # p /\ Fresh(q) /\ op'[q] = op[q]
    BY <1>10
  <2>2. \A s \in Ids \X Roles : secret'[s] # None => secret'[s].grant # op[q].tok.grant
    BY <2>1, <1>1, <1>2 DEF Inv, FreshIsUnshared
  <2>3. \A r \in Procs \ {q} : op'[r].tok # None => op'[r].tok.grant # op[q].tok.grant
    BY <2>1, <1>4, <1>5 DEF Inv, FreshIsUnshared
  <2> QED
    BY <2>1, <2>2, <2>3, <1>3 DEF Inv, FreshIsUnshared
<1>13. OthersAreSpent'
  <2> SUFFICES ASSUME NEW q \in Procs, Bringing(q)' PROVE
        (LET g == op[q].tok.grant IN
         /\ op[q].tok.n = live[g]
         /\ \A s \in Ids \X Roles :
              s[2] = "refresh" /\ secret[s] # None /\ secret[s].grant = g
                               => secret[s].n < live[g]
         /\ \A r \in Procs \ {q} : op[r].tok # None /\ op[r].tok.grant = g
                               => op[r].tok.n < live[g])'
    BY DEF OthersAreSpent
  <2>1. q # p /\ Bringing(q) /\ op'[q] = op[q]
    BY <1>10
  <2>2. \A s \in Ids \X Roles :
          s[2] = "refresh" /\ secret'[s] # None /\ secret'[s].grant = op[q].tok.grant
            => secret'[s].n < live[op[q].tok.grant]
    BY <2>1, <1>1, <1>2 DEF Inv, OthersAreSpent
  <2>3. \A r \in Procs \ {q} : op'[r].tok # None /\ op'[r].tok.grant = op[q].tok.grant
            => op'[r].tok.n < live[op[q].tok.grant]
    BY <2>1, <1>4, <1>5 DEF Inv, OthersAreSpent
  <2> QED
    BY <2>1, <2>2, <2>3, <1>3 DEF Inv, OthersAreSpent
<1>14. OneEntryPerGrant'
  <2> SUFFICES ASSUME NEW q \in Procs, Rotating(q)' PROVE
        (LET g == op[q].tok.grant IN
         /\ \A s \in Ids \X Roles : secret[s] # None /\ secret[s].grant = g => s[1] = op[q].id
         /\ \A r \in Procs : Rotating(r) /\ op[r].tok.grant = g => op[r].id = op[q].id)'
    BY DEF OneEntryPerGrant
  <2>1. q # p /\ Rotating(q) /\ op'[q] = op[q]
    BY <1>10
  <2>2. x.tok # None /\ x.step = "put" => op[q].tok.grant # x.tok.grant
    BY <2>1 DEF Inv, FreshIsUnshared, Fresh, Rotating, Stores
  <2>3. \A s \in Ids \X Roles : secret'[s] # None /\ secret'[s].grant = op[q].tok.grant => s[1] = op[q].id
    <3> SUFFICES ASSUME NEW s \in Ids \X Roles, secret'[s] # None, secret'[s].grant = op[q].tok.grant
                 PROVE  s[1] = op[q].id
      OBVIOUS
    <3>1. CASE secret'[s] = secret[s]
      BY <3>1, <2>1 DEF Inv, OneEntryPerGrant
    <3>2. CASE x.tok # None /\ secret'[s] = x.tok /\ (x.step = "write" => s[1] = x.id)
      <4>1. x.step = "write"
        BY <3>2, <2>2 DEF Stores
      <4> QED
        BY <3>2, <4>1, <2>1, <1>1
    <3> QED
      BY <3>1, <3>2, <1>2
  <2>4. \A r \in Procs : Rotating(r)' /\ op'[r].tok.grant = op[q].tok.grant => op'[r].id = op[q].id
    BY <2>1, <1>10 DEF Inv, OneEntryPerGrant
  <2> QED
    BY <2>1, <2>3, <2>4
<1>15. TokensStayUsable'
  <2> SUFFICES ASSUME NEW s \in Ids \X Roles, s[2] = "refresh", secret'[s] # None
               PROVE  (\/ secret[s].n = live[secret[s].grant]
                       \/ secret[s].grant \in lost
                       \/ \E q \in Procs : Brings(q, s[1], secret[s].grant))'
    BY DEF TokensStayUsable
  <2>1. CASE secret'[s] = secret[s] /\ secret[s] # op[p].tok
    <3>1. \/ secret[s].n = live[secret[s].grant]
          \/ secret[s].grant \in lost
          \/ \E q \in Procs : Brings(q, s[1], secret[s].grant)
      BY <2>1 DEF Inv, TokensStayUsable
    <3>2. ~Brings(p, s[1], secret[s].grant)
      BY <2>1 DEF Brings
    <3>3. \A q \in Procs \ {p} : Brings(q, s[1], secret[s].grant)
                                 => Brings(q, s[1], secret[s].grant)'
      BY <2>1, <1>3, <1>4 DEF Brings
    <3> QED
      BY <2>1, <3>1, <3>2, <3>3, <1>3
  <2>2. CASE secret'[s] = x.tok /\ x.tok # None /\ (x.paired \/ x.step = "put")
    BY <2>2, <1>1, <1>3
  <2>3. CASE secret'[s] = secret[s] /\ secret[s] = x.tok /\ ~(x.paired \/ x.step = "put")
    <3>1. \/ secret[s].n = live[secret[s].grant]
          \/ secret[s].grant \in lost
          \/ \E q \in Procs : Brings(q, s[1], secret[s].grant)
      BY <2>3 DEF Inv, TokensStayUsable
    <3>2. \A q \in Procs : Brings(q, s[1], secret[s].grant)
                           => Brings(q, s[1], secret[s].grant)'
      BY <2>3, <1>3, <1>4 DEF Brings
    <3> QED
      BY <2>3, <3>1, <3>2, <1>3
  <2> QED
    BY <2>1, <2>2, <2>3, <1>2
<1>16. NotSetIsTrue'
  <2> SUFFICES ASSUME NEW q \in Procs, op'[q].step = "missing", Exists(op[q].id)'
               PROVE  op'[q].existed
    BY DEF NotSetIsTrue
  <2>1. q # p
    BY DEF Stores
  <2>2. op'[q] = op[q] /\ Shape(op[q]) /\ op[q] \in Ops
    BY <2>1, <1>4, OpFacts
  <2>3. op[q].id \in Ids /\ op[q].id <= lastId
    BY <2>2, OpFacts DEF Shape, Holding, Ops
  <2>4. \A i \in Ids : i = op[q].id => Exists(i)'
    BY <2>2 DEF Exists
  <2>5. \A i \in Ids : i = op[q].id => Exists(i)
    BY <2>3, <2>4 DEF Stores
  <2>6. Exists(op[q].id)
    BY <2>3, <2>5
  <2> QED
    BY <2>2, <2>6 DEF Inv, NotSetIsTrue
<1> QED
  BY <1>6, <1>8, <1>9, <1>11, <1>12, <1>13, <1>14, <1>15, <1>16 DEF Inv

LEMMA WriteKeepsInv == ASSUME Inv, NEW p \in Procs, Write(p) PROVE Inv'
<1> DEFINE x == op[p]
<1>1. /\ x.step = "write"
      /\ secret' = IF Exists(x.id) THEN Upsert(secret, x.id, NewTokens(x)) ELSE secret
      /\ Becomes(p, Idle)
      /\ late' = (late \/ (Exists(x.id) /\ entry.method # x.method))
      /\ UNCHANGED <<entry, lastId, grants, live, madeFor, lost>>
  BY DEF Write, WriteSecrets
<1>2. x \in Ops /\ Shape(x) /\ x.tok # None /\ x.id # None /\ OAuth(x.method)
  BY <1>1, OpFacts DEF Shape, Holding
<1>3. /\ op' \in [Procs -> Ops] /\ op'[p] = Idle
      /\ \A q \in Procs : q # p => op'[q] = op[q]
  BY <1>1, BecomesIdle
<1>4. secret \in [Ids \X Roles -> TokenSet \union {None}] /\ lost \subseteq Grants
  BY DEF Inv, TypeOK
<1>5. CASE ~Exists(x.id)
  <2>1. secret' = secret /\ late' = late
    BY <1>1, <1>5 DEF Inv, TypeOK
  <2>2. NoOrphanSecret'
    BY <1>1, <2>1 DEF Inv, NoOrphanSecret, Exists
  <2>3. \A q \in Procs, i \in Ids, g \in Grants :
          Brings(q, i, g) => op'[q] = op[q] \/ g \in lost' \/ ~Exists(i)'
    <3>1. \A i \in Ids : i = x.id => ~Exists(i)'
      BY <1>1, <1>5 DEF Exists
    <3> QED
      BY <3>1, <1>3 DEF Brings
  <2>4. \A q \in Procs : op'[q] = op[q] \/ op'[q] = Idle
    BY <1>3
  <2> QED
    BY <1>1, <1>3, <1>4, <2>1, <2>2, <2>3, <2>4, ShrinkKeepsInv
<1>6. CASE Exists(x.id)
  <2>1. entry # None /\ entry.id = x.id
    BY <1>6 DEF Exists
  <2>2. \A s \in Ids \X Roles :
          \/ secret'[s] = secret[s]
          \/ secret'[s] = x.tok /\ s[1] = x.id /\ s[2] \in {"access", "refresh"}
             /\ (s[2] = "refresh" => x.paired)
    BY <1>1, <1>6 DEF Upsert, NewTokens
  <2>3. x.paired => \A s \in Ids \X Roles : s[1] = x.id /\ s[2] = "refresh" => secret'[s] = x.tok
    BY <1>1, <1>6 DEF Upsert, NewTokens
  <2>4. x.tok \in TokenSet /\ madeFor[x.tok.grant] = x.method
    BY <1>1, <1>2, StoringFacts
  <2>5. secret' \in [Ids \X Roles -> TokenSet \union {None}]
    <3>1. secret' = [s \in Ids \X Roles |-> secret'[s]]
      BY <1>1, <1>6 DEF Upsert
    <3>2. \A s \in Ids \X Roles : secret'[s] \in TokenSet \union {None}
      BY <1>4, <2>2, <2>4
    <3> QED
      BY <3>1, <3>2
  <2>6. late' \in BOOLEAN
    BY <1>1
  <2>7. TypeOK'
    BY <1>1, <1>3, <2>5, <2>6 DEF Inv, TypeOK
  <2>8. NoOrphanSecret'
    BY <1>1, <2>1, <2>2 DEF Inv, NoOrphanSecret, Exists
  <2>9. StraysCameLate'
    <3>1. CASE late \/ entry.method # x.method
      BY <3>1, <1>1, <1>6 DEF StraysCameLate
    <3>2. CASE ~late /\ entry.method = x.method
      <4>1. NoStraySecret
        BY <3>2 DEF Inv, StraysCameLate
      <4>2. {"access", "refresh"} \subseteq RolesOf[KindOf(entry)]
        BY <3>2, <1>2 DEF OAuth, KindOf, RolesOf
      <4>3. NoStraySecret'
        <5> SUFFICES ASSUME NEW s \in Ids \X Roles, secret'[s] # None, Exists(s[1])'
                     PROVE  FitsMethod(s[2], secret[s])'
          BY DEF NoStraySecret
        <5>1. Exists(s[1])
          BY <1>1 DEF Exists
        <5>2. CASE secret'[s] = secret[s]
          BY <5>1, <5>2, <4>1, <1>1 DEF NoStraySecret, FitsMethod, KindOf
        <5>3. CASE secret'[s] = x.tok /\ s[2] \in {"access", "refresh"}
          BY <5>3, <4>2, <3>2, <2>4, <1>1 DEF FitsMethod, KindOf
        <5> QED
          BY <5>2, <5>3, <2>2
      <4> QED
        BY <4>3 DEF StraysCameLate
    <3> QED
      BY <3>1, <3>2 DEF Inv, TypeOK
  <2>10. Stores(p)
    <3>1. /\ Idle.step = "idle" /\ Idle.doing = "use" /\ Idle.id = None /\ Idle.tok = None
          /\ Shape(Idle)
      BY DEF Idle, Shape, Holding
    <3>2. entry.id <= lastId /\ lastId \in Nat /\ lastId <= lastId
      BY <2>1, EntryFacts DEF Inv, TypeOK
    <3>3. op' = [op EXCEPT ![p] = op'[p]]
      BY <1>1, <1>3 DEF Becomes
    <3>4. op'[p] \in Ops
      BY <1>3
    <3>5. \A i \in Ids : Exists(i)' => Exists(i)
      BY <1>1 DEF Exists
    <3>6. \A s \in Ids \X Roles : secret'[s] # None =>
            \/ secret'[s] = secret[s]
            \/ /\ x.tok # None /\ secret'[s] = x.tok
               /\ s[1] = entry'.id
               /\ x.step = "write" => s[1] = x.id
               /\ s[2] = "refresh" => x.paired \/ x.step = "put"
      BY <1>1, <1>2, <2>1, <2>2
    <3> QED
      BY <1>1, <1>3, <2>1, <3>1, <3>2, <3>3, <3>4, <3>5, <3>6 DEF Stores
  <2> QED
    BY <2>3, <2>7, <2>8, <2>9, <2>10, StoringKeepsInv
<1> QED
  BY <1>5, <1>6

(* What is given to Put.                                                    *)
LEMMA GivenFacts ==
  ASSUME NEW o \in Ops, o.method \in Methods, NEW blank \in BOOLEAN,
         OAuth(o.method) \/ o.choice = "set" => o.tok # None
  PROVE  \A r \in DOMAIN Given(o, blank) :
           /\ Given(o, blank)[r] = o.tok
           /\ o.tok # None
           /\ r \in RolesOf[Kind[o.method]]
           /\ r = "refresh" => o.paired
<1>1. CASE OAuth(o.method)
  <2>1. RolesOf[Kind[o.method]] = {"access", "refresh", "client"}
    BY <1>1 DEF OAuth, RolesOf
  <2> QED
    BY <1>1, <2>1 DEF Given
<1>2. CASE ~OAuth(o.method)
  <2>1. Kind[o.method] \in {"basic", "apikey", "signing", "raw", "oauth2"}
    BY DEF RolesOf
  <2>2. MainRole[Kind[o.method]] \in RolesOf[Kind[o.method]]
    BY <2>1 DEF MainRole, RolesOf
  <2>3. MainRole[Kind[o.method]] # "refresh"
    BY RoleFacts
  <2> QED
    BY <1>2, <2>2, <2>3 DEF Given
<1> QED
  BY <1>1, <1>2

(* A Put keeps a secret only when the method stays, and writes the given    *)
(* ones: the two branches of Put alike.                                     *)
LEMMA PutFacts ==
  ASSUME Inv, NEW method \in Methods, NEW given, Put(method, given)
  PROVE  /\ entry' \in Entries /\ entry' # None
         /\ entry'.method = method
         /\ lastId' \in 0 .. MaxIds
         /\ entry'.id <= lastId' /\ lastId <= lastId'
         /\ \A i \in Ids : i <= lastId => (Exists(i)' => Exists(i))
         /\ secret' = [s \in Ids \X Roles |-> secret'[s]]
         /\ \A s \in Ids \X Roles : secret'[s] # None =>
              \/ /\ secret'[s] = secret[s] /\ s[1] = entry'.id
                 /\ entry # None /\ entry.id = entry'.id /\ entry.method = method
              \/ /\ s[2] \in DOMAIN given /\ secret'[s] = given[s[2]]
                 /\ s[1] = entry'.id
<1>1. lastId \in 0 .. MaxIds /\ entry \in Entries \union {None} /\ secret = [s \in Ids \X Roles |-> secret[s]]
  BY DEF Inv, TypeOK
<1>2. CASE /\ entry = None /\ lastId < MaxIds /\ lastId' = NewId
           /\ entry' = [id |-> NewId, method |-> method]
           /\ secret' = Upsert(secret, NewId, given)
  <2>1. NewId \in Ids /\ NewId = lastId + 1
    BY <1>1, <1>2 DEF NewId, Ids
  <2>2. entry' \in Entries /\ entry'.id = NewId /\ entry'.method = method
    BY <1>2, <2>1 DEF Entries
  <2>3. \A s \in Ids \X Roles : secret[s] = None
    BY <1>2 DEF Inv, NoOrphanSecret, Exists
  <2>4. \A i \in Ids : i <= lastId => ~Exists(i)'
    BY <1>1, <2>1, <2>2 DEF Exists
  <2>5. \A s \in Ids \X Roles : secret'[s] # None =>
          s[2] \in DOMAIN given /\ secret'[s] = given[s[2]] /\ s[1] = NewId
    BY <1>2, <2>3 DEF Upsert
  <2>6. secret' = [s \in Ids \X Roles |-> secret'[s]]
    BY <1>2 DEF Upsert
  <2>7. lastId' \in 0 .. MaxIds /\ NewId <= lastId' /\ lastId <= lastId'
    BY <1>1, <1>2, <2>1
  <2>8. entry' # None
    BY <2>2
  <2> QED
    BY <2>2, <2>4, <2>5, <2>6, <2>7, <2>8
<1>3. CASE /\ entry # None
           /\ entry' = [entry EXCEPT !.method = method]
           /\ secret' = Upsert(Switched(method), entry.id, given)
           /\ UNCHANGED lastId
  <2>1. entry \in Entries /\ entry.id <= lastId
    BY <1>1, <1>3, EntryFacts
  <2>2. entry' \in Entries /\ entry'.id = entry.id /\ entry'.method = method
    BY <1>3, <2>1 DEF Entries
  <2>3. entry' # None
    BY <2>2
  <2>4. \A i \in Ids : Exists(i)' => Exists(i)
    BY <1>3, <2>2 DEF Exists
  <2>5. \A s \in Ids \X Roles : secret[s] # None => s[1] = entry.id
    BY DEF Inv, NoOrphanSecret, Exists
  <2>6. \A s \in Ids \X Roles : Switched(method)[s] # None =>
          secret[s] = Switched(method)[s] /\ s[1] = entry.id /\ entry.method = method
    BY <2>5 DEF Switched, Wipe
  <2>7. \A s \in Ids \X Roles :
          \/ secret'[s] = Switched(method)[s]
          \/ s[2] \in DOMAIN given /\ secret'[s] = given[s[2]] /\ s[1] = entry.id
    BY <1>3 DEF Upsert
  <2>8. secret' = [s \in Ids \X Roles |-> secret'[s]]
    BY <1>3 DEF Upsert
  <2>9. lastId' \in 0 .. MaxIds /\ lastId <= lastId' /\ entry'.id <= lastId'
    BY <1>1, <1>3, <2>1, <2>2
  <2> QED
    BY <1>3, <2>2, <2>3, <2>4, <2>6, <2>7, <2>8, <2>9
<1> QED
  BY <1>2, <1>3 DEF Put

LEMMA SetupPutKeepsInv == ASSUME Inv, NEW p \in Procs, SetupPut(p) PROVE Inv'
<1> DEFINE x == op[p]
<1>1. /\ x.step = "put"
      /\ UNCHANGED <<grants, live, madeFor, lost, late>>
      /\ Becomes(p, IF x.choice = "clear" THEN [x EXCEPT !.step = "clear", !.id = entry'.id]
                                          ELSE Idle)
  BY DEF SetupPut
<1>2. PICK blank \in BOOLEAN : Put(x.method, Given(x, blank))
  BY DEF SetupPut
<1>3. /\ x \in Ops /\ Shape(x) /\ x.doing = "setup" /\ x.method \in Methods
      /\ OAuth(x.method) \/ x.choice = "set" => x.tok # None
  BY <1>1, OpFacts DEF Shape, Ops
<1> DEFINE given == Given(x, blank)
<1>4. \A r \in DOMAIN given : /\ given[r] = x.tok /\ x.tok # None
                              /\ r \in RolesOf[Kind[x.method]]
                              /\ r = "refresh" => x.paired
  BY <1>3, GivenFacts
<1> HIDE DEF given
<1>5. /\ entry' \in Entries /\ entry' # None
      /\ entry'.method = x.method
      /\ lastId' \in 0 .. MaxIds
      /\ entry'.id <= lastId' /\ lastId <= lastId'
      /\ \A i \in Ids : i <= lastId => (Exists(i)' => Exists(i))
      /\ secret' = [s \in Ids \X Roles |-> secret'[s]]
      /\ \A s \in Ids \X Roles : secret'[s] # None =>
           \/ /\ secret'[s] = secret[s] /\ s[1] = entry'.id
              /\ entry # None /\ entry.id = entry'.id /\ entry.method = x.method
           \/ /\ s[2] \in DOMAIN given /\ secret'[s] = given[s[2]]
              /\ s[1] = entry'.id
  BY <1>2, <1>3, PutFacts DEF given
<1>6. x.tok # None => x.tok \in TokenSet /\ madeFor[x.tok.grant] = x.method
  BY <1>1, <1>3, StoringFacts
<1>7. /\ op'[p] \in Ops /\ Shape(op'[p])
      /\ op'[p].step \in {"idle", "clear"}
      /\ op'[p].doing \in {"use", "setup"}
      /\ op'[p].id # None => op'[p].id = entry'.id
      /\ op'[p].tok # None => op'[p].tok = x.tok
      /\ op' = [op EXCEPT ![p] = op'[p]]
      /\ op' \in [Procs -> Ops]
  <2>1. op \in [Procs -> Ops]
    BY DEF Inv, TypeOK
  <2>2. CASE x.choice = "clear"
    <3> DEFINE o == [x EXCEPT !.step = "clear", !.id = entry'.id]
    <3>1. entry'.id \in Ids /\ entry'.id # None
      BY <1>5 DEF Entries
    <3>2. o \in Ops
      BY <1>3, <3>1 DEF Ops, Steps
    <3>3. /\ o.step = "clear" /\ o.doing = "setup" /\ o.id = entry'.id /\ o.tok = x.tok
          /\ o.method = x.method
      BY <1>3 DEF Ops
    <3>4. op' = [op EXCEPT ![p] = o]
      BY <1>1, <2>2 DEF Becomes
    <3> HIDE DEF o
    <3>5. Shape(o)
      BY <1>3, <3>1, <3>3 DEF Shape, Holding, OAuth
    <3>6. op'[p] = o
      BY <2>1, <3>4
    <3> QED
      BY <2>1, <3>2, <3>3, <3>4, <3>5, <3>6
  <2>3. CASE x.choice # "clear"
    <3>1. Becomes(p, Idle)
      BY <1>1, <2>3
    <3>2. /\ Idle.step = "idle" /\ Idle.doing = "use" /\ Idle.id = None /\ Idle.tok = None
          /\ Shape(Idle)
      BY DEF Idle, Shape, Holding
    <3>3. Idle \in Ops
      BY DEF Idle, Ops, Steps, Doings, Choices
    <3>4. op' = [op EXCEPT ![p] = Idle] /\ op'[p] = Idle
      BY <2>1, <3>1 DEF Becomes
    <3> QED
      BY <2>1, <3>2, <3>3, <3>4
  <2> QED
    BY <2>2, <2>3
<1>8. TypeOK'
  <2>1. \A s \in Ids \X Roles : secret'[s] \in TokenSet \union {None}
    <3>1. secret \in [Ids \X Roles -> TokenSet \union {None}]
      BY DEF Inv, TypeOK
    <3> QED
      BY <3>1, <1>4, <1>5, <1>6
  <2>2. secret' \in [Ids \X Roles -> TokenSet \union {None}]
    BY <2>1, <1>5
  <2> QED
    BY <2>2, <1>1, <1>5, <1>7 DEF Inv, TypeOK
<1>9. NoOrphanSecret'
  BY <1>5 DEF NoOrphanSecret, Exists
<1>10. StraysCameLate'
  <2>1. CASE late
    BY <2>1, <1>1 DEF StraysCameLate
  <2>2. CASE ~late
    <3>1. NoStraySecret
      BY <2>2 DEF Inv, StraysCameLate
    <3>2. NoStraySecret'
      <4> SUFFICES ASSUME NEW s \in Ids \X Roles, secret'[s] # None
                   PROVE  FitsMethod(s[2], secret[s])'
        BY DEF NoStraySecret
      <4>1. CASE /\ secret'[s] = secret[s] /\ s[1] = entry'.id
                 /\ entry # None /\ entry.id = entry'.id /\ entry.method = x.method
        <5>1. FitsMethod(s[2], secret[s])
          BY <4>1, <3>1 DEF NoStraySecret, Exists
        <5> QED
          BY <5>1, <4>1, <1>1, <1>5 DEF FitsMethod, KindOf
      <4>2. CASE s[2] \in DOMAIN given /\ secret'[s] = given[s[2]]
        BY <4>2, <1>1, <1>4, <1>5, <1>6 DEF FitsMethod, KindOf
      <4> QED
        BY <4>1, <4>2, <1>5
    <3> QED
      BY <3>2 DEF StraysCameLate
  <2> QED
    BY <2>1, <2>2
<1>11. Stores(p)
  <2>1. \A s \in Ids \X Roles : secret'[s] # None =>
          \/ secret'[s] = secret[s]
          \/ x.tok # None /\ secret'[s] = x.tok /\ s[1] = entry'.id
    BY <1>4, <1>5
  <2> QED
    BY <1>1, <1>3, <1>5, <1>7, <2>1 DEF Stores
<1> QED
  BY <1>1, <1>8, <1>9, <1>10, <1>11, StoringKeepsInv

----------------------------------------------------------------------------
LEMMA StutterKeepsInv == ASSUME Inv, UNCHANGED vars PROVE Inv'
<1>1. UNCHANGED <<entry, lastId, secret, grants, live, op, madeFor, lost, late>>
  BY DEF vars, storeVars
<1>2. TypeOK' /\ NoOrphanSecret'
  BY <1>1 DEF Inv, TypeOK, NoOrphanSecret, Exists
<1> QED
  BY <1>1, <1>2, ShrinkKeepsInv DEF Inv, TypeOK

LEMMA NextKeepsInv == Inv /\ [Next]_vars => Inv'
<1> SUFFICES ASSUME Inv, [Next]_vars PROVE Inv'
  OBVIOUS
<1>1. ASSUME NEW p \in Procs, Use(p) \/ Refresh(p) \/ Reauth(p) \/ Setup(p)
      PROVE  Inv'
  BY <1>1, UseKeepsInv, RefreshKeepsInv, ReauthKeepsInv, SetupKeepsInv
<1>2. ASSUME NEW p \in Procs, Read(p) \/ Missing(p) \/ Due(p) \/ Lookup(p)
      PROVE  Inv'
  BY <1>2, ReadKeepsInv, MissingKeepsInv, DueKeepsInv, LookupKeepsInv
<1>3. ASSUME NEW p \in Procs, Exchange(p) \/ Write(p) \/ Kept(p) \/ Authorize(p)
      PROVE  Inv'
  BY <1>3, ExchangeKeepsInv, WriteKeepsInv, KeptKeepsInv, AuthorizeKeepsInv
<1>4. ASSUME NEW p \in Procs, SetupPut(p) \/ Clear(p) \/ Remove(p) \/ Abandon(p)
      PROVE  Inv'
  BY <1>4, SetupPutKeepsInv, ClearKeepsInv, RemoveKeepsInv, AbandonKeepsInv
<1> QED
  BY <1>1, <1>2, <1>3, <1>4, StutterKeepsInv, Zenon DEF Next

LEMMA Invariance == Spec => []Inv
BY InitInv, NextKeepsInv, PTL DEF Spec

(* Every variable keeps its type.                                           *)
THEOREM Typed == Spec => []TypeOK
<1>1. Inv => TypeOK
  BY DEF Inv
<1> QED
  BY <1>1, Invariance, PTL

(* No secret without its entry, whatever a Delete overtakes.                *)
THEOREM NothingLeftBehind == Spec => []NoOrphanSecret
<1>1. Inv => NoOrphanSecret
  BY DEF Inv
<1> QED
  BY <1>1, Invariance, PTL

(* Callers that rotate, re-authorise and set up without a lock never leave  *)
(* a spent refresh token behind, unless an answer or a write failed.        *)
THEOREM RotationKeepsTheCredential == Spec => []TokensStayUsable
<1>1. Inv => TokensStayUsable
  BY DEF Inv
<1> QED
  BY <1>1, Invariance, PTL

(* ReadSecret's two queries give an answer that was true.                   *)
THEOREM NotSetWasTrue == Spec => []NotSetIsTrue
<1>1. Inv => NotSetIsTrue
  BY DEF Inv
<1> QED
  BY <1>1, Invariance, PTL

(* A switch of method leaves nothing behind, but for a late write.          *)
THEOREM SwitchLeavesNothing == Spec => []StraysCameLate
<1>1. Inv => StraysCameLate
  BY DEF Inv
<1> QED
  BY <1>1, Invariance, PTL
=============================================================================
