-------------------------- MODULE CredentialStore --------------------------
(* The credential store (credentials.Store) for one credential name of one  *)
(* particle: its entry and its secrets.  credentials/sqlite keeps them in   *)
(* two tables and makes each operation one transaction; credentials/memory  *)
(* makes it one critical section.  SQLite serialises the transactions (a    *)
(* transaction that reads and is then overtaken fails on its first write),  *)
(* so here an operation is one step, or has failed and changed nothing.     *)
(* ReadSecret is not a transaction: module Credentials has its two queries. *)
EXTENDS Naturals

CONSTANTS Methods,      \* names of the declared methods
          Kind,         \* the kind of credential each of them declares
          MaxIds,       \* bound: entries ever made under the name
          Tokens,       \* what a secret may be
          None          \* nothing there

VARIABLES entry,        \* the row of the name, or None
          lastId,       \* the ids given out are 1 .. lastId
          secret        \* the value stored for an id and a role, or None

storeVars == <<entry, lastId, secret>>

RolesOf == [basic |-> {"password"}, apikey |-> {"key"}, signing |-> {"key"},
            raw |-> {"value"}, oauth2 |-> {"access", "refresh", "client"}]
MainRole == [basic |-> "password", apikey |-> "key", signing |-> "key",
             raw |-> "value", oauth2 |-> "access"]
Roles == UNION {RolesOf[Kind[m]] : m \in Methods}

Ids == 1 .. MaxIds
Entries == [id : Ids, method : Methods]

ASSUME StoreAssumption == /\ Kind \in [Methods -> DOMAIN RolesOf]
                          /\ MaxIds \in Nat
                          /\ None \notin Entries \union Tokens

StoreInit == /\ entry = None
             /\ lastId = 0
             /\ secret = [s \in Ids \X Roles |-> None]

Exists(id) == entry # None /\ entry.id = id

KindOf(e) == Kind[e.method]

(* The secrets with those of id replaced by the given ones, a function of   *)
(* some roles.                                                              *)
Upsert(secrets, id, given) ==
  [s \in Ids \X Roles |->
     IF s[1] = id /\ s[2] \in DOMAIN given THEN given[s[2]] ELSE secrets[s]]

Wipe(secrets, id) == [s \in Ids \X Roles |-> IF s[1] = id THEN None ELSE secrets[s]]

(* Mutant: a switch of method forgets to wipe.                              *)
SwitchedKeeping(method) == secret
(* What is left of the secrets when the entry is rewritten with method.     *)
Switched(method) ==
  IF entry.method = method THEN secret ELSE Wipe(secret, entry.id)

(* Mutant: the id is made from the name.                                    *)
NewIdByName == 1
NewId == lastId + 1

(* Put: a new entry with a new id, or the same id with the method replaced  *)
(* and the given secrets written over the ones that remain.                 *)
Put(method, given) ==
  \/ /\ entry = None
     /\ lastId < MaxIds
     /\ lastId' = NewId
     /\ entry' = [id |-> NewId, method |-> method]
     /\ secret' = Upsert(secret, NewId, given)
  \/ /\ entry # None
     /\ entry' = [entry EXCEPT !.method = method]
     /\ secret' = Upsert(Switched(method), entry.id, given)
     /\ UNCHANGED lastId

(* Mutant: the secrets are written whether or not the entry is there.       *)
WriteSecretsBlind(id, given) ==
  /\ secret' = Upsert(secret, id, given)
  /\ UNCHANGED <<entry, lastId>>
(* WriteSecrets: nothing but the given roles, and ErrNotFound, which leaves *)
(* everything as it is, when the entry is gone.                             *)
WriteSecrets(id, given) ==
  /\ secret' = IF Exists(id) THEN Upsert(secret, id, given) ELSE secret
  /\ UNCHANGED <<entry, lastId>>

DeleteSecret(id, role) ==
  /\ secret' = [secret EXCEPT ![<<id, role>>] = None]
  /\ UNCHANGED <<entry, lastId>>

(* Delete: the entry and every secret of it.                                *)
Delete(id) ==
  /\ entry' = IF Exists(id) THEN None ELSE entry
  /\ secret' = Wipe(secret, id)
  /\ UNCHANGED lastId

(* Every secret belongs to the entry that is there: what is deleted leaves  *)
(* nothing behind, and a writer that was overtaken by a Delete writes       *)
(* nothing (WriteSecrets looks for the entry in its own transaction).       *)
NoOrphanSecret == \A s \in Ids \X Roles : secret[s] # None => Exists(s[1])
=============================================================================
