------------------------------- MODULE KVTexts -------------------------------
(* The texts, requests and sizes that the key/value modules share.           *)
EXTENDS Integers, Totals

CONSTANTS
  Clients,    \* callers: goroutines and processes with a call in progress
  Particles,
  Keys,
  Values,
  ListPrefixes,   \* arguments of List
  Bytes,      \* len(s) of a Go string
  Length,     \* SQLite's LENGTH(s): characters, up to the first NUL
  HasPrefix,  \* strings.HasPrefix, as pairs of a prefix and a key
  Like,       \* SQLite's LIKE with likeEscape(prefix) + "%", likewise
  Quota,      \* QuotaBytes; 0 is unlimited
  Absent      \* no value, no usage row

Texts == Keys \union Values

ASSUME TextsAssumption ==
  /\ Bytes \in [Texts -> Nat] /\ Length \in [Texts -> Nat]
  /\ \A t \in Texts : Length[t] <= Bytes[t]
  /\ HasPrefix \subseteq ListPrefixes \X Keys /\ Like \subseteq ListPrefixes \X Keys
ASSUME QuotaAssumption == Quota \in Nat
ASSUME AbsentAssumption == Absent \notin Values \union Nat

Requests ==
  [op: {"set"}, particle: Particles, key: Keys, value: Values]
  \union [op: {"get", "delete"}, particle: Particles, key: Keys, value: {Absent}]
  \union [op: {"list"}, particle: Particles, key: ListPrefixes, value: {Absent}]
NoRequest == [op |-> "none"]

\* What a call returned: its error class, and the value or keys it found.
Answers == [status: {"ok", "quota", "error"}, got: SUBSET Texts]
Unanswered == [status |-> "none", got |-> {}]

Present(bucket) == {k \in Keys : bucket[k] # Absent}

\* usageLocked: the bytes of a namespace's keys and values.
Usage(bucket) == Total([k \in Present(bucket) |-> Bytes[k] + Bytes[bucket[k]]])
=============================================================================
