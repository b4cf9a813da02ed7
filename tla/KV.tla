---------------------------------- MODULE KV ----------------------------------
(***************************************************************************)
(* What a particle is promised of its key/value store (kv/kv.go), with the *)
(* quota of the backends.  It is also the in-process backend of kv/memory  *)
(* as it stands: its mutex makes each call one step.                       *)
(***************************************************************************)
EXTENDS KVTexts

VARIABLES
  entries,  \* particle -> key -> value, or Absent
  request,  \* client -> the call in progress, or NoRequest
  answer    \* client -> what its last call returned

vars == <<entries, request, answer>>

Init ==
  /\ entries = [p \in Particles |-> [k \in Keys |-> Absent]]
  /\ request = [c \in Clients |-> NoRequest]
  /\ answer = [c \in Clients |-> Unanswered]

Call(c, r) ==
  /\ request[c] = NoRequest
  /\ request' = [request EXCEPT ![c] = r]
  /\ answer' = [answer EXCEPT ![c] = Unanswered]
  /\ UNCHANGED entries

Return(c, status, got) ==
  /\ request' = [request EXCEPT ![c] = NoRequest]
  /\ answer' = [answer EXCEPT ![c] = [status |-> status, got |-> got]]

\* Set: replace the value, or refuse when the namespace would pass the quota.
Set(c) ==
  LET r == request[c]
      new == [entries[r.particle] EXCEPT ![r.key] = r.value]
  IN /\ r # NoRequest /\ r.op = "set"
     /\ IF Quota > 0 /\ Usage(new) > Quota
          THEN Return(c, "quota", {}) /\ UNCHANGED entries
          ELSE Return(c, "ok", {}) /\ entries' = [entries EXCEPT ![r.particle] = new]

Delete(c) ==
  LET r == request[c] IN
  /\ r # NoRequest /\ r.op = "delete"
  /\ Return(c, "ok", {})
  /\ entries' = [entries EXCEPT ![r.particle][r.key] = Absent]

Get(c) ==
  LET r == request[c] IN
  /\ r # NoRequest /\ r.op = "get"
  /\ Return(c, "ok", {entries[r.particle][r.key]} \ {Absent})
  /\ UNCHANGED entries

List(c) ==
  LET r == request[c] IN
  /\ r # NoRequest /\ r.op = "list"
  /\ Return(c, "ok", {k \in Present(entries[r.particle]) : <<r.key, k>> \in HasPrefix})
  /\ UNCHANGED entries

\* Any other error: storage-error, and nothing has changed.
StorageError(c) ==
  /\ request[c] # NoRequest
  /\ Return(c, "error", {})
  /\ UNCHANGED entries

Next ==
  \E c \in Clients :
    \/ \E r \in Requests : Call(c, r)
    \/ Set(c) \/ Delete(c) \/ Get(c) \/ List(c) \/ StorageError(c)

Spec == Init /\ [][Next]_vars
=============================================================================
