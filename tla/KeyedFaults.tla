---------------------------- MODULE KeyedFaults ----------------------------
(***************************************************************************)
(* What FaultRegistry.StartOrJoin promises its callers                     *)
(* (internal/interceptor/registry.go:36-45), with no lock, no handle and   *)
(* no goroutine: each key has at most one owner, a call is answered once,  *)
(* and "joined" is an answer only while somebody else owns the key.        *)
(***************************************************************************)
CONSTANTS Calls, Keys, KeyOf, PolicyOf, None

VARIABLES
  owner,    \* key -> the call whose fault owns it, or None
  outcome   \* what each call was answered

avars == <<owner, outcome>>

Init ==
  /\ owner = [k \in Keys |-> None]
  /\ outcome = [c \in Calls |-> "pending"]

Exclusive(c) == PolicyOf[c] # "AlwaysStart"

Answer(c, a) ==
  /\ outcome[c] = "pending"
  /\ outcome' = [outcome EXCEPT ![c] = a]

(* A fresh fault: it becomes the owner of a key nobody owned. *)
Start(c) ==
  /\ Answer(c, "started")
  /\ IF Exclusive(c)
       THEN /\ owner[KeyOf[c]] = None
            /\ owner' = [owner EXCEPT ![KeyOf[c]] = c]
       ELSE UNCHANGED owner

Join(c) ==
  /\ Answer(c, "joined")
  /\ Exclusive(c)
  /\ owner[KeyOf[c]] # None
  /\ UNCHANGED owner

(* Only a call that would have started a fault can report its failure. *)
Fail(c) ==
  /\ Answer(c, "failed")
  /\ Exclusive(c) => owner[KeyOf[c]] = None
  /\ UNCHANGED owner

(* Only the owner gives its key back. *)
Release(c) ==
  /\ owner[KeyOf[c]] = c
  /\ outcome[c] = "started"
  /\ owner' = [owner EXCEPT ![KeyOf[c]] = None]
  /\ UNCHANGED outcome

Next == \E c \in Calls : Start(c) \/ Join(c) \/ Fail(c) \/ Release(c)

Spec == Init /\ [][Next]_avars
=============================================================================
