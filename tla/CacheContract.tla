--------------------------- MODULE CacheContract ---------------------------
(***************************************************************************)
(* The cachebox.Store contract (internal/cachebox/store.go:53-79) without  *)
(* lists, maps or recency: a partial function that never answers with      *)
(* anything but the last entry put under the key, may forget any key when  *)
(* another is put, and never holds more than its cap.                      *)
(***************************************************************************)
EXTENDS Naturals, FiniteSets

CONSTANTS Keys, Entries, Absent, MaxEntries

VARIABLES
  content,  \* key -> its entry, or Absent
  latest,   \* key -> the entry last put under it, unless deleted since
  reply     \* what the last Get returned

avars == <<content, latest, reply>>

Nowhere == [k \in Keys |-> Absent]

Init == content = Nowhere /\ latest = Nowhere /\ reply = Absent

Held(c) == {k \in Keys : c[k] # Absent}

Forget(k) == content' = [content EXCEPT ![k] = Absent]

Put(k, e) ==
  /\ content' \in [Keys -> Entries \cup {Absent}]
  /\ content'[k] = e
  /\ \A j \in Keys \ {k} : content'[j] \in {content[j], Absent}
  (* a key is only forgotten for the cap *)
  /\ \/ content' = [content EXCEPT ![k] = e]
     \/ Cardinality(Held(content')) = MaxEntries
  /\ MaxEntries > 0 => Cardinality(Held(content')) <= MaxEntries
  /\ latest' = [latest EXCEPT ![k] = e]
  /\ UNCHANGED reply

Hit(k) ==
  /\ content[k] # Absent
  /\ reply' = latest[k]
  /\ UNCHANGED <<content, latest>>

(* The key is not there, or its entry has expired and is reclaimed.        *)
Miss(k) == reply' = Absent /\ Forget(k) /\ UNCHANGED latest

Delete(k) ==
  Forget(k) /\ latest' = [latest EXCEPT ![k] = Absent] /\ UNCHANGED reply

Clear == content' = Nowhere /\ latest' = Nowhere /\ UNCHANGED reply

Next ==
  \/ \E k \in Keys :
       Hit(k) \/ Miss(k) \/ Delete(k) \/ \E e \in Entries : Put(k, e)
  \/ Clear

Spec == Init /\ [][Next]_avars
=============================================================================
