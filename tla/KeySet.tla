-------------------------------- MODULE KeySet --------------------------------
(* What a caller of examples/hash/hopscotch.h is promised: a set of keys.  An *)
(* insertion either adds the key or leaves the set alone, and its return      *)
(* value says which; a resize never changes the set.                          *)

CONSTANTS
  Keys          \* the keys

VARIABLES
  stored,       \* the keys in the table
  ret           \* what the last call returned

vars == <<stored, ret>>

Init == stored = {} /\ ret = "none"

(* -2: duplicate keys are not allowed; -1 and -3: no room for the key; 0 and *)
(* -4: the key is stored.                                                    *)
Insert(k) ==
  \/ k \in stored /\ ret' = "exists" /\ UNCHANGED stored
  \/ k \notin stored /\ ret' \in {"full", "no_room"} /\ UNCHANGED stored
  \/ k \notin stored /\ ret' \in {"ok", "crowded"} /\ stored' = stored \cup {k}

Remove(k) ==
  \/ k \in stored /\ ret' = "data" /\ stored' = stored \ {k}
  \/ k \notin stored /\ ret' = "null" /\ UNCHANGED stored

Resize == ret' \in {"ok", "failed"} /\ UNCHANGED stored

Next == (\E k \in Keys : Insert(k) \/ Remove(k)) \/ Resize

Spec == Init /\ [][Next]_vars
===============================================================================
