--------------------------------- MODULE Maps ---------------------------------
(* The code's HashMaps: functions whose domain is the set of keys they hold. *)
EXTENDS Functions

EmptyMap == [k \in {} |-> k]

\* HashMap::insert and HashMap::remove
Put(map, key, value) == [k \in DOMAIN map \cup {key} |-> IF k = key THEN value ELSE map[k]]
Drop(map, keys) == Restrict(map, DOMAIN map \ keys)
===============================================================================
