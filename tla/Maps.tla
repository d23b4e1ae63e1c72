-------------------------------- MODULE Maps --------------------------------
(***************************************************************************)
(* Go's maps, and all else that is a function with a changing domain: the   *)
(* assignment to a key, and its removal.                                    *)
(***************************************************************************)
With(f, key, value) == [x \in DOMAIN f \cup {key} |-> IF x = key THEN value ELSE f[x]]
Without(f, key) == [x \in DOMAIN f \ {key} |-> f[x]]
=============================================================================
