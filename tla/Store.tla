------------------------------- MODULE Store -------------------------------
(***************************************************************************)
(* The key-value collections of the Cosmos SDK (cosmossdk.io/collections)  *)
(* as the two keepers use them: a Map is a function whose domain is the    *)
(* set of keys that are present.  External code, modelled from its use.    *)
(***************************************************************************)

(* Map.Set: insert the key or overwrite its value.                         *)
Put(f, k, v) == [x \in DOMAIN f \cup {k} |-> IF x = k THEN v ELSE f[x]]

(* Map.Remove: forget the key; removing an absent key is not an error.     *)
Del(f, k) == [x \in DOMAIN f \ {k} |-> f[x]]

(* What is committed when the handler of a message returns an error:       *)
(* baseapp drops the branch of the store on which it ran.                  *)
Discard(store, branch) == store
=============================================================================
