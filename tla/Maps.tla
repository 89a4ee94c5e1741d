-------------------------------- MODULE Maps --------------------------------
(* Functions with a finite, changing domain: the unordered_maps of the code. *)

EmptyMap == [x \in {} |-> 0]

\* f with x mapped to v, whether or not it was mapped before.
With(f, x, v) == [y \in DOMAIN f \cup {x} |-> IF y = x THEN v ELSE f[y]]

\* f without x.
Without(f, x) == [y \in DOMAIN f \ {x} |-> f[y]]

=============================================================================
