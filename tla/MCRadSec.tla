------------------------------ MODULE MCRadSec ------------------------------
(* An instance of RadSec.                                                   *)
EXTENDS RadSec

\* Two identities fit for a User-Name, and one that is not.
SomeNames == {<<1>>, <<2>>, <<0>>}

RadSecSymmetry == Permutations(Mac)
=============================================================================
