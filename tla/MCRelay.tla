------------------------------ MODULE MCRelay -------------------------------
(* An instance of Relay.                                                    *)
EXTENDS Relay

\* Of every length up to six octets: none, identities (Type 1) that are empty, of one
\* octet, as long as an attribute, one longer, and unprintable, and other methods.
SomeContents ==
  {<<>>, <<1>>, <<1, 1>>, <<1, 1, 0>>, <<1, 1, 1, 2>>, <<1, 1, 1, 1, 2>>,
   <<2>>, <<2, 1>>, <<2, 0, 1>>, <<2, 1, 0, 1>>, <<2, 0, 1, 1, 0>>, <<2, 0, 1, 1, 0, 1>>}

SomePaddings == {<<>>, <<0>>, <<0, 0>>}

SomeVlans == {<<53>>, <<49, 48>>}

MacSymmetry == Permutations(Mac)
=============================================================================
