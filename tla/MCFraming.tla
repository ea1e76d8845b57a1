------------------------------ MODULE MCFraming ------------------------------
(* An instance of Framing for TLC.                                         *)
EXTENDS Framing

\* One payload of each length up to one too long, with bytes that could be a
\* magic byte, a type or a header.
SomePayloads == {<<>>, <<1>>, <<0, 2>>, <<1, 1>>, <<1, 2, 0>>, <<0, 2, 1, 1>>}
=============================================================================
