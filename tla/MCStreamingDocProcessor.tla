---------------------- MODULE MCStreamingDocProcessor ----------------------
(* A site in which the third page is a link of the first and of the second,  *)
(* and leads to a fourth and back.                                           *)
EXTENDS StreamingDocProcessor, TLC

CONSTANTS a, b, c, d

ThePages == {a, b, c, d}
TheFiles == <<a, b, c, d>>
TheLinks == (a :> {b, c}) @@ (b :> {c}) @@ (c :> {a, d}) @@ (d :> {})
=============================================================================
