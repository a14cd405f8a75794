----------------------------- MODULE MCDelivery -----------------------------
(* Two files' contents: detection is right about one and wrong about the   *)
(* other, so that one delivery needs an override and the other does not.   *)
EXTENDS Delivery, TLC

CONSTANTS plain, misread, utf8, cp1252

MCContents == {plain, misread}
MCSettings == {utf8, cp1252}
MCDetected == [c \in MCContents |-> utf8]
MCRight    == plain :> utf8 @@ misread :> cp1252
MCUndecodable == {<<plain, cp1252>>}

\* Rows and requests are told apart by nothing but their keys.
Interchangeable == Permutations(FileIds) \cup Permutations(Clients)
=============================================================================
