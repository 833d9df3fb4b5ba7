----------------------------- MODULE MCHandlers -----------------------------
(* Instance of Handlers for TLC: a client that lists the media while one is *)
(* deleted and one is uploaded, or one archive and one deletion.           *)
EXTENDS Handlers, TLC

CONSTANTS c1, c2, c3, r1, r2, r3, m1, m2, ka, kb

TimeOf == r1 :> 1 @@ r2 :> 1 @@ r3 :> 2
IdOf == r1 :> 1 @@ r2 :> 2 @@ r3 :> 0
KeysIn == m1 :> {ka} @@ m2 :> {ka, kb}
OfOneConfiguration == {{r1, r3, m2}}
Listing == c1 :> "list" @@ c2 :> "delete" @@ c3 :> "upload"
Downloads == c1 :> "archive" @@ c2 :> "delete" @@ c3 :> "nothing"
TheMixes == {Listing, Downloads}
=============================================================================
