--------------------------- MODULE MCPixivAccount ---------------------------
(* Two identities, one of which has an old and a new cookie, and requests that *)
(* overlap in every way. *)
EXTENDS PixivAccount, TLC

CONSTANTS alice, bob, old, new, other, download, c1, c2, c3

MCUser == {alice, bob}
MCCookie == {old, new, other}
MCUserOf == [k \in Cookie |-> IF k = other THEN bob ELSE alice]
MCJob == {download}
MCJobUser == [j \in Job |-> alice]
MCCall == {c1, c2, c3}
=============================================================================
