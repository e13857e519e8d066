--------------------------- MODULE MCArenaClient ---------------------------
(* Small instances of ArenaClient for TLC.                                 *)
EXTENDS ArenaClient

MCStatuses == {401, 404, 429, 503}      \* one of each class of check_handshake_exception
MCCloseCodes == {1000, 1001, 1006, 1008}
MCAbnormal == {1006}
MCRetryAfters == {5, 30}
=============================================================================
