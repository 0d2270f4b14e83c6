---------------------------- MODULE MCHandshake ----------------------------
(* Instances of Handshake for TLC. *)
EXTENDS Handshake

CONSTANTS c1, c2, c3, s1, s2

TwoServers == <<s1, s2>>
OneWrong == {<<c2, s2>>}   \* c2 is refused by the second server
OneNoKey == {<<c3, s1>>}   \* c3 cannot even speak to the first
=============================================================================
