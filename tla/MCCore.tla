------------------------------- MODULE MCCore -------------------------------
(* Small cores: two addresses, a buffer of three lines or two. *)
EXTENDS GemDroidCore

MCAddrs == {"a", "b"}
=============================================================================
