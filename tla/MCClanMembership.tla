-------------------------- MODULE MCClanMembership --------------------------
(***************************************************************************)
(* ClanMembership with the values of the configurations.                   *)
(***************************************************************************)
EXTENDS ClanMembership
====
