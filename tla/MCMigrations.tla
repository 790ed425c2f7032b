---------------------------- MODULE MCMigrations ----------------------------
(* Two processes for TLC, with deployments of one or two migrations, one   *)
(* that is found out of order and one with a gap in its numbers.           *)
EXTENDS Migrations

MCPackages == {<<0>>, <<1, 0>>, <<0, 2>>}
=============================================================================
