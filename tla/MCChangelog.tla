---------------------------- MODULE MCChangelog ----------------------------
(* Changelog with pages of two commits and up to three commits of others.         *)
EXTENDS Changelog
=============================================================================
