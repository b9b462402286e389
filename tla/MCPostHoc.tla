------------------------------ MODULE MCPostHoc ------------------------------
(* One bundle and a few runs of each tool on it.                             *)
EXTENDS PostHoc
=============================================================================
