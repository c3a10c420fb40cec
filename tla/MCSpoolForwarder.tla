-------------------------- MODULE MCSpoolForwarder --------------------------
(* Small instances of the reader's spool and forwarder for TLC. *)
EXTENDS SpoolForwarder
=============================================================================
