-------------------------- MODULE MCIPConnection --------------------------
(* Small instances of IPConnection.                                        *)
EXTENDS IPConnection
===========================================================================
