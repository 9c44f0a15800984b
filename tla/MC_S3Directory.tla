---------------------------- MODULE MC_S3Directory ----------------------------
EXTENDS S3Directory

CONSTANTS A, B

(* A full directory, and one with a single file and no marker.             *)
Trees == {<<A, 1>>, <<A, 2>>, <<B, 2>>}
===============================================================================
