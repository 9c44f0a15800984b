---------------------------------- MODULE MC_S3 ----------------------------------
(* Bounds for S3Transactions: the operation ids are small numbers, because  *)
(* recovery takes journals in the order of their keys.                      *)
EXTENDS S3Transactions

Everything == <<{"cond", "move", "create"}, {"put", "copy", "delete"}>>
MoveAndBack == <<{"move"}, {"copy"}>>
===============================================================================
