--------------------------- MODULE EnergyProtocol ---------------------------
(***************************************************************************)
(* The messages of TP2-2024: the requests that client.c sends and the      *)
(* responses that server.c sends, by the text before the parenthesis and   *)
(* the arguments inside it. The text "OTHER" stands for any bytes no       *)
(* comparison of the receiver recognises.                                  *)
(***************************************************************************)
EXTENDS Integers, Sequences

\* The identifier of a client before RES_ADD and after OK(01).
NoId == -1

RequestTypes == {"REQ_INFOSE", "REQ_STATUS", "REQ_INFOSCII",
                 "REQ_UP", "REQ_NONE", "REQ_DOWN", "OTHER"}

\* The argument of RES_STATUS is a word, and is part of the type here.
StatusTypes == {"RES_STATUS(alta)", "RES_STATUS(moderada)", "RES_STATUS(baixa)"}

ResponseTypes == {"RES_ADD", "OK(01)", "ERROR(01)", "ERROR(02)", "RES_INFOSE",
                  "RES_INFOSCII", "RES_UP", "RES_NONE", "RES_DOWN"} \union StatusTypes

Msg(type, args) == [type |-> type, args |-> args]

\* The only message that carries the sender's identifier.
REQ_REM(id) == Msg("REQ_REM", <<id>>)

Messages ==
  [type : RequestTypes \union ResponseTypes \union {"REQ_REM"}, args : Seq(Int)]
=============================================================================
