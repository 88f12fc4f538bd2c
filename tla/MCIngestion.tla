----------------------------- MODULE MCIngestion -----------------------------
(***************************************************************************)
(* Small instances of Ingestion: up to four uploads, three of one file and *)
(* one of another.                                                         *)
(***************************************************************************)
EXTENDS Ingestion

CONSTANTS u1, u2, u3, u4, f1, f2

MCOne == {u1}
MCThree == {u1, u2, u3}
MCFour == {u1, u2, u3, u4}
MCFileOf == [u \in Uploads |-> IF u = u4 THEN f2 ELSE f1]
=============================================================================
