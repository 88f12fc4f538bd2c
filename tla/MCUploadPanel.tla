--------------------------- MODULE MCUploadPanel ---------------------------
(***************************************************************************)
(* A small instance of UploadPanel: a document e of file f1 that failed    *)
(* before the page was opened; then two retries of f1, a retry and an      *)
(* upload of a new file f2, or two uploads of f2; and two polls under way  *)
(* at once, of which one may be slow or lost.                              *)
(***************************************************************************)
EXTENDS UploadPanel

CONSTANTS e, u1, u2, u3, u4, f1, f2

MCUploads == {e, u1, u2, u3, u4}
MCFileOf == [u \in Uploads |-> IF u \in {e, u1, u2} THEN f1 ELSE f2]
MCEarlier == {e}

\* u1 and u2 are retries of f1, u3 and u4 uploads of f2.
MCChoices ==
  [S \in SUBSET Uploads |->
     CASE S = {} -> {u1, u3} [] S = {u1} -> {u2, u3} [] S = {u3} -> {u4} [] OTHER -> {}]

MCPolls == {1, 2}
MCReliable == {1}
=============================================================================
