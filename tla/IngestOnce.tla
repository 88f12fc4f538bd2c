----------------------------- MODULE IngestOnce -----------------------------
(***************************************************************************)
(* What ingestion promises for each file, whatever uploads, awaits and     *)
(* pipelines it takes: work starts on an absent or a failed document, and  *)
(* ends in failure with nothing stored, or in success with the credentials *)
(* stored exactly once.  Ingestion implements it when no two uploads of a  *)
(* file overlap and the database does not fail.                            *)
(***************************************************************************)
EXTENDS Naturals

CONSTANT Files

VARIABLES life,      \* life[f]: "absent", "working", "failed" or "stored"
          batches    \* batches[f]: how many times its credentials were stored

lifeVars == <<life, batches>>

LifeInit ==
  /\ life = [f \in Files |-> "absent"]
  /\ batches = [f \in Files |-> 0]

Begin(f) ==
  /\ life[f] \in {"absent", "failed"}
  /\ life' = [life EXCEPT ![f] = "working"]
  /\ UNCHANGED batches

StoreBatch(f) ==
  /\ life[f] = "working" /\ batches[f] = 0
  /\ batches' = [batches EXCEPT ![f] = 1]
  /\ UNCHANGED life

Succeed(f) ==
  /\ life[f] = "working" /\ batches[f] = 1
  /\ life' = [life EXCEPT ![f] = "stored"]
  /\ UNCHANGED batches

Fail(f) ==
  /\ life[f] = "working" /\ batches[f] = 0
  /\ life' = [life EXCEPT ![f] = "failed"]
  /\ UNCHANGED batches

LifeNext == \E f \in Files : Begin(f) \/ StoreBatch(f) \/ Succeed(f) \/ Fail(f)

LifeSpec == LifeInit /\ [][LifeNext]_lifeVars
=============================================================================
