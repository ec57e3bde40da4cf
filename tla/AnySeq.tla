-------------------------------- MODULE AnySeq ------------------------------
(***************************************************************************)
(* Sequences whose elements are of no known type: logs, channels and       *)
(* queues of records that the modules leave opaque.                        *)
(***************************************************************************)
EXTENDS Integers, Sequences

IsSeq(s) == s \in Seq({ s[i] : i \in DOMAIN s })
=============================================================================
