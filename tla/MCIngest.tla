------------------------------ MODULE MCIngest ------------------------------
(* A small dataset: `coat` has more reviews than `hat`; one of its texts   *)
(* is repeated, one is dropped by the filters, one is cut in two chunks.   *)
EXTENDS Ingest, TLC

CONSTANTS coat, hat, long, brief, spam

SmallChunks == long :> 2 @@ brief :> 1 @@ spam :> 0

SmallReviews ==
  <<[product |-> hat, text |-> brief], [product |-> coat, text |-> long],
    [product |-> coat, text |-> spam], [product |-> coat, text |-> long],
    [product |-> coat, text |-> brief]>>

(* Two operators in one run: a careful one never uses --force and sees the  *)
(* job die MaxCrashes times, the other uses it and sees the job die once.   *)

VARIABLE careful

OperatorInit == Init /\ careful \in BOOLEAN

OperatorNext ==
  \/ careful /\ Next /\ pc' # "wipe products" /\ UNCHANGED careful
  \/ ~careful /\ Next /\ crashes' <= 1 /\ UNCHANGED careful

OperatorSpec == OperatorInit /\ [][OperatorNext]_<<vars, careful>>

\* Without --force, what the manifest has up to date is up to date, wherever
\* runs died and whenever the recovery script was used.
CarefulManifestTruthful == careful => ManifestTruthful

=============================================================================
