------------------------------ MODULE LSMLedger ------------------------------
(***************************************************************************)
(* The engine beside a ledger of what its callers wrote: the vector of the *)
(* newest logged record of every id.  The ledger knows nothing of flushes, *)
(* merges, tombstones and kills, so it says what the engine should hold    *)
(* whatever happened to the process.                                       *)
(***************************************************************************)
EXTENDS LSMEngine

VARIABLES
  ledger,   \* the vector last written under each id
  masked,   \* ids that start() hid although their last write was an insert
  cutMerge  \* a kill has left a merge undone, or undone in part

ledgerVars == <<ledger, masked, cutMerge>>

LedgerInit == Init /\ ledger = NoRows /\ masked = {} /\ cutMerge = FALSE

\* A request is written when its record reaches the log.
Enter ==
  /\ pc = "idle" /\ pc' = "meta"
  /\ ledger' = [i \in Ids |-> IF i \in op'.ids THEN op'.rows[i] ELSE ledger[i]]
  /\ masked' = masked \ op'.ids
  /\ UNCHANGED cutMerge

\* start() puts the ids of replayed deletes back into the tombstones, also
\* those that a later record inserts again (lsm.py:205-209).
Mask ==
  /\ pc = "down" /\ pc' # "down"
  /\ masked' = masked \cup {i \in tombstones' : ledger[i] # None}
  /\ UNCHANGED <<ledger, cutMerge>>

Keep ==
  /\ ~(pc = "idle" /\ pc' = "meta")
  /\ ~(pc = "down" /\ pc' # "down")
  /\ cutMerge' = \/ cutMerge
                  \/ /\ Up /\ pc' = "down"
                     /\ pc = "remove" \/ Cardinality(dirs') >= MergeThreshold
  /\ UNCHANGED <<ledger, masked>>

LedgerNext == Next /\ (Enter \/ Mask \/ Keep)

LedgerSpec == LedgerInit /\ [][LedgerNext]_<<vars, ledgerVars>>

\* Whatever a kill interrupts, the newest vector written under an id is the one
\* version the engine holds, tombstones aside: a cut flush or merge neither
\* loses it nor leaves an older one beside it (flush, merge, start, and the
\* hidden-id sets of search).  Ids that start() masked are left out.
NewestRowSurvives ==
  \A i \in Ids \ masked : ledger[i] # None => Held({}, i) = {ledger[i]}

\* A deleted id stays deleted, and an id inserted again and not masked by
\* start() is served with its newest vector, through kills at any other point
\* (the replay of start, tombstones.json, the order of the writes of flush).
ServesLedger ==
  Up /\ ~cutMerge => \A i \in Ids \ masked :
          ServedHits(i) = IF ledger[i] = None THEN {} ELSE {ledger[i]}

\* The vector of an acknowledged insert that nothing has replaced is held,
\* in the log, the memtable or a segment.
AcknowledgedInsertsSurvive ==
  \A i \in Ids : ledger[i] # None => Held({}, i) = {ledger[i]}

=============================================================================
