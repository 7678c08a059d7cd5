----------------------------- MODULE VectorStore -----------------------------
(***************************************************************************)
(* What the storage engine promises its callers: one current vector per    *)
(* external id.  An insert of a batch sets the vector of every id of the   *)
(* batch at once, a delete removes every id it names at once, each exactly *)
(* once and when it is accepted; nothing else (flush, merge, restart)      *)
(* changes the contents, whether a request is in flight or not.            *)
(***************************************************************************)
CONSTANTS Ids,      \* external vector ids
          Vectors,  \* vector payloads, told apart only by identity
          None      \* "no vector under this id"

VARIABLES store,    \* the vector under each id
          request   \* the write that has been accepted and not answered

Rows == [Ids -> Vectors \cup {None}]
NoRows == [i \in Ids |-> None]
RowIds(rows) == {i \in Ids : rows[i] # None}

NoRequest == [ids |-> {}, rows |-> NoRows]

Init == store = NoRows /\ request = NoRequest

Insert(rows) ==
  /\ request = NoRequest
  /\ request' = [ids |-> RowIds(rows), rows |-> rows]
  /\ store' = [i \in Ids |-> IF i \in RowIds(rows) THEN rows[i] ELSE store[i]]

Delete(gone) ==
  /\ request = NoRequest
  /\ request' = [ids |-> gone, rows |-> NoRows]
  /\ store' = [i \in Ids |-> IF i \in gone THEN None ELSE store[i]]

Answer == request' = NoRequest /\ UNCHANGED store

Next == \/ \E rows \in Rows : Insert(rows)
        \/ \E gone \in SUBSET Ids : Delete(gone)
        \/ Answer

Spec == Init /\ [][Next]_<<store, request>>

=============================================================================
