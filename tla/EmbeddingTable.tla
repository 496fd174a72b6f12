--------------------------- MODULE EmbeddingTable ---------------------------
(***************************************************************************)
(* What a cached embedding promises to its users: it is an array of        *)
(* embeddings that changes only where a running optimizer step writes, and *)
(* there once per step.  Which entries are cached, and when they are       *)
(* written back, cannot be told from what a gather returns.                *)
(***************************************************************************)
CONSTANTS
  Key,    \* the entries of the table
  Value   \* what an entry can hold

VARIABLES
  table,  \* table[k]: what a gather of entry k returns
  due     \* the entries the running step has still to write

TableInit ==
  /\ table \in [Key -> Value]
  /\ due = {}

\* A step with gradients for some of the entries starts after the one before.
Launch(keys) ==
  /\ due = {}
  /\ due' = keys
  /\ UNCHANGED table

Write(k, v) ==
  /\ k \in due
  /\ due' = due \ {k}
  /\ table' = [table EXCEPT ![k] = v]

TableNext ==
  \/ \E keys \in SUBSET Key : Launch(keys)
  \/ \E k \in Key, v \in Value : Write(k, v)

TableSpec == TableInit /\ [][TableNext]_<<table, due>>
=============================================================================
