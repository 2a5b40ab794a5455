------------------------------ MODULE FullSync ------------------------------
(***************************************************************************)
(* processFullSyncContent (eth/downloader/downloader.go): how the          *)
(* downloader cuts the blocks it has fetched into the batches it hands to  *)
(* InsertChain.  The engine verifies the headers of a batch concurrently   *)
(* with the import, so it may verify the last one before the first is      *)
(* written.  What verification reads from the database, and not from the   *)
(* batch, is:                                                              *)
(*   - the checkpoint of the block's epoch (GetMasternodes, GetValidator); *)
(*   - the masternodes that UpdateM1 stored at the last gap block          *)
(*     (Posv.snapshot walks back to it);                                   *)
(*   - for a checkpoint, the state of the head, from which HookVerifyMNs   *)
(*     recomputes the validators.                                          *)
(* The fetched blocks extend the head; a block is its number.              *)
(***************************************************************************)
EXTENDS Naturals, Sequences

CONSTANTS
    Epoch, Gap,    \* Posv.Epoch, Posv.Gap
    MaxResults,    \* the longest list queue.Results returns
    MaxNumber      \* the last block there is

VARIABLES
    head,      \* the head block
    results,   \* what queue.Results returned: these blocks, in order
    i,         \* the index of the loop
    inserts,   \* the batch that is being collected
    verified,  \* the batch that was imported last, and the head it met
    status     \* where the function is

vars == <<head, results, i, inserts, verified, status>>

Init ==
    /\ head \in 0..MaxNumber
    /\ results = <<>>
    /\ i = 0
    /\ inserts = <<>>
    /\ verified = [batch |-> <<>>, head |-> head]
    /\ status = "idle"

(* queue.Results(true): the next blocks above the head. *)
Results ==
    /\ status = "idle"
    /\ \E n \in 1..MaxResults :
         /\ head + n <= MaxNumber
         /\ results' = [k \in 1..n |-> head + k]
    /\ i' = 1
    /\ inserts' = <<>>
    /\ status' = "loop"
    /\ UNCHANGED <<head, verified>>

cutsHereNotGap(n) == n % Epoch \in {0, Epoch - 1}       \* slip: a case missing

(* The last block of a batch: a checkpoint, the one before, a gap block. *)
cutsHere(n) == n % Epoch \in {0, Epoch - 1, Epoch - Gap}

(* importBlockResults: the batch is imported, or up to a block that fails. *)
import(batch, ok) ==
    /\ verified' = [batch |-> batch, head |-> head]
    /\ \/ /\ ok
          /\ head' = batch[Len(batch)]
       \/ /\ ~ ok
          /\ \E k \in 0..(Len(batch) - 1) : head' = head + k

Loop ==
    /\ status = "loop"
    /\ i <= Len(results)
    /\ LET batch == Append(inserts, results[i]) IN
         \/ /\ cutsHere(results[i])
            /\ import(batch, TRUE)
            /\ inserts' = <<>>
            /\ i' = i + 1
            /\ UNCHANGED status
         \/ /\ cutsHere(results[i])
            /\ import(batch, FALSE)
            /\ status' = "idle"
            /\ inserts' = <<>>
            /\ UNCHANGED i
         \/ /\ ~ cutsHere(results[i])
            /\ inserts' = batch
            /\ i' = i + 1
            /\ UNCHANGED <<head, verified, status>>
    /\ UNCHANGED results

(* What is left makes a batch of its own; then the next results are taken, or
   the sync ends because it has passed the height it was started for. *)
Rest ==
    /\ status = "loop"
    /\ i = Len(results) + 1
    /\ \/ /\ inserts # <<>>
          /\ \E ok \in BOOLEAN : import(inserts, ok)
       \/ /\ inserts = <<>>
          /\ UNCHANGED <<head, verified>>
    /\ inserts' = <<>>
    /\ status' = "idle"
    /\ UNCHANGED <<results, i>>

Next == Results \/ Loop \/ Rest

Spec == Init /\ [][Next]_vars

-----------------------------------------------------------------------------
blocks(batch) == {batch[k] : k \in 1..Len(batch)}

(* A checkpoint is verified when its parent is the head, whatever lists the
   queue returns: HookVerifyMNs reads the state of the head (backend.go), and
   only the state of the parent gives the validators of the checkpoint. *)
CheckpointOnParent ==
    \A n \in blocks(verified.batch) : n % Epoch = 0 => n = verified.head + 1

(* No block shares a batch with the checkpoint or the gap block it depends on:
   the checkpoint's list and the masternodes that UpdateM1 stores are in the
   database before any header that needs them is verified. *)
DependsOnWritten ==
    \A m, n \in blocks(verified.batch) :
      m < n => m % Epoch \notin {0, Epoch - Gap}
=============================================================================
