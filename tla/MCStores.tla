------------------------------ MODULE MCStores ------------------------------
(* What a worker keeps on its disk, one store in each behaviour: the record *)
(* of an attempt (two sessions, containers, completion ids and exits, so    *)
(* every call can be the first, a repeat, or in conflict), the directory of *)
(* records (two processes), and the dataset cache (four datasets, of which  *)
(* it holds two or three, or the large one with the smallest).              *)
EXTENDS AttemptJournal, DurableRecord, DatasetCache

VARIABLE store

Sizes == <<1, 2, 2, 4>>

MCInit ==
    /\ store \in {"journal", "directory", "cache"}
    /\ JournalInit /\ DirectoryInit /\ CacheInit

MCNext ==
    \/ store = "journal" /\ JournalNext /\ UNCHANGED <<store, directory, cache>>
    \/ store = "directory" /\ DirectoryNext /\ UNCHANGED <<store, rec, cache>>
    \/ store = "cache" /\ CacheNext /\ UNCHANGED <<store, rec, directory>>

MCSpec == MCInit /\ [][MCNext]_<<store, rec, directory, cache>>
=============================================================================
