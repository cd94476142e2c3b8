----------------------------- MODULE Searches ------------------------------
(***************************************************************************)
(* The three programs that search for a size: each is run by itself.       *)
(***************************************************************************)
EXTENDS Tlb, MemSize, CacheLevels

Init ==
  \/ TlbInit /\ MemIdle /\ CacheIdle
  \/ TlbIdle /\ MemInit /\ CacheIdle
  \/ TlbIdle /\ MemIdle /\ CacheInit

Next ==
  \/ TlbNext /\ UNCHANGED <<memVars, cacheVars>>
  \/ MemNext /\ UNCHANGED <<tlbVars, cacheVars>>
  \/ CacheNext /\ UNCHANGED <<tlbVars, memVars>>

Spec == Init /\ [][Next]_<<tlbVars, memVars, cacheVars>>
=============================================================================
