------------------------------ MODULE MCLibrary ------------------------------
(***************************************************************************)
(* Library for TLC.  The files a user may import or find on disk are all   *)
(* those with at most MaxParts groups and item copies: groups in every     *)
(* order and under every parent, repeated ids, unknown parents and cycles  *)
(* included, and copies of an item in any group with any stamp.            *)
(***************************************************************************)
EXTENDS Library

CONSTANT MaxParts

EntryLists == UNION {[1..n -> GroupEntry] : n \in 0..MaxParts}
ItemSets ==
    {S \in SUBSET [id : ItemId, group : Ref, stamp : 0..MaxNow] : Cardinality(S) <= MaxParts}

MCIncomingFiles ==
    {f \in [groups : EntryLists, items : ItemSets] : Len(f.groups) + Cardinality(f.items) <= MaxParts}
=============================================================================
