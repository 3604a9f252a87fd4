------------------------------- MODULE MCHeap -------------------------------
(***************************************************************************)
(* Heap.tla on a heap of a few pages of eight words.                       *)
(***************************************************************************)
EXTENDS Heap

(* The descriptors of the slabs.  By SlabsTileHeap every word that the     *)
(* allocator reads is one of them, so states that differ only in other     *)
(* words have the same future up to those words.                           *)
Descriptors ==
  {<<s, heap.mem[s]>> : s \in heap.slabs} \cup
  {<<End(heap, s), heap.mem[End(heap, s)]>> : s \in heap.slabs}

DescriptorView ==
  <<alloc_base, free_root, heap.last, heap.slabs, heap.fences, Descriptors,
    live, foreign, status>>
=============================================================================
