------------------------------- MODULE MCSfmm -------------------------------
(* Small instances of Sfmm.                                                *)
EXTENDS Sfmm

(* What the program writes looks like the header of an allocated block.    *)
MCData == {set_header(0, 2, TRUE, FALSE)}

(* Words that are neither a header nor a footer, nor the content of a      *)
(* block that is held, are only read by the checks of sf_free on a pointer *)
(* that has been freed, unless a block is not cut exactly to its request.  *)
Boundaries == Units \cap (Blocks \cup freed \cup {Epilogue(heap)})
MCView == <<[u \in Boundaries |-> heap.mem[u]], heap.lists, heap.pages,
            held, peak, freed, aborted, ContentsKept>>
=============================================================================
