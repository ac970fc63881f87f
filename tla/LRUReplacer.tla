---------------------------- MODULE LRUReplacer ----------------------------
(***************************************************************************)
(* The replacement policy (src/src/buffer/lru_replacer.h, .cpp): the list  *)
(* of evictable frames, most recently released first.  lru_map_ is the     *)
(* index of lru_list_ and holds the same frames, so the list is the state. *)
(***************************************************************************)
EXTENDS SequencesExt

\* Evict: false when no frame is evictable, otherwise the back of the list.
CanEvict(list) == list # <<>>
EvictedFrame(list) == Last(list)
AfterEvict(list) == Front(list)

\* lru_map_: where in the list the frame is.
Place(list, f) == CHOOSE i \in 1..Len(list) : list[i] = f

\* Pin: the frame leaves the list if it is there.
AfterPin(list, f) == IF Contains(list, f) THEN RemoveAt(list, Place(list, f)) ELSE list

\* Mutant: a frame that is already in the list is put in front once more.
AfterUnpinTwice(list, f, capacity) == <<f>> \o list

\* Unpin: the frame goes to the front, a full list losing its back.
AfterUnpin(list, f, capacity) ==
    IF Contains(list, f) THEN list
    ELSE <<f>> \o (IF Len(list) >= capacity THEN Front(list) ELSE list)
=============================================================================
