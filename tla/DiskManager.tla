---------------------------- MODULE DiskManager ----------------------------
(***************************************************************************)
(* Page I/O (src/src/storage/disk_manager.h, disk_manager.cpp).  The file  *)
(* outlives the process.  A page is read and written whole: pread and      *)
(* pwrite loop until the page is done.  I/O errors are left out.           *)
(***************************************************************************)
EXTENDS Integers

CONSTANT MaxPages   \* bound: no page is allocated beyond this many

ASSUME MaxPagesAssumption == MaxPages \in Nat

VARIABLES
    disk,       \* the database file, page by page
    numPages    \* num_pages_, and the length of the file in pages

diskVars == <<disk, numPages>>

Page == 0..(MaxPages - 1)

Zeros == <<>>   \* a page of zero bytes: nothing was written to it yet

\* A file of `n` pages, as the constructor finds it.
DiskInit(n) ==
    /\ disk = [p \in Page |-> Zeros]
    /\ numPages = n

\* ReadPage throws for a page past the end of the file.
Readable(p) == p < numPages
ReadPage(p) == disk[p]

WritePage(p, content) == disk' = [disk EXCEPT ![p] = content]

\* AllocatePage appends an empty page.
NextPageId == numPages
AllocatePage ==
    /\ numPages' = numPages + 1
    /\ disk' = [disk EXCEPT ![numPages] = Zeros]
=============================================================================
