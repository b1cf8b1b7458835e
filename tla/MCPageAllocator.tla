-------------------------- MODULE MCPageAllocator --------------------------
(* Small instances of PageAllocator for TLC: pages of 4 units, FrameList   *)
(* entries of 1 unit.                                                      *)
EXTENDS PageAllocator, TLC

UsableAt(b, l) == [type |-> "usable", base |-> b, length |-> l]
Reserved(b, l) == [type |-> "reserved", base |-> b, length |-> l]

\* No usable memory; less than a page; the longest entry not the first, tied
\* with a later one, or of a length that is no multiple of a page; a reserved
\* entry longer than all.
MCMemMaps == {
    << >>,
    <<Reserved(4, 16)>>,
    <<UsableAt(4, 3)>>,
    <<UsableAt(4, 8), Reserved(12, 40), UsableAt(52, 14)>>,
    <<UsableAt(8, 12), UsableAt(24, 12)>> }

=============================================================================
