----------------------------- MODULE MCArchive -----------------------------
(* Two days of records, two imports. *)
EXTENDS Archive

MCRecords == {<<1, 1>>, <<2, 2>>, <<2, 3>>, <<3, 4>>, <<6, 5>>}
MCFilters == {<<0, 9>>, <<2, 6>>, <<2, 2>>}
\* one day: two short chunks, one right behind the other, inside of a long one
MCAbutting == {<<1, 1>>, <<2, 2>>, <<2, 3>>, <<3, 4>>, <<4, 5>>}
=============================================================================
