------------------------------ MODULE Bitmaps ------------------------------
(***************************************************************************)
(* Bitmaps of subword counts and their distance (saxutil.go).  A bitmap    *)
(* divides the counts of the subwords of one length by the greatest of     *)
(* them.  Its entries are kept in parts of a Unit that all counts that     *)
(* occur divide, so they are exact, and a distance is a number of parts of *)
(* Unit squared.                                                           *)
(***************************************************************************)
EXTENDS Subwords, FiniteSetsExt, Functions

CONSTANT Unit  \* a multiple of every greatest count

(* Gen_bitmap; where every count is 0 the map is empty, and a missing      *)
(* entry is read as 0.                                                     *)
GenBitmap(ct, n) ==
    LET most == Max({ct[s] : s \in GenSubwords(n)} \cup {0})
    IN  [s \in GenSubwords(n) |-> IF most = 0 THEN 0 ELSE (ct[s] * Unit) \div most]

(* Bitmap_distance. *)
BitmapDistance(map1, map2, n) ==
    MapThenSumSet(LAMBDA s : (map1[s] - map2[s]) * (map1[s] - map2[s]), GenSubwords(n))

(* The distances of two counts, one for each length, as proc_window        *)
(* computes them.                                                          *)
Distances(ct1, ct2) ==
    [n \in SubLengths |-> BitmapDistance(GenBitmap(ct1, n), GenBitmap(ct2, n), n)]

(* Their product, dist_mul.                                                *)
Multiplied(d) == FoldFunction(LAMBDA x, y : x * y, 1, d)
=============================================================================
