--------------------------- MODULE MCLectureHall ---------------------------
(* Instances of LectureHall for TLC.                                        *)
EXTENDS LectureHall

CONSTANTS s1, s2, comb, pres

\* Two versions of one lecture, and one of a second.
ThreeParts == {<<s1, comb>>, <<s1, pres>>, <<s2, comb>>}
=============================================================================
