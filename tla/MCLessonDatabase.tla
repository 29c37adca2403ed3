--------------------------- MODULE MCLessonDatabase ---------------------------
(* Two tables stand for the sixteen: employee (keyed, rows deleted by lessons, *)
(* two of them) and transactions (no key, its CREATE strict).                  *)
EXTENDS LessonDatabase

MCRows == <<2, 1>>
MCKeyed == {1}
MCStrict == {2}
MCLosable == {1}
===============================================================================
