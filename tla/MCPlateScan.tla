----------------------------- MODULE MCPlateScan -----------------------------
(* Pictures of one plate, with and without what else is to be seen. *)
EXTENDS PlateScan

Character(x, y, w) == [x |-> x, y |-> y, w |-> w, h |-> 40]
Inside(b) == [x |-> b.x + 1, y |-> b.y + 1, w |-> b.w - 2, h |-> b.h - 2]

\* A row of characters of which the first and the last may be wider or narrower
\* than the others; in "two" each of them has an outer and an inner contour.
Plate(x, y, gap, rise, n, ends, two) ==
  LET width(i) == IF i = 1 THEN ends[1] ELSE IF i = n THEN ends[2] ELSE 20
      outer == [i \in 1..n |-> Character(x + (i - 1) * gap, y + (i - 1) * rise, width(i))]
  IN
  IF two THEN outer \o [i \in 1..n |-> Inside(outer[i])] ELSE outer

Plates(widths) ==
  {Plate(a[1], a[2], g[1], g[2], n, ends, two) :
     a \in {<<30, 4>>, <<150, 60>>, <<318, 200>>}, g \in {<<24, 0>>, <<30, 3>>, <<50, 12>>, <<99, 6>>},
     n \in {3, 7}, ends \in widths, two \in BOOLEAN}

\* A sign on the same line, one in the corner, a lamp, and a "1" that is too narrow.
Others == {<<>>, <<Character(610, 210, 20)>>, <<Character(100, 6, 24), Character(150, 8, 24)>>,
           <<Character(120, 300, 70), Character(320, 220, 8)>>}

MCPictures ==
  LET even == Plates({<<20, 20>>})
      uneven == Plates({<<28, 16>>, <<16, 28>>})
  IN {o \o p : o \in Others, p \in even} \cup {Reverse(p) \o o : o \in Others, p \in even}
       \cup uneven \cup {Reverse(p) : p \in uneven} \cup {<<>>, <<Character(5, 300, 20)>>}
MCTexts ==
  {<<>>, <<"x">>, <<"x", " ">>, <<"x", " ", "1", "2", "3">>, <<"x", " ", "1", "x", "2", "3">>, <<"1", "2", "x", " ", "1", "2", "3", "4">>,
   <<"x", " ", "1", "2", "3", "4", "x">>, <<" ", "x", " ", "1", "2", "3", "4">>}
=============================================================================
