------------------------------ MODULE PlateScan ------------------------------
(***************************************************************************)
(* How the pictures of the repository's plate readers become four digits:   *)
(* the rectangles around the contours are filtered, sorted, searched for    *)
(* the longest row ("snake"), cut out of the picture and given to the OCR.  *)
(*                                                                         *)
(* The gates (Blocking_Raspberry.cpp and those of July) follow the row from *)
(* rectangle to rectangle.  The seven experiments before them cut a frame   *)
(* of the width of the row, and two of these read only when topic "step"    *)
(* asks for it.                                                             *)
(*                                                                         *)
(* Sequences start at 1 here and at 0 in the code: boxes[j + 1] is          *)
(* boundRect2[j].                                                           *)
(***************************************************************************)
EXTENDS Integers, FiniteSets, Sequences, SequencesExt

CONSTANTS
  Pictures,   \* contours of a picture, in the order in which OpenCV finds them
  Texts       \* what the OCR may make of a plate

Box == [x : Int, y : Int, w : Nat \ {0}, h : Nat \ {0}]
Digits == {"1", "2", "3", "4", "5", "6", "7", "8", "9", "0"}

ASSUME PictureAssumption == \A p \in Pictures : p \in Seq(Box)
ASSUME TextAssumption == \A t \in Texts : t \in Seq(STRING)

VARIABLES
  program,    \* which of the programs runs; it never changes
  mode,       \* 1: it reads, 2: it has read; programs that nobody asks stay at 1
  stage,      \* how far the picture is
  picture,    \* the contours
  boxes,      \* boundRect2 with the cell behind its last one
  turn,       \* of the outer loop of the sort
  select, friends, plate_width,
  crop,       \* the columns and rows that the OCR gets
  numbers     \* number_back

scan == <<picture, boxes, turn, select, friends, plate_width, crop>>
vars == <<program, mode, stage, scan, numbers>>

(***************************************************************************)
(* The programs: how far the snake sees, how steep it may go (per cent),    *)
(* whether it follows the row or frames it, with how much to the right, and *)
(* whether it reads the number and has to be asked to.                      *)
(***************************************************************************)
Gate == [name |-> "Blocking_Raspberry", reach |-> 200, slope |-> 15,
         framed |-> FALSE, right |-> 0, reads |-> TRUE, asked |-> FALSE]
\* The July gates have other filters and windows around the same search.
July20 == Gate
July20Socket == Gate
July21 == Gate
July21Socket == Gate
July22 == Gate
July22Socket == Gate
July22InOut == Gate
July24 == Gate
July24Socket == Gate
July24InOut == Gate

FindVehicle == [name |-> "find_vehicle", reach |-> 300, slope |-> 15,
                framed |-> TRUE, right |-> 40, reads |-> FALSE, asked |-> FALSE]
FindVehicleFiltered == [FindVehicle EXCEPT !.name = "find_vehilce_filtered"]
Histogram == [FindVehicle EXCEPT !.name = "histogram"]
Histogram2 == [FindVehicle EXCEPT !.name = "histogram2"]
Histogram3 == [FindVehicle EXCEPT !.name = "histogram3"]
TotalCamera == [name |-> "total_camera", reach |-> 300, slope |-> 25,
                framed |-> TRUE, right |-> 30, reads |-> TRUE, asked |-> TRUE]
Morphology == [TotalCamera EXCEPT !.name = "morphology"]
Programs == {Gate, FindVehicle, FindVehicleFiltered, Histogram, Histogram2, Histogram3,
             TotalCamera, Morphology,
             July20, July20Socket, July21, July21Socket, July22, July22Socket, July22InOut,
             July24, July24Socket, July24InOut}

Unset == 0       \* select has no initial value
NoCrop == [left |-> 0, right |-> 0, top |-> 0, bottom |-> 0]
Empty == [x |-> 0, y |-> 0, w |-> 0, h |-> 0]
FirstMode(p) == IF p.asked THEN 0 ELSE 1

Stages == {"idle", "filter", "sort", "snake", "collect", "frame", "read", "died"}

TypeOK ==
  /\ program \in Programs /\ mode \in 0..2 /\ stage \in Stages
  /\ picture \in Pictures \cup {<<>>}
  /\ boxes \in Seq(Box \cup {Empty}) /\ turn \in Nat
  /\ select \in Nat /\ friends \in Nat /\ plate_width \in Nat
  /\ crop \in [left : Int, right : Int, top : Int, bottom : Int]
  /\ numbers \in Seq(Digits)

Blank ==
  /\ picture = <<>> /\ boxes = <<>> /\ turn = 0
  /\ select = Unset /\ friends = 0 /\ plate_width = 0 /\ crop = NoCrop

Init ==
  /\ program \in Programs /\ mode = FirstMode(program) /\ stage = "idle"
  /\ Blank /\ numbers = <<>>

\* The locals of the callback are gone when it returns.
Return ==
  /\ stage' = "idle"
  /\ picture' = <<>> /\ boxes' = <<>> /\ turn' = 0
  /\ select' = Unset /\ friends' = 0 /\ plate_width' = 0 /\ crop' = NoCrop

-----------------------------------------------------------------------------
\* 2 on topic "step" starts the search, 3 ends the report of what it found.
StepCallback(n) ==
  /\ stage = "idle" /\ program.asked
  /\ \/ n = 2 /\ mode = 0 /\ mode' = 1
     \/ n = 3 /\ mode = 2 /\ mode' = 0
  /\ UNCHANGED <<program, stage, scan, numbers>>

TakePicture(p) ==
  /\ stage = "idle" /\ mode = 1
  /\ picture' = p /\ stage' = "filter"
  /\ UNCHANGED <<program, mode, boxes, turn, select, friends, plate_width, crop, numbers>>

-----------------------------------------------------------------------------
\* height / width is a division of integers: 0.5 to 2.5 is 1 to 2 after it.
FitsACharacter(b) ==
  LET ratio == b.h \div b.w IN
  ratio \in 1..2 /\ b.w * b.h \in 200..2000

\* refinery_count is raised before it is used: cell 0 stays an empty rectangle.
Stored(p) == FoldLeft(LAMBDA b, c : IF FitsACharacter(c) THEN Append(b, c) ELSE b, <<Empty>>, p)

(***************************************************************************)
(* boundRect2 has as many cells as there are contours.  When all of them    *)
(* fit, the last one is written behind its end, and that may be noticed.    *)
(***************************************************************************)
Overrun(p) == p # <<>> /\ Len(Stored(p)) > Len(p)

Filter ==
  /\ stage = "filter"
  /\ boxes' = Stored(picture)
  /\ stage' \in {"sort"} \cup (IF Overrun(picture) THEN {"died"} ELSE {})
  /\ turn' = 1
  /\ UNCHANGED <<program, mode, picture, select, friends, plate_width, crop, numbers>>

\* resize() keeps refinery_count cells, one less than were filled.
Size(b) == Len(b) - 1

Bubble(b, j) ==
  IF b[j].x > b[j + 1].x THEN [b EXCEPT ![j] = b[j + 1], ![j + 1] = b[j]] ELSE b
Pass(b, last) == FoldLeft(Bubble, b, [j \in 1..last |-> j])
\* Turn i compares up to the cell Size - i + 1 and its neighbour: the first one reads behind the end.
SortInside ==
  /\ stage = "sort"
  /\ \/ turn <= Size(boxes) /\ boxes' = Pass(boxes, Size(boxes) - turn) /\ turn' = turn + 1 /\ UNCHANGED stage
     \/ turn > Size(boxes) /\ stage' = "snake" /\ UNCHANGED <<boxes, turn>>
  /\ UNCHANGED <<program, mode, picture, select, friends, plate_width, crop, numbers>>

Sort ==
  /\ stage = "sort"
  /\ \/ /\ turn <= Size(boxes)
        /\ boxes' = Pass(boxes, Size(boxes) - turn + 1)
        /\ turn' = turn + 1
        /\ UNCHANGED stage
     \/ turn > Size(boxes) /\ stage' = "snake" /\ UNCHANGED <<boxes, turn>>
  /\ UNCHANGED <<program, mode, picture, select, friends, plate_width, crop, numbers>>

-----------------------------------------------------------------------------
Distance(a, b) == IF a > b THEN a - b ELSE b - a
AtLeastOne(d) == IF d = 0 THEN 1 ELSE d
DeltaX(a, b) == Distance(a.x, b.x)
\* delta_y / delta_x below a number of hundredths
OnLine(a, b, percent) ==
  100 * AtLeastOne(Distance(a.y, b.y)) < percent * AtLeastOne(DeltaX(a, b))

(***************************************************************************)
(* The snake looks at the rectangles to its right until one is too far.     *)
(* What it saw of the last one, even of the one too far, is the width.      *)
(***************************************************************************)
TooFar(b, i) == {j \in (i + 1)..Size(b) : DeltaX(b[i], b[j]) > program.reach}
LastSeen(b, i) ==
  IF TooFar(b, i) = {} THEN Size(b) ELSE CHOOSE j \in TooFar(b, i) : \A k \in TooFar(b, i) : j <= k
Eaten(b, i) ==
  {j \in (i + 1)..LastSeen(b, i) \ TooFar(b, i) : OnLine(b[i], b[j], program.slope)}
WidthSeen(b, i) == AtLeastOne(DeltaX(b[i], b[LastSeen(b, i)]))

Count(b, i) == Cardinality(Eaten(b, i))
\* The first snake that ate more than all before it ate.
FullestLast(b) ==
  {i \in 1..Size(b) : /\ Count(b, i) > 0
                      /\ \A j \in 1..Size(b) : Count(b, j) <= Count(b, i)
                      /\ \A j \in (i + 1)..Size(b) : Count(b, j) < Count(b, i)}
Fullest(b) ==
  {i \in 1..Size(b) : /\ Count(b, i) > 0
                      /\ \A j \in 1..Size(b) : Count(b, j) <= Count(b, i)
                      /\ \A j \in 1..(i - 1) : Count(b, j) < Count(b, i)}

Snake ==
  /\ stage = "snake"
  /\ \/ /\ Fullest(boxes) = {}
        /\ UNCHANGED <<select, friends, plate_width>>
     \/ \E i \in Fullest(boxes) :
          /\ select' = i /\ friends' = Count(boxes, i)
          /\ plate_width' = IF program.framed THEN WidthSeen(boxes, i) ELSE plate_width
  /\ stage' = IF program.framed THEN "frame" ELSE "collect"
  /\ UNCHANGED <<program, mode, picture, boxes, turn, crop, numbers>>

-----------------------------------------------------------------------------
\* Six friends make a plate; the frame must lie inside 640 x 480 points.
FrameFitsLeft(b) ==
  b.y - 20 > 0 /\ b.x - 20 > 0 /\ 10 * (b.y + 20) + 3 * plate_width < 4800
FrameFits(b) ==
  /\ b.y - 20 > 0 /\ b.x - 20 > 0
  /\ 10 * (b.y + 20) + 3 * plate_width < 4800
  /\ b.x + plate_width + 40 < 640

Frame ==
  /\ stage = "frame"
  /\ \/ /\ friends >= 6 /\ FrameFits(boxes[select])
        /\ crop' = LET b == boxes[select] IN
             [left |-> b.x - 20, right |-> b.x + plate_width + program.right,
              top |-> b.y - 20, bottom |-> (10 * (b.y + 20) + 3 * plate_width) \div 10]
        /\ stage' = "read"
        /\ UNCHANGED <<picture, boxes, turn, select, friends, plate_width>>
     \/ /\ ~(friends >= 6 /\ FrameFits(boxes[select]))
        /\ Return
  /\ UNCHANGED <<program, mode, numbers>>

\* carNumber: from rectangle to rectangle to the right, 100 points at most each.
FollowWithoutLast(b, s) ==
  FoldLeft(LAMBDA row, i :
             LET a == b[row[Len(row)]] IN
             IF a.x <= b[i].x /\ DeltaX(a, b[i]) <= 100 /\ OnLine(a, b[i], 25)
             THEN Append(row, i) ELSE row,
           <<s>>, [i \in 1..(Size(b) - 1) |-> i])
Follow(b, s) ==
  FoldLeft(LAMBDA row, i :
             LET a == b[row[Len(row)]] IN
             IF a.x <= b[i].x /\ DeltaX(a, b[i]) <= 100 /\ OnLine(a, b[i], 25)
             THEN Append(row, i) ELSE row,
           <<s>>, [i \in 1..Size(b) |-> i])

CentreX(b) == (2 * b.x + b.w) \div 2
CentreY(b) == (2 * b.y + b.h) \div 2

\* The part of the picture around the middle of the row.
RowCrop(row) ==
  LET first == row[1]
      last == row[Len(row)]
      width == ((CentreX(last) - CentreX(first) + last.w) * 105) \div 100
      height == ((FoldLeft(LAMBDA s, b : s + b.h, 0, row) \div Len(row)) * 12) \div 10
      x == (CentreX(first) + CentreX(last)) \div 2
      y == (CentreY(first) + CentreY(last)) \div 2
  IN [left |-> x - width \div 2, right |-> x - width \div 2 + width,
      top |-> y - height \div 2, bottom |-> y - height \div 2 + height]

\* Without a snake select is whatever was in its memory; GaussianBlur throws on an empty picture.
Collect ==
  /\ stage = "collect"
  /\ \/ \E s \in (IF select = Unset THEN 1..Len(boxes) ELSE {select}) :
          LET path == Follow(boxes, s)
              row == [i \in 1..Len(path) |-> boxes[path[i]]]
              c == RowCrop(row)
          IN /\ select' = path[Len(path)]
             /\ crop' = c
             /\ stage' = IF c.left < c.right /\ c.top < c.bottom THEN "read" ELSE "died"
     \/ /\ select = Unset /\ stage' = "died"
        /\ UNCHANGED <<select, crop>>
  /\ UNCHANGED <<program, mode, picture, boxes, turn, friends, plate_width, numbers>>

-----------------------------------------------------------------------------
\* find_number(): 0 no space, 1 nothing behind it, 2 four digits, 3 something else.
SpaceIn(t) == {i \in 1..Len(t) : t[i] = " "}
FirstSpace(t) == CHOOSE i \in SpaceIn(t) : \A j \in SpaceIn(t) : i <= j
FourOfAny(t, i) == i + 3 <= Len(t)
FourDigits(t, i) == i + 3 <= Len(t) /\ \A k \in i..(i + 3) : t[k] \in Digits
Found(t) ==
  IF SpaceIn(t) = {} THEN 0
  ELSE IF FirstSpace(t) = Len(t) THEN 1
  ELSE IF FourDigits(t, FirstSpace(t) + 1) THEN 2 ELSE 3

\* number_back keeps its value when nothing is found.
FindNumber(t) ==
  numbers' = IF Found(t) = 2 THEN SubSeq(t, FirstSpace(t) + 1, FirstSpace(t) + 4) ELSE numbers

\* Only OK_signal 2 ends the search of a program that was asked.
ReadText(t) ==
  /\ stage = "read"
  /\ IF program.reads THEN FindNumber(t) ELSE UNCHANGED numbers
  /\ mode' = IF program.asked /\ Found(t) = 2 THEN 2 ELSE mode
  /\ Return
  /\ UNCHANGED program

Restart ==
  /\ stage = "died"
  /\ mode' = FirstMode(program) /\ numbers' = <<>>
  /\ Return
  /\ UNCHANGED program

Next ==
  \/ \E n \in {2, 3} : StepCallback(n)
  \/ \E p \in Pictures : TakePicture(p)
  \/ Filter \/ Sort \/ Snake \/ Frame \/ Collect
  \/ \E t \in Texts : ReadText(t)
  \/ Restart

Spec == Init /\ [][Next]_vars

-----------------------------------------------------------------------------
Sorted == {"snake", "frame", "collect", "read"}
Occurs(b, s) == Cardinality({i \in 1..Len(s) : s[i] = b})
Accepted == {b \in ToSet(picture) : FitsACharacter(b)}

(***************************************************************************)
(* The three slips of the filter (Blocking_Raspberry.cpp:172, :177, :180)   *)
(* come to this: the array is one empty rectangle and each contour that was  *)
(* accepted, as often as the picture has it, in order; so what falls behind *)
(* its end is a rightmost rectangle, not the last one accepted.             *)
(***************************************************************************)
LosesARightmost ==
  stage \in Sorted =>
    /\ \A i \in 1..(Len(boxes) - 1) : boxes[i].x <= boxes[i + 1].x
    /\ Occurs(Empty, boxes) = 1
    /\ \A b \in (ToSet(boxes) \cup ToSet(picture)) \ {Empty} :
         Occurs(b, boxes) = IF FitsACharacter(b) THEN Occurs(b, picture) ELSE 0

(***************************************************************************)
(* The loop that stops at the first rectangle too far away                  *)
(* (Blocking_Raspberry.cpp:200) loses no friend, and the snake that is      *)
(* chosen has as many friends as any and is the leftmost of those           *)
(* (Blocking_Raspberry.cpp:225).                                            *)
(***************************************************************************)
FriendsOf(i) ==
  {j \in (i + 1)..Size(boxes) :
     DeltaX(boxes[i], boxes[j]) <= program.reach /\ OnLine(boxes[i], boxes[j], program.slope)}
FullestIsChosen ==
  stage \in {"frame", "collect"} =>
    IF select = Unset
    THEN \A i \in 1..Size(boxes) : FriendsOf(i) = {}
    ELSE /\ friends = Cardinality(FriendsOf(select))
         /\ \A i \in 1..Size(boxes) : Cardinality(FriendsOf(i)) <= friends
         /\ \A i \in 1..(select - 1) : Cardinality(FriendsOf(i)) < friends

(***************************************************************************)
(* What is cut out by width lies inside the picture and holds every friend  *)
(* of the snake, although the width is that of the last rectangle seen and  *)
(* not of the last friend (total_camera.cpp:140-150), as long as a character*)
(* is no wider than what is added at the right.                             *)
(***************************************************************************)
FrameHoldsFriends ==
  stage = "read" /\ program.framed =>
    /\ crop.left >= 0 /\ crop.right <= 640 /\ crop.top >= 0 /\ crop.bottom <= 480
    /\ \A j \in FriendsOf(select) :
         boxes[j].w <= program.right =>
           crop.left <= boxes[j].x /\ boxes[j].x + boxes[j].w <= crop.right

(***************************************************************************)
(* A plate alone in the picture, its strokes seen from outside and from     *)
(* inside as Canny gives them, is cut out by the gate with all characters   *)
(* but for a part of the first: the frame is padded by the width of the     *)
(* last one on both sides (Blocking_Raspberry.cpp:290), so a first one that *)
(* is wider loses at most half of what it is wider.  The second contour of  *)
(* the last character is what falls behind the end (:172-177).  Two points  *)
(* of rounding and of an inner contour aside.                               *)
(*                                                                         *)
(* The premises: three characters at least, of any widths, side by side on  *)
(* a line and with strokes of one thickness; from one to the next 23 points *)
(* at least, or the step from an inner contour to the next character may be *)
(* steep, and 100 at most, which is how far carNumber jumps; from the first *)
(* to the last 198 at most, so that the first snake sees both contours of   *)
(* the last; and the empty rectangle in the corner is out of reach.         *)
(***************************************************************************)
Twin(a, b) ==
  /\ a.x < b.x /\ b.x <= a.x + 2 /\ a.y < b.y /\ b.y <= a.y + 2
  /\ b.w = a.w - 2 * (b.x - a.x)
Outer == {b \in Accepted : \E c \in Accepted : Twin(b, c)}
Inner == {c \in Accepted : \E b \in Accepted : Twin(b, c)}
OnePlate ==
  /\ Accepted = Outer \cup Inner /\ Cardinality(Outer) >= 3
  /\ \E d, e \in 1..2 : \A a, c \in Accepted : Twin(a, c) => c.x = a.x + d /\ c.y = a.y + e
  /\ \A a, b \in Outer : a # b => OnLine(a, b, 14) /\ DeltaX(a, b) \in 23..198
  /\ \A a, b \in Outer : a.x < b.x => /\ a.x + a.w <= b.x
                                      /\ \E c \in Outer : a.x < c.x /\ c.x <= a.x + 100
  /\ \A a \in Outer : ~OnLine(Empty, a, 25) /\ a.x > 100
IsFirst(b) == \A c \in Outer : b.x <= c.x
IsLast(b) == \A c \in Outer : c.x <= b.x
PlateIsKept ==
  stage = "read" /\ ~program.framed /\ OnePlate =>
    \A b, l \in Outer :
      IsLast(l) => /\ b.x + b.w <= crop.right + 2
                   /\ \/ crop.left <= b.x + 2
                      \/ IsFirst(b) /\ 2 * (crop.left - b.x - 2) <= b.w - l.w

(***************************************************************************)
(* A program that was asked says that it has finished only after it has     *)
(* read a number (total_camera.cpp:171-173): a plate without four digits    *)
(* behind the first space leaves it searching.                              *)
(***************************************************************************)
ReportsOnlyRead == program.asked /\ mode = 2 => Len(numbers) = 4
=============================================================================
