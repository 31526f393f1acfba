-------------------------------- MODULE Oltk --------------------------------
(***************************************************************************)
(* The toolkit of DM2 (gta02-dm2/src/oltk/oltk.c on gr_fb.c): buttons in   *)
(* the order they were added, the last one on top, samples of the touch    *)
(* screen fed to them, and the redrawing of what has changed.              *)
(*                                                                         *)
(* Operators only, on a record ui for struct oltk with the frame buffer:   *)
(* what a button draws is its face (its name, or the text of a view) and   *)
(* its state, and the screen says what was drawn last at every point.      *)
(***************************************************************************)
EXTENDS Integers, Sequences, FiniteSetsExt, Functions

CONSTANTS
  Width, Height, \* the resolution, in points
  Word           \* 2^32 in C: wraps an unsigned int

ASSUME OltkAssumption ==
  /\ Width \in Nat \ {0} /\ Height \in Nat \ {0} /\ Word \in Nat /\ Word > 4 * Width

\* A loop: x before the first step and after each of them.
Iterates(step, x) ==
  LET after[i \in 0 .. Len(step)] == IF i = 0 THEN x ELSE step[i][after[i - 1]]
  IN  after

Points == (0 .. Width - 1) \X (0 .. Height - 1)
Background == <<0, "none">>

\* HAS_POINT, and the points of a rectangle that are on the screen.
Covers(r, p) ==
  p[1] >= r.x /\ p[1] < r.x + r.width /\ p[2] >= r.y /\ p[2] < r.y + r.height
PointsOf(r) == {p \in Points : Covers(r, p)}
Empty == [x |-> 0, y |-> 0, width |-> 0, height |-> 0]
-----------------------------------------------------------------------------
(***************************************************************************)
(* Rectangles.                                                             *)
(***************************************************************************)
Rects == [x : Int, y : Int, width : Nat, height : Nat]
Least(a, b) == IF a < b THEN a ELSE b
Most(a, b)  == IF a > b THEN a ELSE b

\* The bounding box of what is invalid already and r.
oltk_invalidate_last(inv, r) == r
oltk_invalidate(inv, r) ==
  IF inv.width * inv.height = 0 THEN r
  ELSE LET left == Least(inv.x, r.x)
           top  == Least(inv.y, r.y)
       IN  [x |-> left, y |-> top,
            width  |-> Most(inv.x + inv.width, r.x + r.width) - left,
            height |-> Most(inv.y + inv.height, r.y + r.height) - top]

rect_intersect(a, b) ==
  /\ a.width # 0 /\ a.height # 0 /\ b.width # 0 /\ b.height # 0
  /\ Most(a.x, b.x) < Least(a.x + a.width, b.x + b.width)
  /\ Most(a.y, b.y) < Least(a.y + a.height, b.y + b.height)
-----------------------------------------------------------------------------
(***************************************************************************)
(* Pixels.                                                                 *)
(***************************************************************************)
\* The pixels hline sets: x and y are signed, width is not, and so is no sum
\* with it.
hline(x, y, width) ==
  LET begin == Most(x, 0)
      left  == IF x < 0 THEN (width + x) % Word ELSE width
      count == IF (begin + left) % Word >= Width THEN Width - begin ELSE left
  IN  IF y < 0 \/ y >= Height \/ x >= Width \/ left = 0 THEN {}
      ELSE (begin .. begin + count - 1) \X {y}

fill_rectangle(r) == UNION {hline(r.x, r.y + i, r.width) : i \in 0 .. r.height - 1}

Abs(n)  == IF n >= 0 THEN n ELSE -n
Sign(n) == IF n >= 0 THEN 1 ELSE -1

\* One point for every step along the longer axis from the lower end, the
\* other coordinate moves when the error exceeds the length.
Walk(from, long, short, step) ==
  LET at[i \in 0 .. long] ==
        IF i = 0 THEN <<from, 0>>
        ELSE LET err == at[i - 1][2] + short
             IN  IF err > long THEN <<at[i - 1][1] + step, err - long>>
                 ELSE <<at[i - 1][1], err>>
  IN  [i \in 0 .. long |-> at[i][1]]

oltk_draw_line_short(x1, y1, x2, y2) == hline(Least(x1, x2), y1, Abs(x2 - x1))
oltk_draw_line(x1, y1, x2, y2) ==
  LET dx == Abs(x2 - x1)
      dy == Abs(y2 - y1)
      step == Sign(x2 - x1) * Sign(y2 - y1)
      low == IF y1 > y2 THEN <<x2, y2>> ELSE <<x1, y1>>
      near == IF x1 > x2 THEN <<x2, y2>> ELSE <<x1, y1>>
      xs == Walk(low[1], dy, dx, step)
      ys == Walk(near[2], dx, dy, step)
  IN  IF dy = 0 THEN hline(Least(x1, x2), y1, dx + 1)
      ELSE IF dx < dy
      THEN UNION {hline(xs[i], low[2] + i, 1) : i \in 0 .. dy}
      ELSE UNION {hline(near[1] + i, ys[i], 1) : i \in 0 .. dx}

\* The outline of a rectangle: oltk_draw_rectangle without fill.
Outline(r) ==
  LET x2 == r.x + r.width - 1
      y2 == r.y + r.height - 1
  IN  oltk_draw_line(r.x, r.y, x2, r.y) \cup oltk_draw_line(r.x, y2, x2, y2)
      \cup oltk_draw_line(r.x, r.y, r.x, y2) \cup oltk_draw_line(x2, r.y, x2, y2)

\* The pixels of a string of n glyphs that are a cell wide and one high, each
\* put point by point (draw_char), and where put_string_center begins it.
oltk_draw_string(n, cell, x, y) ==
  UNION {hline(x + k, y, 1) : k \in 0 .. n * cell - 1}
put_string_center(n, cell, x, y) == oltk_draw_string(n, cell, x - (n * cell) \div 2, y)
-----------------------------------------------------------------------------
(***************************************************************************)
(* Buttons.                                                                *)
(***************************************************************************)
NewButton(r, face, cb) ==
  [rect |-> r, show |-> FALSE, sensitive |-> TRUE, face |-> face, active |-> FALSE,
   cb |-> cb, update |-> TRUE]

oltk_button_add(ui, r, face, cb) ==
  [ui EXCEPT !.button = Append(@, NewButton(r, face, cb))]

oltk_button_show(ui, b, show) ==
  IF ui.button[b].show = show THEN ui
  ELSE [ui EXCEPT !.button[b].show = show, !.button[b].update = TRUE,
                  !.invalid = IF show THEN @ ELSE oltk_invalidate(@, ui.button[b].rect)]

oltk_button_set_name(ui, b, face) ==
  [ui EXCEPT !.button[b].face = face, !.button[b].update = TRUE]

\* A view is a button that is shown and not sensitive.
oltk_view_add(ui, r) ==
  LET added == oltk_button_add(ui, r, "none", "none")
      b     == Len(added.button)
  IN  oltk_button_show([added EXCEPT !.button[b].sensitive = FALSE], b, TRUE)

oltk_view_set_text(ui, b, text) == oltk_button_set_name(ui, b, text)

\* What is invalid after a set of buttons was hidden, one after the other.
Uncovered(ui, bs) ==
  LET widened == [i \in DOMAIN ui.button |-> [inv \in Rects |->
                   IF i \in bs THEN oltk_invalidate(inv, ui.button[i].rect) ELSE inv]]
  IN  Iterates(widened, ui.invalid)[Len(ui.button)]

\* Shows or hides a set of buttons.
ShowAll(ui, bs, show) ==
  LET changed == {b \in bs : ui.button[b].show # show}
  IN  [ui EXCEPT !.button = [b \in DOMAIN @ |-> IF b \in changed
                               THEN [@[b] EXCEPT !.show = show, !.update = TRUE] ELSE @[b]],
                 !.invalid = IF show THEN @ ELSE Uncovered(ui, changed)]

Listens(ui, b) == ui.button[b].show /\ ui.button[b].sensitive

\* button_handle: b sees a sample at p, or one that is no longer its business.
\* The callback is left to the caller: it runs with the state set, and the
\* button is marked for a redraw when it is over.
Touched(ui, b, down) ==
  [ui EXCEPT !.button[b].active = down, !.button[b].update = @ \/ ui.button[b].active # down]
Left_active(ui, b) == ui
Left(ui, b) == IF Listens(ui, b) THEN Touched(ui, b, FALSE) ELSE ui

LeftAll(ui, bs) ==
  [ui EXCEPT !.button = [b \in DOMAIN @ |-> IF b \in bs THEN Left(ui, b).button[b] ELSE @[b]]]

\* oltk_feed: who handles a sample at p, and what the walk down to it leaves;
\* 0 when nobody does.
Handler(ui, p) ==
  Max({0} \cup {b \in DOMAIN ui.button : Listens(ui, b) /\ Covers(ui.button[b].rect, p)})
Clicks(ui, b, down) == b # 0 /\ ~ down /\ ui.button[b].active
Fed(ui, b, down) ==
  LET above == LeftAll(ui, {i \in DOMAIN ui.button : i > b})
  IN  IF b = 0 THEN [above EXCEPT !.depressed = 0] ELSE Touched(above, b, down)

\* The rest of oltk_feed, after the callback of b: the button that was pressed
\* before, perhaps one below, is released.
Depressed(ui, b) ==
  LET old == ui.depressed
      u   == IF old # 0 /\ old # b THEN Left(ui, old) ELSE ui
  IN  IF b = 0 THEN u
      ELSE [u EXCEPT !.depressed = IF u.button[b].active THEN b ELSE 0]
-----------------------------------------------------------------------------
(***************************************************************************)
(* oltk_redraw.                                                            *)
(***************************************************************************)
Face(ui, b) == <<b, ui.button[b].face>>
Paint(screen, ps, pixel) == [p \in Points |-> IF p \in ps THEN pixel ELSE screen[p]]

\* From the bottom, every shown button that has changed or touches what is
\* invalid by then is drawn, and what it covers is invalid too.
Draws(ui, i, inv) ==
  /\ ui.button[i].show
  /\ ui.button[i].update \/ rect_intersect(inv, ui.button[i].rect)
Drawing == [invalid : Rects, drawn : SUBSET Nat]
DrawnButtons(ui) ==
  LET draw == [i \in DOMAIN ui.button |-> [w \in Drawing |->
                IF Draws(ui, i, w.invalid)
                THEN [invalid |-> oltk_invalidate(w.invalid, ui.button[i].rect),
                      drawn   |-> w.drawn \cup {i}]
                ELSE w]]
  IN  Iterates(draw, [invalid |-> ui.invalid, drawn |-> {}])[Len(ui.button)].drawn

\* What is invalid is cleared before.
oltk_redraw(ui) ==
  LET cleared == PointsOf(ui.invalid)
      drawn   == DrawnButtons(ui)
      On(p)   == {b \in drawn : Covers(ui.button[b].rect, p)}
  IN  [ui EXCEPT !.button  = [b \in DOMAIN @ |-> [@[b] EXCEPT !.update = FALSE]],
                 !.screen  = [p \in Points |-> IF On(p) # {} THEN Face(ui, Max(On(p)))
                                               ELSE IF p \in cleared THEN Background ELSE @[p]],
                 !.invalid = Empty]

oltk_new ==
  [button |-> <<>>, depressed |-> 0, invalid |-> Empty,
   screen |-> [p \in Points |-> Background], abort |-> FALSE]

\* What a reader of the screen should see: at every point the topmost button.
Topmost(ui, p) == Max({0} \cup {b \in DOMAIN ui.button :
                              ui.button[b].show /\ Covers(ui.button[b].rect, p)})
Picture(ui) ==
  [p \in Points |-> IF Topmost(ui, p) = 0 THEN Background ELSE Face(ui, Topmost(ui, p))]
-----------------------------------------------------------------------------
(***************************************************************************)
(* The popup with the suites: a button, a dialog and an item per suite.    *)
(***************************************************************************)
\* oltk_popup_add: pop.button, pop.dialog and pop.items are added in this order.
oltk_popup_add(ui, r, dialog, items) ==
  LET button == oltk_button_add(ui, r, "none", "popup")
      shown  == oltk_button_show(button, Len(button.button), TRUE)
      panel  == oltk_button_add(shown, dialog, "none", "none")
      first  == Len(panel.button)
  IN  [panel EXCEPT !.button = [panel.button EXCEPT ![first].sensitive = FALSE]
                               \o [i \in DOMAIN items |-> NewButton(items[i], i, "popdown")]]

\* The loop of on_popup hands a sample to one item after the other, and no
\* longer when one has handled it: the others are left.
ItemAt(ui, items, p) ==
  Max({0} \cup {b \in items : Listens(ui, b) /\ Covers(ui.button[b].rect, p)})
FedItems(ui, items, p, down) ==
  LET b == ItemAt(ui, items, p)
      others == LeftAll(ui, items \ {b})
  IN  IF b = 0 THEN others ELSE Touched(others, b, down)
=============================================================================
