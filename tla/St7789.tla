-------------------------------- MODULE St7789 -------------------------------
(***************************************************************************)
(* The colour displays: class St7789 of src/peripherals/st7789.cpp, which  *)
(* Ili9341 uses with another size.  A step is one byte that the SPI shifts *)
(* out while the display is selected, a command or data by the level of    *)
(* its D/C pin.                                                            *)
(***************************************************************************)
EXTENDS Integers, Sequences

CONSTANTS
    Width, Height,      \* of the panel
    Base,               \* bytes are numbers below Base: 256 in the code
    Traffic             \* bounds: how many commands and how many bytes of data are sent

VARIABLES
    tft,        \* the display
    past        \* history: what the image was and what came since the last RAMWR

vars == <<tft, past>>

Place == (0..Width - 1) \X (0..Height - 1)
Blank == <<0, 0, FALSE>>        \* a pixel is its two bytes, and whether its red and blue change places

Whole == [x0 |-> 0, x1 |-> Width - 1, y0 |-> 0, y1 |-> Height - 1]
Black == [p \in Place |-> Blank]

Init ==
    /\ tft = [cmd |-> "none", params |-> <<>>, window |-> Whole, col |-> 0, row |-> 0,
              high |-> <<>>, bgr |-> FALSE, fb |-> Black]
    /\ \E bounds \in Traffic :
           past = [before |-> Black, window |-> Whole, bgr |-> FALSE, bytes |-> <<>>,
                   commands |-> bounds.commands, left |-> bounds.bytes]

-----------------------------------------------------------------------------
\* handle_command: RAMWR starts at the corner of the window.
Command ==
    \E c \in {"caset", "raset", "madctl", "ramwr", "swreset", "none"} :
        /\ past.commands > 0
        /\ tft' = LET next == [tft EXCEPT !.params = <<>>, !.cmd = c]
                  IN  CASE c = "ramwr" ->
                            [next EXCEPT !.col = tft.window.x0, !.row = tft.window.y0, !.high = <<>>]
                        [] c = "swreset" ->
                            [next EXCEPT !.fb = Black, !.window = Whole, !.bgr = FALSE, !.cmd = "none"]
                        [] OTHER -> next
        /\ past' = [past EXCEPT !.commands = @ - 1,
                        !.before = tft'.fb, !.window = tft.window, !.bgr = tft.bgr, !.bytes = <<>>]

\* The 16-bit ends of CASET and RASET, put in order and clipped to the panel
Lesser(a, b) == IF a <= b THEN a ELSE b
Ends(p, last) ==
    LET a == p[1] * Base + p[2]
        b == p[3] * Base + p[4]
    IN  <<Lesser(Lesser(a, b), last), Lesser(IF a <= b THEN b ELSE a, last)>>

Parameter(b) ==
    LET p == IF Len(tft.params) < 4 THEN Append(tft.params, b) ELSE tft.params
        x == Ends(p, Width - 1)
        y == Ends(p, Height - 1)
    IN  [tft EXCEPT !.params = p,
                    !.window = IF Len(p) < 4 THEN @
                               ELSE IF tft.cmd = "caset" THEN [@ EXCEPT !.x0 = x[1], !.x1 = x[2]]
                               ELSE [@ EXCEPT !.y0 = y[1], !.y1 = y[2]]]

\* write_pixel_byte: every second byte completes a pixel; the cursor wraps at the window.
PixelByte(b) ==
    LET w == tft.window
        shown == tft.row <= w.y1 /\ tft.col <= w.x1
    IN  IF tft.high = <<>>
        THEN [tft EXCEPT !.high = <<b>>]
        ELSE [tft EXCEPT !.high = <<>>,
                !.fb = IF shown THEN [@ EXCEPT ![<<tft.col, tft.row>>] = <<tft.high[1], b, tft.bgr>>] ELSE @,
                !.col = IF tft.col >= w.x1 THEN w.x0 ELSE @ + 1,
                !.row = IF tft.col < w.x1 THEN @ ELSE IF @ >= w.y1 THEN w.y0 ELSE @ + 1]

\* handle_data; MADCTL takes its BGR bit from every byte.
Data ==
    \E b \in 0..Base - 1 :
        /\ past.left > 0
        /\ tft' = CASE tft.cmd \in {"caset", "raset"} -> Parameter(b)
                    [] tft.cmd = "madctl" -> [tft EXCEPT !.bgr = b # 0]
                    [] tft.cmd = "ramwr" -> PixelByte(b)
                    [] OTHER -> tft
        /\ past' = [past EXCEPT !.left = @ - 1, !.bytes = IF tft.cmd = "ramwr" THEN Append(@, b) ELSE @]

Rest == past.left = 0 /\ UNCHANGED vars

Next == Command \/ Data \/ Rest

-----------------------------------------------------------------------------
\* Where the k-th pixel of a RAMWR belongs: along the rows of the window, and again from
\* its first when it is full
PlaceOf(k) ==
    LET w == past.window
        columns == w.x1 - w.x0 + 1
    IN  <<w.x0 + ((k - 1) % columns), w.y0 + (((k - 1) \div columns) % (w.y1 - w.y0 + 1))>>

\* The image is the one before with the pixels sent since in their places, the last one
\* where the window was filled more than once; nothing is drawn outside of it.
Accounted ==
    LET pixels == Len(past.bytes) \div 2
        at(p) == {k \in 1..pixels : PlaceOf(k) = p}
        last(p) == CHOOSE k \in at(p) : \A j \in at(p) : j <= k
    IN  tft.fb = [p \in Place |->
                    IF at(p) = {} THEN past.before[p]
                    ELSE <<past.bytes[2 * last(p) - 1], past.bytes[2 * last(p)], past.bgr>>]
=============================================================================
