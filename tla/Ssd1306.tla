-------------------------------- MODULE Ssd1306 ------------------------------
(***************************************************************************)
(* The monochrome display: class Ssd1306 of src/peripherals/ssd1306.cpp.   *)
(* A step is one byte that the I2C master writes to it, or a STOP.  The    *)
(* byte after a STOP says whether commands or data follow, and whether the *)
(* byte after the next one is such a byte again.                           *)
(***************************************************************************)
EXTENDS Integers, Sequences

CONSTANTS
    Columns, Pages,     \* of the panel
    Parameters,         \* bound: bytes sent as parameters, some past the panel's end
    Bytes, Controls     \* bound: commands and parameters; control bytes

VARIABLES
    oled,       \* the display
    past        \* history: what the image was and what came since a window was set

vars == <<oled, past>>

Place == (0..Columns - 1) \X (0..Pages - 1)
Dark == [p \in Place |-> 0]
Whole == [c0 |-> 0, c1 |-> Columns - 1, p0 |-> 0, p1 |-> Pages - 1]

\* lit counts the bytes of data, each of which is another.
Init ==
    /\ oled = [control |-> TRUE, co |-> FALSE, dc |-> FALSE, awaiting |-> "none",
               window |-> Whole, col |-> 0, page |-> 0, ram |-> Dark]
    /\ past = [before |-> Dark, sent |-> <<>>, lit |-> 0, left |-> Bytes, controls |-> Controls]

-----------------------------------------------------------------------------
\* A byte of a message has been taken: after one with Co set comes a control byte.
Taken(new) == [new EXCEPT !.control = oled.co]

Control ==
    \E co, dc \in BOOLEAN :
        /\ oled.control
        /\ past.controls > 0
        /\ oled' = [oled EXCEPT !.co = co, !.dc = dc, !.control = FALSE]
        /\ past' = [past EXCEPT !.controls = @ - 1]

\* handle_command: the first byte; kinds that take a parameter without effect, and none
Opcode ==
    \E next \in {"colStart", "pageStart", "ignored", "none"} :
        /\ ~oled.control /\ ~oled.dc /\ oled.awaiting = "none"
        /\ past.left > 0
        /\ oled' = Taken([oled EXCEPT !.awaiting = next])
        /\ past' = [past EXCEPT !.left = @ - 1]

Lesser(a, b) == IF a <= b THEN a ELSE b

\* The end of a window moves the cursor to its first corner.
Cornered(o) == [o EXCEPT !.col = o.window.c0, !.page = o.window.p0]

\* Its parameters, clipped to the panel
Parameter ==
    \E n \in Parameters :
        LET col == Lesser(n, Columns - 1)
            page == Lesser(n, Pages - 1)
            done == [oled EXCEPT !.awaiting = "none"]
            new == CASE oled.awaiting = "colStart" -> [oled EXCEPT !.awaiting = "colEnd", !.window.c0 = col]
                     [] oled.awaiting = "colEnd" -> Cornered([done EXCEPT !.window.c1 = col])
                     [] oled.awaiting = "pageStart" -> [oled EXCEPT !.awaiting = "pageEnd", !.window.p0 = page]
                     [] oled.awaiting = "pageEnd" -> Cornered([done EXCEPT !.window.p1 = page])
                     [] OTHER -> done
        IN  /\ ~oled.control /\ ~oled.dc /\ oled.awaiting # "none"
            /\ past.left > 0
            /\ oled' = Taken(new)
            /\ past' = IF oled.awaiting \in {"colEnd", "pageEnd"}
                       THEN [past EXCEPT !.left = @ - 1, !.before = oled.ram, !.sent = <<>>]
                       ELSE [past EXCEPT !.left = @ - 1]

Inverted(w) == w.c1 < w.c0 \/ w.p1 < w.p0

\* handle_data: a window that ends before it begins takes nothing.
Drawn(o, b) ==
    LET w == o.window
    IN  IF Inverted(w) THEN o
        ELSE [o EXCEPT !.ram[<<o.col, o.page>>] = b,
                       !.col = IF @ + 1 > w.c1 THEN w.c0 ELSE @ + 1,
                       !.page = IF o.col + 1 <= w.c1 THEN @ ELSE IF @ + 1 > w.p1 THEN w.p0 ELSE @ + 1]

Data ==
    /\ ~oled.control /\ oled.dc
    /\ past.left > 0
    /\ oled' = Taken(Drawn(oled, past.lit + 1))
    /\ past' = [past EXCEPT !.left = @ - 1, !.lit = @ + 1, !.sent = Append(@, past.lit + 1)]

\* on_stop; a command that waits for its parameters goes on waiting.
Stop ==
    /\ ~oled.control
    /\ oled' = [oled EXCEPT !.control = TRUE]
    /\ UNCHANGED past

Rest == (past.left = 0 \/ past.controls = 0) /\ UNCHANGED vars

Next == Control \/ Opcode \/ Parameter \/ Data \/ Stop \/ Rest

-----------------------------------------------------------------------------
\* Where the k-th byte since the window was set belongs
PlaceOf(k) ==
    LET w == oled.window
        columns == w.c1 - w.c0 + 1
    IN  <<w.c0 + ((k - 1) % columns), w.p0 + (((k - 1) \div columns) % (w.p1 - w.p0 + 1))>>

\* Unless a window is just being changed, the image is the one before the window was set
\* with the bytes sent since in their places.
Accounted ==
    LET at(p) == IF Inverted(oled.window) THEN {} ELSE {k \in 1..Len(past.sent) : PlaceOf(k) = p}
        last(p) == CHOOSE k \in at(p) : \A j \in at(p) : j <= k
    IN  oled.awaiting \notin {"colEnd", "pageEnd"} =>
            oled.ram = [p \in Place |-> IF at(p) = {} THEN past.before[p] ELSE past.sent[last(p)]]
=============================================================================
