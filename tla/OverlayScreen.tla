----------------------------- MODULE OverlayScreen -----------------------------
(***************************************************************************)
(* Two programs on one terminal: the wrapped child keeps the rows above,   *)
(* captn the rows at the bottom.  Overlay (pkg/tui/overlay.go) confines    *)
(* the child with a scroll region and a smaller pty, which it sets again   *)
(* each time the terminal is resized; ClampScrollRegions (pkg/tui/         *)
(* region.go) rewrites the scroll regions the child sets for itself; and   *)
(* Show and Hide draw and erase what is in the reserved rows.              *)
(*                                                                         *)
(* The terminal is external: it has a size, a scroll region, and the       *)
(* escape sequence it has read the start of.  What is written to it under  *)
(* Overlay.mu is one step; the size and Overlay.visible are read in steps  *)
(* of their own where the code reads them before it takes the mutex.       *)
(* StatusOverlay has who calls Show and Hide, and the program's loop.      *)
(***************************************************************************)
EXTENDS Naturals, FiniteSetsExt, SequencesExt

CONSTANTS
    Rows,            \* the heights the terminal may have
    Toggler,         \* the goroutines that call Show and Hide
    height,          \* Overlay.height
    Byte,            \* what a program may write
    ChildSequences,  \* what the child writes at a time
    MaxHeld          \* maxRegionSeqLen

ASSUME RowsAssumption == Rows \subseteq 1 .. 9 /\ Rows # {}
ASSUME HeightAssumption == height \in Nat \ {0, 1}
ASSUME MaxHeldAssumption == MaxHeld \in Nat

VARIABLES
    rows, region, partial,  \* the terminal
    winch,        \* whether a SIGWINCH is in the channel of Run
    pc,           \* of the resize goroutine and of Run
    size, seen,   \* what they have read and not yet used: rows, and visible
    visible, childBottom,   \* Overlay
    toggling,     \* what each toggler has left to do
    screen,       \* what is in the reserved rows
    ptyRows, pty, \* the height of the child's pty, and its output not yet read
    pend,         \* childWriter.pend
    \* history
    stale,        \* Run set the last region, for a size that was gone
    crossed       \* visible last changed while somebody was about to draw

vars == <<rows, region, partial, winch, pc, size, seen, visible, childBottom,
          toggling, screen, ptyRows, pty, pend, stale, crossed>>
terminal == <<rows, region, partial>>
child    == <<ptyRows, pty, pend>>
history  == <<stale, crossed>>

\* The goroutine of Run that waits for SIGWINCH, and Run itself.
Setter == {"resizer", "run"}

Numerals == <<"1", "2", "3", "4", "5", "6", "7", "8", "9">>
Semicolon == ";"
ParamByte == ToSet(Numerals) \cup {Semicolon}
RegionSeq(top, bot) == <<"ESC", "[", Numerals[top], Semicolon, Numerals[bot], "r">>

\* Of a number of more digits than one it matters only that no terminal has such
\* a row.
Number(digits) ==
    CASE Len(digits) = 0 -> 0
      [] Len(digits) = 1 -> CHOOSE k \in DOMAIN Numerals : Numerals[k] = digits[1]
      [] OTHER -> Len(Numerals) + 1
UpToSemicolon(params) ==
    SubSeq(params, 1, Min({i \in DOMAIN params : params[i] = Semicolon} \cup {Len(params) + 1}) - 1)
Top(params) == Number(UpToSemicolon(params))
Bottom(params) ==
    Number(UpToSemicolon(SubSeq(params, Len(UpToSemicolon(params)) + 2, Len(params))))

\* Whether an escape sequence with this byte at place k may set a region.
Continues(k, byte) == IF k = 2 THEN byte = "[" ELSE byte \in ParamByte

\* How much of data, which starts with an escape, may be the start of a region.
RegionPrefix(data) ==
    Min({k \in 1 .. Len(data) - 1 : ~Continues(k + 1, data[k + 1])} \cup {Len(data)})

\* The child ends each sequence it begins, and a region of more bytes than the
\* clamp holds back "cannot be a DECSTBM" (region.go 9).
Ended(s) ==
    \A i \in DOMAIN s : s[i] = "ESC" =>
        LET rest == SubSeq(s, i, Len(s))
            j == RegionPrefix(rest)
        IN  j < Len(rest) /\ (j > 1 /\ rest[j + 1] = "r" => j <= MaxHeld)

ASSUME ChildAssumption ==
    "0" \notin Byte /\ \A s \in ChildSequences : s \in Seq(Byte) /\ Ended(s)

\* The child begins none within another.
Uninterrupted ==
    \A s \in ChildSequences : \A i \in DOMAIN s : s[i] = "ESC" =>
        LET rest == SubSeq(s, i, Len(s)) IN rest[RegionPrefix(rest) + 1] # "ESC"

-----------------------------------------------------------------------------
(* The terminal *)

\* A region that is not of two rows at least is ignored.
Confine(old, top, bot) ==
    LET t == IF top = 0 THEN 1 ELSE top
        b == IF bot = 0 \/ bot > rows THEN rows ELSE bot
    IN  IF t < b THEN <<t, b>> ELSE old

\* The terminal reads one byte.
Feed(term, byte) ==
    LET read == Len(term.partial) IN
    CASE byte = "ESC" -> [term EXCEPT !.partial = <<"ESC">>]
      [] read > 0 /\ Continues(read + 1, byte) ->
           [term EXCEPT !.partial = Append(@, byte)]
      [] read > 1 /\ byte = "r" ->
           LET params == SubSeq(term.partial, 3, Len(term.partial))
           IN  [region |-> Confine(term.region, Top(params), Bottom(params)),
                partial |-> <<>>]
      [] OTHER -> [term EXCEPT !.partial = <<>>]

\* It reads them one after the other.
Fed(term, bytes) ==
    LET after[n \in 0 .. Len(bytes)] ==
          IF n = 0 THEN term ELSE Feed(after[n - 1], bytes[n])
    IN  after[Len(bytes)]

\* Bytes of the child reach the terminal.
PassOn(bytes) ==
    LET term == Fed([region |-> region, partial |-> partial], bytes)
    IN  region' = term.region /\ partial' = term.partial /\ UNCHANGED rows

\* The overlay writes sequences that are whole, the first byte of which ends
\* one the child has begun.
Draw(r) == region' = r /\ partial' = <<>> /\ UNCHANGED rows

Init ==
    /\ rows \in Rows /\ region = <<1, rows>> /\ partial = <<>>
    /\ winch = TRUE
    /\ pc = [resizer |-> "signal", run |-> "clear"]
    /\ size = [p \in Setter |-> 0] /\ seen = [p \in Setter |-> FALSE]
    /\ visible = TRUE /\ childBottom = 0
    /\ toggling = [t \in Toggler |-> "nothing"]
    /\ screen = {}
    /\ ptyRows = 0 /\ pty = <<>> /\ pend = <<>>
    /\ stale = FALSE /\ crossed = FALSE

\* Mutant: the channel has no room, and a signal nobody waits for is dropped.
NotifyWaiting == winch' = (winch \/ pc.resizer = "signal")

\* The channel has room for one signal, which stands for all that come after.
Notify == winch' = TRUE

\* Terminals give up the region when they are resized; how much of the reserved
\* rows stays where they were depends on the terminal.
Resize ==
    /\ \E r \in Rows \ {rows} : rows' = r /\ region' = <<1, r>>
    /\ \E kept \in SUBSET screen : screen' = kept
    /\ Notify
    /\ UNCHANGED <<partial, pc, size, seen, visible, childBottom, toggling, child,
                   history>>

-----------------------------------------------------------------------------
(* The layout *)

\* The last row the child may use.
LastRow(total) == IF total > height THEN total - height ELSE 1

Goto(p, label) == pc' = [pc EXCEPT ![p] = label]

TakeSignal ==
    /\ pc.resizer = "signal" /\ winch
    /\ winch' = FALSE
    /\ Goto("resizer", "ptySize")
    /\ UNCHANGED <<terminal, size, seen, visible, childBottom, toggling, screen,
                   child, history>>

\* GetSize, in resizePty and in setScrollRegion.
GetSize(p) ==
    /\ pc[p] \in {"ptySize", "size"}
    /\ size' = [size EXCEPT ![p] = rows]
    /\ Goto(p, IF pc[p] = "size" THEN "visible" ELSE "setPty")
    /\ UNCHANGED <<terminal, winch, seen, visible, childBottom, toggling, screen,
                   child, history>>

resizePty ==
    /\ pc.resizer = "setPty"
    /\ ptyRows' = LastRow(size.resizer)
    /\ size' = [size EXCEPT !.resizer = 0]
    /\ Goto("resizer", "size")
    /\ UNCHANGED <<terminal, winch, seen, visible, childBottom, toggling,
                   screen, pty, pend, history>>

ReadVisible(p) ==
    /\ pc[p] = "visible"
    /\ seen' = [seen EXCEPT ![p] = visible]
    /\ Goto(p, "region")
    /\ UNCHANGED <<terminal, winch, size, visible, childBottom, toggling, screen,
                   child, history>>

setScrollRegion(p) ==
    /\ pc[p] = "region"
    /\ childBottom' = LastRow(size[p])
    /\ Draw(Confine(region, 1, LastRow(size[p])))
    /\ screen' = IF seen[p] THEN screen \cup {"divider"} ELSE screen
    /\ size' = [size EXCEPT ![p] = 0] /\ seen' = [seen EXCEPT ![p] = FALSE]
    /\ stale' = (p = "run" /\ size[p] # rows)
    /\ Goto(p, IF p = "run" THEN "program" ELSE "signal")
    /\ UNCHANGED <<winch, visible, toggling, child, crossed>>

ClearScreen ==
    /\ pc.run = "clear"
    /\ Draw(region)
    /\ screen' = {}
    /\ Goto("run", "size")
    /\ UNCHANGED <<winch, size, seen, visible, childBottom, toggling, child, history>>

startProgram ==
    /\ pc.run = "program"
    /\ Goto("run", "child")
    /\ UNCHANGED <<terminal, winch, size, seen, visible, childBottom, toggling,
                   screen, child, history>>

\* The child has closed its end of the pty.
ChildExits ==
    /\ pc.run = "child" /\ pty = <<>>
    /\ Goto("run", "stop")
    /\ UNCHANGED <<terminal, winch, size, seen, visible, childBottom, toggling,
                   screen, child, history>>

\* The resize goroutine stays: a signal it has still to serve confines the
\* terminal again.
resetScrollRegion ==
    /\ pc.run = "stop"
    /\ Draw(<<1, rows>>)
    /\ Goto("run", "over")
    /\ UNCHANGED <<winch, size, seen, visible, childBottom, toggling, screen, child,
                   history>>

-----------------------------------------------------------------------------
(* The reserved rows *)

AboutToDraw ==
    \/ \E t \in Toggler : toggling[t] # "nothing"
    \/ \E p \in Setter : pc[p] = "region"

\* Show and Hide, up to the unlock.
SetVisible(t) ==
    /\ toggling[t] = "nothing"
    /\ visible' = ~visible
    /\ toggling' = [toggling EXCEPT ![t] = IF visible THEN "clear" ELSE "divider"]
    /\ crossed' = AboutToDraw
    /\ UNCHANGED <<terminal, winch, pc, size, seen, childBottom, screen, child, stale>>

\* Before the first layout there is no row for it.
drawDivider(t) ==
    /\ toggling[t] = "divider"
    /\ IF childBottom = 0 THEN UNCHANGED <<terminal, screen>>
       ELSE Draw(region) /\ screen' = screen \cup {"divider"}
    /\ toggling' = [toggling EXCEPT ![t] = "nothing"]
    /\ UNCHANGED <<winch, pc, size, seen, visible, childBottom, child, history>>

clearBottomRows(t) ==
    /\ toggling[t] = "clear"
    /\ Draw(region)
    /\ screen' = {}
    /\ toggling' = [toggling EXCEPT ![t] = "nothing"]
    /\ UNCHANGED <<winch, pc, size, seen, visible, childBottom, child, history>>

\* Mutant: a frame of the hidden overlay is drawn.
FrameAlwaysShown == TRUE

FrameShown == visible

\* The program's renderer has a frame, made before or after the overlay was
\* last hidden.
WriteFrame ==
    /\ pc.run \in {"child", "stop"}
    /\ FrameShown
    /\ Draw(region)
    /\ screen' = screen \cup {"status"}
    /\ UNCHANGED <<winch, pc, size, seen, visible, childBottom, toggling, child,
                   history>>

-----------------------------------------------------------------------------
(* The output of the child *)

clampRegionSeq(params) ==
    LET top == IF Top(params) = 0 THEN 1 ELSE Top(params)
        asked == IF Bottom(params) = 0 THEN childBottom ELSE Bottom(params)
        bot == IF asked > childBottom THEN childBottom ELSE asked
    IN  IF childBottom < 2 THEN <<>>
        ELSE IF top >= bot THEN RegionSeq(1, childBottom) ELSE RegionSeq(top, bot)

\* Mutant: a sequence the buffer has cut is passed on.
NeverHeldBack(data) == FALSE

HeldBack(data) == Len(data) <= MaxHeld

\* One turn of the loop: what is left of the data, what is to be written, and
\* what is held back.
Round(s) ==
    LET start == Min({i \in DOMAIN s.data : s.data[i] = "ESC"} \cup {Len(s.data) + 1})
        rest == SubSeq(s.data, start, Len(s.data))
        j == RegionPrefix(rest)
        then(bytes, left, held) ==
          [data |-> left, out |-> s.out \o SubSeq(s.data, 1, start - 1) \o bytes,
           pend |-> held]
    IN  IF s.data = <<>> THEN s
        ELSE IF rest = <<>> THEN then(<<>>, <<>>, <<>>)
        ELSE IF j = Len(rest)
        THEN IF HeldBack(rest) THEN then(<<>>, <<>>, rest) ELSE then(rest, <<>>, <<>>)
        ELSE IF j > 1 /\ rest[j + 1] = "r"
        THEN then(clampRegionSeq(SubSeq(rest, 3, j)), SubSeq(rest, j + 2, Len(rest)), <<>>)
        ELSE then(SubSeq(rest, 1, j), SubSeq(rest, j + 1, Len(rest)), <<>>)

\* Each turn takes a byte at least.
ClampScrollRegions(data) ==
    LET after[n \in 0 .. Len(data)] ==
          IF n = 0 THEN [data |-> data, out |-> <<>>, pend |-> <<>>]
          ELSE Round(after[n - 1])
    IN  after[Len(data)]

\* The child writes when the pty has been read.
ChildWrites ==
    /\ pc.run \in {"clear", "size", "visible", "region", "program", "child"}
    /\ pty = <<>>
    /\ pty' \in ChildSequences
    /\ UNCHANGED <<terminal, winch, pc, size, seen, visible, childBottom, toggling,
                   screen, ptyRows, pend, history>>

\* childWriter.Write, of as much of the output as a read of the pty returns.
CopyChild ==
    /\ pc.run = "child"
    /\ \E n \in 1 .. Len(pty) :
         LET clamped == ClampScrollRegions(pend \o SubSeq(pty, 1, n))
         IN  /\ pty' = SubSeq(pty, n + 1, Len(pty))
             /\ pend' = clamped.pend
             /\ PassOn(clamped.out)
    /\ UNCHANGED <<winch, pc, size, seen, visible, childBottom, toggling, screen,
                   ptyRows, history>>

Next ==
    \/ Resize \/ TakeSignal \/ resizePty
    \/ \E p \in Setter : GetSize(p) \/ ReadVisible(p) \/ setScrollRegion(p)
    \/ ClearScreen \/ startProgram \/ ChildExits \/ resetScrollRegion
    \/ \E t \in Toggler : SetVisible(t) \/ drawDivider(t) \/ clearBottomRows(t)
    \/ WriteFrame \/ ChildWrites \/ CopyChild

Spec == Init /\ [][Next]_vars

-----------------------------------------------------------------------------
(* Properties *)

\* Whatever region the child asks for, and wherever its output is cut, what
\* reaches the terminal never takes the region past the rows the child was
\* given (the promise of ClampScrollRegions, region.go 13-18), if the child is
\* Uninterrupted.
RegionConfined ==
    [][Len(pty') < Len(pty) /\ region' # region => region'[2] <= childBottom]_vars

Settled == ~winch /\ pc.resizer = "signal" /\ pc.run = "child"

\* Once the resize goroutine is back at its channel, however many resizes came
\* while it was at work, the child is confined to the rows of the terminal as
\* it is now: its pty, the clamp and the region agree, unless Run itself has
\* put back a size it had read before the last resize.
RegionAgrees ==
    Settled /\ ~stale =>
        /\ ptyRows = LastRow(rows)
        /\ childBottom = LastRow(rows)
        /\ LastRow(rows) > 1 => region[2] <= LastRow(rows)

\* A hidden overlay leaves nothing in the reserved rows: a frame that was made
\* before it was hidden is not drawn over them, nor is the divider of a resize,
\* unless somebody was about to draw as it was hidden.
HiddenIsBlank ==
    /\ ~visible /\ ~crossed
    /\ pc.run = "child"
    /\ \A t \in Toggler : toggling[t] = "nothing"
    => screen = {}

=============================================================================
