--------------------------- MODULE FlowbookAnnotations ---------------------------
(***************************************************************************)
(* Drawing on the pages of a flowbook.  Three copies of a page's drawing   *)
(* exist: the Fabric canvas of a page on screen, the store's               *)
(* pageAnnotations, and localStorage.  The store also keeps an undo        *)
(* history of every page.                                                  *)
(*                                                                         *)
(* A canvas is made when the image of its page is loaded, and made anew    *)
(* when the page becomes, or stops being, the current one of a double      *)
(* page.  It is filled one animation frame after it was made, and stored   *)
(* when it goes.                                                           *)
(***************************************************************************)
EXTENDS Integers, Sequences

CONSTANTS
    NumPages,       \* pages of the book
    Strokes,        \* the strokes that can be drawn
    MaxHistory      \* maxHistory: entries kept in a page's history

ASSUME AnnotationAssumption ==
    /\ NumPages \in Nat \ {0}
    /\ MaxHistory \in Nat \ {0, 1}

VARIABLES
    open,           \* the viewer is mounted
    current,        \* currentPageIndex
    viewMode,
    phase,          \* of the canvas of each page
    deaf,           \* nobody listens to the canvas's path:created
    canvas,         \* the strokes on each canvas
    memory,         \* pageAnnotations: the strokes stored for each page
    disk,           \* localStorage
    unsaved,        \* the last write to it failed, which is only logged
    history,
    historyIndex

vars == <<open, current, viewMode, phase, deaf, canvas, memory, disk, unsaved,
          history, historyIndex>>

-------------------------------------------------------------------------------
Pages == 0..(NumPages - 1)

Drawing == SUBSET Strokes

ViewMode == {"single", "double"}

(***************************************************************************)
(* "none": not on screen; "loading": its image is; "made": the canvas is   *)
(* empty and registered, the frame is to come; "ready": it is filled.      *)
(***************************************************************************)
Phase == {"none", "loading", "made", "ready"}

HasCanvas(p) == phase[p] \in {"made", "ready"}

\* getSpreadPages: the pages on screen.
Spread(c, v) ==
    IF v = "single" THEN {c}
    ELSE {2 * (c \div 2), 2 * (c \div 2) + 1} \cap Pages

OnScreen == Spread(current, viewMode)

(***************************************************************************)
(* pushToHistory, with historyIndex counted from 0 and -1 for none.        *)
(***************************************************************************)
\* Mutant: the entries an undo stepped back over are kept.
PushedAfterAll(h, i, d) ==
    IF Len(h) + 1 > MaxHistory THEN Append(Tail(h), d) ELSE Append(h, d)

\* Mutant: the size of the history is not limited.
PushedUnlimited(h, i, d) == Append(SubSeq(h, 1, i + 1), d)

Pushed(h, i, d) ==
    LET longer == Append(SubSeq(h, 1, i + 1), d)
    IN  IF Len(longer) > MaxHistory THEN Tail(longer) ELSE longer

Push(p, d) ==
    /\ history' = [history EXCEPT ![p] = Pushed(history[p], historyIndex[p], d)]
    /\ historyIndex' =
         [historyIndex EXCEPT ![p] = Len(Pushed(history[p], historyIndex[p], d)) - 1]

(***************************************************************************)
(* The store has changed and saveAnnotations was called for each of the    *)
(* pages, one after the other, each time with all drawings of the book.  A *)
(* write that fails, as when the quota is used up, is logged, and the      *)
(* store goes on: localStorage has what the last write that succeeded put  *)
(* there.                                                                  *)
(***************************************************************************)
SaveAnnotations(pages) ==
    \/ disk' = memory' /\ unsaved' = FALSE
    \/ disk' = disk /\ unsaved' = TRUE
    \/ \E written \in SUBSET pages \ {{}, pages} :
           /\ disk' = [p \in Pages |-> IF p \in written THEN memory'[p] ELSE memory[p]]
           /\ unsaved' = TRUE

Blank == [p \in Pages |-> {}]

Init ==
    /\ open = FALSE
    /\ current = 0
    /\ viewMode = "double"
    /\ phase = [p \in Pages |-> "none"]
    /\ deaf = [p \in Pages |-> FALSE]
    /\ canvas = Blank
    /\ memory = Blank
    /\ disk \in [Pages -> Drawing]
    /\ unsaved = FALSE
    /\ history = [p \in Pages |-> <<>>]
    /\ historyIndex = [p \in Pages |-> -1]

-------------------------------------------------------------------------------
(***************************************************************************)
(* Opening and closing the viewer.  Closing resets the store before the    *)
(* canvases go, so what only they hold is not stored.                      *)
(***************************************************************************)
OpenViewer(p) ==
    /\ ~open
    /\ open' = TRUE
    /\ current' = p
    /\ viewMode' = "double"
    /\ phase' = [q \in Pages |-> IF q \in Spread(p, "double") THEN "loading" ELSE "none"]
    /\ memory' = disk
    /\ UNCHANGED <<deaf, canvas, disk, unsaved, history, historyIndex>>

CloseViewer ==
    /\ open
    /\ open' = FALSE
    /\ current' = 0
    /\ viewMode' = "double"
    /\ phase' = [p \in Pages |-> "none"]
    /\ deaf' = [p \in Pages |-> FALSE]
    /\ canvas' = Blank
    /\ memory' = Blank
    /\ unsaved' = FALSE
    /\ history' = [p \in Pages |-> <<>>]
    /\ historyIndex' = [p \in Pages |-> -1]
    /\ UNCHANGED disk

(***************************************************************************)
(* Turning to page c, or changing the view mode: the canvases that go, and *)
(* those made anew because their page is current now or no longer, are     *)
(* stored first.  The listener of a canvas made anew stays with the old.   *)
(***************************************************************************)
Switched(p, c, v) ==
    p \in OnScreen \cap Spread(c, v) /\ (p = current) # (p = c)

Going(c, v) ==
    {p \in Pages : HasCanvas(p) /\ (p \notin Spread(c, v) \/ Switched(p, c, v))}

\* Mutant: storing a page drops the others.
StoredAtTurnAlone(c, v) ==
    [p \in Pages |->
        IF p \in Going(c, v) THEN canvas[p] ELSE {}]

StoredAtTurn(c, v) ==
    [p \in Pages |->
        IF p \in Going(c, v) THEN canvas[p] ELSE memory[p]]

Turn(c, v) ==
    /\ open
    /\ (c # current) # (v # viewMode)
    /\ current' = c
    /\ viewMode' = v
    /\ phase' = [p \in Pages |->
                    CASE p \notin Spread(c, v) -> "none"
                      [] p \in Spread(c, v) \ OnScreen -> "loading"
                      [] Switched(p, c, v) /\ HasCanvas(p) -> "made"
                      [] OTHER -> phase[p]]
    /\ deaf' = [p \in Pages |->
                    p \in Spread(c, v) /\ (deaf[p] \/ (Switched(p, c, v) /\ HasCanvas(p)))]
    /\ canvas' = [p \in Pages |->
                    IF p \in Spread(c, v) /\ ~Switched(p, c, v) THEN canvas[p] ELSE {}]
    /\ memory' = StoredAtTurn(c, v)
    /\ IF Going(c, v) = {} THEN UNCHANGED <<disk, unsaved>> ELSE SaveAnnotations(Going(c, v))
    /\ UNCHANGED <<open, history, historyIndex>>

ImageLoaded(p) ==
    /\ phase[p] = "loading"
    /\ phase' = [phase EXCEPT ![p] = "made"]
    /\ UNCHANGED <<open, current, viewMode, deaf, canvas, memory, disk, unsaved,
                   history, historyIndex>>

\* Mutant: the history begins before the canvas is filled.
FrameTooEarly(p) ==
    /\ phase[p] = "made"
    /\ phase' = [phase EXCEPT ![p] = "ready"]
    /\ canvas' = [canvas EXCEPT ![p] = memory[p]]
    /\ Push(p, canvas[p])
    /\ UNCHANGED <<open, current, viewMode, deaf, memory, disk, unsaved>>

\* The frame after a canvas was made: it is filled and begins its history.
Frame(p) ==
    /\ phase[p] = "made"
    /\ phase' = [phase EXCEPT ![p] = "ready"]
    /\ canvas' = [canvas EXCEPT ![p] = memory[p]]
    /\ Push(p, memory[p])
    /\ UNCHANGED <<open, current, viewMode, deaf, memory, disk, unsaved>>

-------------------------------------------------------------------------------
(***************************************************************************)
(* The pen and the toolbar.  A click comes after the frame of every canvas *)
(* made before it; a key that turns the page may come sooner.              *)
(***************************************************************************)
Clickable == \A p \in Pages : phase[p] # "made"

\* handlePathCreated.
Draw(p, s) ==
    /\ phase[p] = "ready"
    /\ s \notin canvas[p]
    /\ canvas' = [canvas EXCEPT ![p] = @ \cup {s}]
    /\ IF deaf[p]
       THEN UNCHANGED <<memory, disk, unsaved, history, historyIndex>>
       ELSE /\ memory' = [memory EXCEPT ![p] = canvas'[p]]
            /\ SaveAnnotations({p})
            /\ Push(p, canvas'[p])
    /\ UNCHANGED <<open, current, viewMode, phase, deaf>>

\* undo and redo change the store and not localStorage.
GoTo(i) ==
    /\ canvas' = [canvas EXCEPT ![current] = history[current][i + 1]]
    /\ memory' = [memory EXCEPT ![current] = history[current][i + 1]]
    /\ historyIndex' = [historyIndex EXCEPT ![current] = i]
    /\ UNCHANGED <<open, current, viewMode, phase, deaf, disk, unsaved, history>>

Undo ==
    /\ Clickable
    /\ phase[current] = "ready"
    /\ historyIndex[current] > 0
    /\ GoTo(historyIndex[current] - 1)

\* Mutant: the bound of the history is off by one.
RedoOffByOne ==
    /\ Clickable
    /\ phase[current] = "ready"
    /\ historyIndex[current] < Len(history[current])
    /\ historyIndex' = [historyIndex EXCEPT ![current] = @ + 1]
    /\ UNCHANGED <<open, current, viewMode, phase, deaf, canvas, memory, disk, unsaved,
                   history>>

Redo ==
    /\ Clickable
    /\ phase[current] = "ready"
    /\ historyIndex[current] < Len(history[current]) - 1
    /\ GoTo(historyIndex[current] + 1)

\* Mutant: the cleared page stays in localStorage.
ClearInMemory ==
    /\ Clickable
    /\ phase[current] = "ready"
    /\ canvas' = [p \in Pages |-> IF p \in OnScreen THEN {} ELSE canvas[p]]
    /\ memory' = [p \in Pages |-> IF p \in OnScreen THEN {} ELSE memory[p]]
    /\ history' = [p \in Pages |-> IF p \in OnScreen THEN <<>> ELSE history[p]]
    /\ historyIndex' = [p \in Pages |-> IF p \in OnScreen THEN -1 ELSE historyIndex[p]]
    /\ UNCHANGED <<open, current, viewMode, phase, deaf, disk, unsaved>>

\* clearAnnotations for the current page and its neighbour.
Clear ==
    /\ Clickable
    /\ phase[current] = "ready"
    /\ canvas' = [p \in Pages |-> IF p \in OnScreen THEN {} ELSE canvas[p]]
    /\ memory' = [p \in Pages |-> IF p \in OnScreen THEN {} ELSE memory[p]]
    /\ SaveAnnotations(OnScreen)
    /\ history' = [p \in Pages |-> IF p \in OnScreen THEN <<>> ELSE history[p]]
    /\ historyIndex' = [p \in Pages |-> IF p \in OnScreen THEN -1 ELSE historyIndex[p]]
    /\ UNCHANGED <<open, current, viewMode, phase, deaf>>

\* The Save button: savePageAnnotations for the pages on screen.
Save ==
    /\ Clickable
    /\ phase[current] = "ready"
    /\ memory' = [p \in Pages |-> IF HasCanvas(p) THEN canvas[p] ELSE memory[p]]
    /\ SaveAnnotations({p \in OnScreen : HasCanvas(p)})
    /\ UNCHANGED <<open, current, viewMode, phase, deaf, canvas, history, historyIndex>>

Next ==
    \/ \E p \in Pages : OpenViewer(p)
    \/ CloseViewer
    \/ \E c \in Pages, v \in ViewMode : Turn(c, v)
    \/ \E p \in Pages : ImageLoaded(p)
    \/ \E p \in Pages : Frame(p)
    \/ \E p \in Pages, s \in Strokes : Draw(p, s)
    \/ Undo
    \/ Redo
    \/ Clear
    \/ Save

Spec == Init /\ [][Next]_vars

-------------------------------------------------------------------------------
(***************************************************************************)
(* Properties.                                                             *)
(***************************************************************************)
TypeOK ==
    /\ open \in BOOLEAN
    /\ current \in Pages
    /\ viewMode \in ViewMode
    /\ phase \in [Pages -> Phase]
    /\ deaf \in [Pages -> BOOLEAN]
    /\ canvas \in [Pages -> Drawing]
    /\ memory \in [Pages -> Drawing]
    /\ disk \in [Pages -> Drawing]
    /\ unsaved \in BOOLEAN
    /\ history \in [Pages -> Seq(Drawing)]
    /\ historyIndex \in [Pages -> Int]
    /\ \A p \in Pages : Len(history[p]) <= MaxHistory

\* The index of a page's history points into it, also after the history was cut,
\* shifted or cleared.
IndexInHistory ==
    \A p \in Pages : -1 <= historyIndex[p] /\ historyIndex[p] < Len(history[p])

\* A canvas that is listened to shows what the store holds for its page and, when
\* the page has a history, the entry its index is at: undo, redo, drawing and
\* turning pages never leave the three apart.
CopiesAgree ==
    \A p \in Pages :
        phase[p] = "ready" /\ ~deaf[p] =>
            /\ canvas[p] = memory[p]
            /\ history[p] # <<>> => canvas[p] = history[p][historyIndex[p] + 1]

\* After a write to localStorage that succeeded (saveAnnotations), also one that
\* follows writes that failed, localStorage is behind the store by undo and redo
\* only: what a reader who closes the viewer finds again is, on every page, what the
\* store held or an entry of the page's history.
DiskIsBehindByUndo ==
    open /\ ~unsaved =>
        \A p \in Pages :
            \/ deaf[p]
            \/ disk[p] = memory[p]
            \/ \E k \in DOMAIN history[p] : disk[p] = history[p][k]

\* A stored drawing loses strokes by undo and redo of the current page, by clear of
\* the pages on screen, or because its page was turned before the frame that fills
\* its canvas.
StrokesAreKept ==
    [][\A p \in Pages :
           memory[p] \subseteq memory'[p]
           \/ (p = current /\ (Undo \/ Redo))
           \/ (p \in OnScreen /\ Clear)
           \/ CloseViewer
           \/ phase[p] = "made"]_vars

\* A stroke drawn on a page with a history is the one that undo takes away, also
\* after undos and when the history is full.
StrokeCanBeUndone ==
    [][\A p \in Pages :
           history[p] # <<>> /\ ~deaf[p] /\ (\E s \in Strokes : Draw(p, s)) =>
               historyIndex'[p] > 0 /\ history'[p][historyIndex'[p]] = canvas[p]]_vars
==============================================================================
