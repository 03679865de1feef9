----------------------- MODULE FlowbookAnnotationsProofs -----------------------
(***************************************************************************)
(* The six properties of FlowbookAnnotations, for every number of pages,   *)
(* every set of strokes and every size of the history above one.           *)
(*                                                                         *)
(* What relates the copies of one page's drawing does not depend on the    *)
(* other pages: PageOK states it, and each action is looked at twice, at   *)
(* the page it is about and at the others.                                 *)
(***************************************************************************)
EXTENDS FlowbookAnnotations, TLAPS

-------------------------------------------------------------------------------
(***************************************************************************)
(* The history of a page.                                                  *)
(***************************************************************************)
\* What pushToHistory returns: the drawing is the last entry, after the one the
\* index was at, and the history is neither empty nor too long.
LEMMA PushedType ==
    ASSUME NEW h \in Seq(Drawing), NEW i \in Int, NEW d \in Drawing,
           -1 <= i, i < Len(h), Len(h) <= MaxHistory
    PROVE  /\ Pushed(h, i, d) \in Seq(Drawing)
           /\ Len(Pushed(h, i, d)) \in 1..MaxHistory
           /\ Pushed(h, i, d)[Len(Pushed(h, i, d))] = d
           /\ i >= 0 => /\ Len(Pushed(h, i, d)) > 1
                        /\ Pushed(h, i, d)[Len(Pushed(h, i, d)) - 1] = h[i + 1]
<1> DEFINE front == SubSeq(h, 1, i + 1)
           longer == Append(front, d)
<1>0. MaxHistory \in Nat /\ MaxHistory >= 2
    BY AnnotationAssumption
<1>1. front \in Seq(Drawing) /\ Len(front) = i + 1
      /\ \A k \in 1..(i + 1) : front[k] = h[k]
    OBVIOUS
<1>2. longer \in Seq(Drawing) /\ Len(longer) = i + 2 /\ longer[i + 2] = d
      /\ (i >= 0 => longer[i + 1] = h[i + 1])
    BY <1>1
<1> HIDE DEF longer
<1>3. Pushed(h, i, d) = IF Len(longer) > MaxHistory THEN Tail(longer) ELSE longer
    BY DEF Pushed, longer
<1>4. CASE Len(longer) > MaxHistory
    <2>1. Tail(longer) \in Seq(Drawing) /\ Len(Tail(longer)) = i + 1
          /\ \A k \in 1..(i + 1) : Tail(longer)[k] = longer[k + 1]
        BY <1>2
    <2>2. i + 1 = MaxHistory
        BY <1>0, <1>2, <1>4
    <2> QED BY <1>0, <1>2, <1>3, <1>4, <2>1, <2>2
<1>5. CASE ~(Len(longer) > MaxHistory)
    BY <1>0, <1>2, <1>3, <1>5
<1> QED BY <1>4, <1>5

-------------------------------------------------------------------------------
(***************************************************************************)
(* Types.                                                                  *)
(***************************************************************************)
Typed == TypeOK /\ IndexInHistory

LEMMA PushTyped ==
    ASSUME Typed, NEW p \in Pages, NEW d \in Drawing, Push(p, d)
    PROVE  /\ history' \in [Pages -> Seq(Drawing)]
           /\ historyIndex' \in [Pages -> Int]
           /\ \A q \in Pages : Len(history'[q]) <= MaxHistory
           /\ IndexInHistory'
<1>1. /\ history[p] \in Seq(Drawing) /\ historyIndex[p] \in Int
      /\ -1 <= historyIndex[p] /\ historyIndex[p] < Len(history[p])
      /\ Len(history[p]) <= MaxHistory
    BY DEF Typed, TypeOK, IndexInHistory
<1> DEFINE new == Pushed(history[p], historyIndex[p], d)
<1>2. new \in Seq(Drawing) /\ Len(new) \in 1..MaxHistory
    BY <1>1, PushedType
<1>3. /\ history' = [history EXCEPT ![p] = new]
      /\ historyIndex' = [historyIndex EXCEPT ![p] = Len(new) - 1]
    BY DEF Push
<1> HIDE DEF new
<1> QED BY <1>2, <1>3, AnnotationAssumption DEF Typed, TypeOK, IndexInHistory

\* Whatever of a write to localStorage fails, it holds a drawing of every page.
LEMMA SaveTyped ==
    ASSUME Typed, memory' \in [Pages -> Drawing], NEW pages, SaveAnnotations(pages)
    PROVE  disk' \in [Pages -> Drawing] /\ unsaved' \in BOOLEAN
<1>1. memory \in [Pages -> Drawing] /\ disk \in [Pages -> Drawing]
    BY DEF Typed, TypeOK
<1> QED BY <1>1 DEF SaveAnnotations

LEMMA TypedInit == Init => Typed
<1> SUFFICES ASSUME Init PROVE Typed
    OBVIOUS
<1>1. 0 \in Pages
    BY AnnotationAssumption DEF Pages
<1> QED BY <1>1, AnnotationAssumption
        DEF Init, Typed, TypeOK, IndexInHistory, ViewMode, Phase, Blank, Drawing

LEMMA TypedNext == Typed /\ [Next]_vars => Typed'
<1> SUFFICES ASSUME Typed, [Next]_vars PROVE Typed'
    OBVIOUS
<1> USE AnnotationAssumption
<1>0. 0 \in Pages
    BY DEF Pages
<1>1. ASSUME NEW p \in Pages, OpenViewer(p) PROVE Typed'
    BY <1>1 DEF OpenViewer, Typed, TypeOK, IndexInHistory, ViewMode, Phase
<1>2. CASE CloseViewer
    <2>1. history' \in [Pages -> Seq(Drawing)] /\ historyIndex' \in [Pages -> Int]
          /\ \A p \in Pages : Len(history'[p]) = 0 /\ historyIndex'[p] = -1
        BY <1>2 DEF CloseViewer
    <2>2. /\ phase' \in [Pages -> Phase] /\ deaf' \in [Pages -> BOOLEAN]
          /\ canvas' \in [Pages -> Drawing] /\ memory' \in [Pages -> Drawing]
        BY <1>2 DEF CloseViewer, Phase, Blank, Drawing
    <2>3. open' \in BOOLEAN /\ current' \in Pages /\ viewMode' \in ViewMode
          /\ disk' \in [Pages -> Drawing] /\ unsaved' \in BOOLEAN
        BY <1>0, <1>2 DEF CloseViewer, ViewMode, Typed, TypeOK
    <2>4. \A p \in Pages : Len(history'[p]) <= MaxHistory
        BY <2>1
    <2>5. TypeOK'
        BY <2>1, <2>2, <2>3, <2>4 DEF TypeOK
    <2>6. IndexInHistory'
        BY <2>1 DEF IndexInHistory
    <2> QED BY <2>5, <2>6 DEF Typed
<1>3. ASSUME NEW c \in Pages, NEW v \in ViewMode, Turn(c, v) PROVE Typed'
    <2>1. phase' \in [Pages -> Phase]
        BY <1>3 DEF Turn, Typed, TypeOK, Phase
    <2>2. deaf' \in [Pages -> BOOLEAN]
        BY <1>3 DEF Turn
    <2>3. canvas' \in [Pages -> Drawing]
        BY <1>3 DEF Turn, Typed, TypeOK, Drawing
    <2>4. StoredAtTurn(c, v) \in [Pages -> Drawing]
        BY DEF StoredAtTurn, Typed, TypeOK
    <2>5. memory' \in [Pages -> Drawing] /\ disk' \in [Pages -> Drawing] /\ unsaved' \in BOOLEAN
        BY <1>3, <2>4, SaveTyped DEF Turn, Typed, TypeOK
    <2> QED BY <1>3, <2>1, <2>2, <2>3, <2>5 DEF Turn, Typed, TypeOK, IndexInHistory
<1>4. ASSUME NEW p \in Pages, ImageLoaded(p) PROVE Typed'
    BY <1>4 DEF ImageLoaded, Typed, TypeOK, IndexInHistory, Phase
<1>5. ASSUME NEW p \in Pages, Frame(p) PROVE Typed'
    <2>1. memory[p] \in Drawing /\ Push(p, memory[p])
        BY <1>5 DEF Frame, Typed, TypeOK
    <2> QED BY <1>5, <2>1, PushTyped DEF Frame, Typed, TypeOK, Phase
<1>6. ASSUME NEW p \in Pages, NEW s \in Strokes, Draw(p, s) PROVE Typed'
    <2>1. canvas' \in [Pages -> Drawing]
        BY <1>6 DEF Draw, Typed, TypeOK, Drawing
    <2>2. CASE deaf[p]
        BY <1>6, <2>1, <2>2 DEF Draw, Typed, TypeOK, IndexInHistory
    <2>3. CASE ~deaf[p]
        <3>1. canvas'[p] \in Drawing /\ Push(p, canvas'[p])
            BY <1>6, <2>1, <2>3 DEF Draw
        <3>2. /\ history' \in [Pages -> Seq(Drawing)]
              /\ historyIndex' \in [Pages -> Int]
              /\ \A q \in Pages : Len(history'[q]) <= MaxHistory
              /\ IndexInHistory'
            BY <3>1, PushTyped
        <3>3. memory' \in [Pages -> Drawing]
            BY <1>6, <2>3, <3>1 DEF Draw, Typed, TypeOK
        <3>4. disk' \in [Pages -> Drawing] /\ unsaved' \in BOOLEAN
            BY <1>6, <2>3, <3>3, SaveTyped DEF Draw
        <3> QED BY <1>6, <2>1, <3>2, <3>3, <3>4 DEF Draw, Typed, TypeOK
    <2> QED BY <2>2, <2>3
<1>7. CASE Undo \/ Redo
    <2>1. PICK i \in Int : /\ GoTo(i) /\ 0 <= i /\ i < Len(history[current])
        <3>1. current \in Pages /\ historyIndex[current] \in Int
              /\ historyIndex[current] < Len(history[current])
            BY DEF Typed, TypeOK, IndexInHistory
        <3>2. Len(history[current]) \in Nat
            BY DEF Typed, TypeOK
        <3> QED BY <1>7, <3>1, <3>2 DEF Undo, Redo, Typed, TypeOK, IndexInHistory
    <2>2. history[current][i + 1] \in Drawing
        BY <2>1 DEF Typed, TypeOK
    <2> QED BY <2>1, <2>2 DEF GoTo, Typed, TypeOK, IndexInHistory
<1>8. CASE Clear
    <2>1. /\ memory' \in [Pages -> Drawing] /\ canvas' \in [Pages -> Drawing]
        BY <1>8 DEF Clear, Typed, TypeOK, Drawing
    <2>2. disk' \in [Pages -> Drawing] /\ unsaved' \in BOOLEAN
        BY <1>8, <2>1, SaveTyped DEF Clear
    <2> QED BY <1>8, <2>1, <2>2 DEF Clear, Typed, TypeOK, IndexInHistory
<1>9. CASE Save
    <2>1. memory' \in [Pages -> Drawing]
        BY <1>9 DEF Save, Typed, TypeOK
    <2>2. disk' \in [Pages -> Drawing] /\ unsaved' \in BOOLEAN
        BY <1>9, <2>1, SaveTyped DEF Save
    <2> QED BY <1>9, <2>1, <2>2 DEF Save, Typed, TypeOK, IndexInHistory
<1>10. CASE UNCHANGED vars
    BY <1>10 DEF vars, Typed, TypeOK, IndexInHistory
<1> QED BY <1>1, <1>2, <1>3, <1>4, <1>5, <1>6, <1>7, <1>8, <1>9, <1>10 DEF Next

\* The store, the canvases and the histories have their types, and no history grows
\* beyond its limit.
THEOREM TypeCorrect == Spec => []TypeOK
<1>1. Typed => TypeOK
    BY DEF Typed
<1> QED BY <1>1, TypedInit, TypedNext, PTL DEF Spec

\* Undo, redo and canUndo never read outside a page's history.
THEOREM IndexStaysInHistory == Spec => []IndexInHistory
<1>1. Typed => IndexInHistory
    BY DEF Typed
<1> QED BY <1>1, TypedInit, TypedNext, PTL DEF Spec

-------------------------------------------------------------------------------
(***************************************************************************)
(* The copies of one page's drawing.                                       *)
(***************************************************************************)
CanvasOK(p) ==
    phase[p] = "ready" =>
        /\ memory[p] \subseteq canvas[p]
        /\ ~deaf[p] => /\ canvas[p] = memory[p]
                       /\ history[p] # <<>> => canvas[p] = history[p][historyIndex[p] + 1]

IndexOK(p) == history[p] # <<>> => historyIndex[p] >= 0

ClosedOK(p) == ~open => phase[p] = "none" /\ memory[p] = {}

OnDisk(p) == disk[p] = memory[p]

DiskOK(p) ==
    open /\ ~unsaved =>
            /\ phase[p] # "ready" => OnDisk(p)
            /\ deaf[p] \/ OnDisk(p) \/ \E k \in DOMAIN history[p] : disk[p] = history[p][k]

PageOK(p) == CanvasOK(p) /\ IndexOK(p) /\ ClosedOK(p) /\ DiskOK(p)

\* Only pages on screen have a canvas.
ShownOK == \A p \in Pages : phase[p] # "none" => p \in OnScreen

IInv == Typed /\ ShownOK /\ \A p \in Pages : PageOK(p)

\* Of a page that a step does not touch.
LEMMA PageUntouched ==
    ASSUME NEW p \in Pages, PageOK(p),
           open' = open, phase'[p] = phase[p], deaf'[p] = deaf[p], canvas'[p] = canvas[p],
           memory'[p] = memory[p], disk'[p] = disk[p], unsaved' = unsaved,
           history'[p] = history[p], historyIndex'[p] = historyIndex[p]
    PROVE  PageOK(p)'
    BY DEF PageOK, CanvasOK, IndexOK, ClosedOK, DiskOK, OnDisk

\* Of a page whose drawing was stored, or failed to be: that it shows it is enough.
LEMMA PageStored ==
    ASSUME NEW p \in Pages, IndexOK(p)', CanvasOK(p)', open',
           unsaved' \/ memory'[p] = disk'[p]
    PROVE  PageOK(p)'
    BY DEF PageOK, ClosedOK, DiskOK, OnDisk

\* A write either fails or leaves no page behind.
LEMMA SavedOrNot ==
    ASSUME NEW pages, SaveAnnotations(pages)
    PROVE  \/ unsaved' = TRUE
           \/ unsaved' = FALSE /\ disk' = memory'
    BY DEF SaveAnnotations

LEMMA OpenWhenShown ==
    ASSUME IInv, NEW p \in Pages, phase[p] # "none"
    PROVE  open /\ open \in BOOLEAN
    BY DEF IInv, PageOK, ClosedOK, Typed, TypeOK

\* What a push leaves on a page with a history that was ended by its canvas.
LEMMA PushEnds ==
    ASSUME Typed, NEW p \in Pages, NEW d \in Drawing, Push(p, d)
    PROVE  /\ historyIndex'[p] >= 0
           /\ history'[p][historyIndex'[p] + 1] = d
           /\ historyIndex[p] >= 0 =>
                /\ historyIndex'[p] > 0
                /\ history'[p][historyIndex'[p]] = history[p][historyIndex[p] + 1]
           /\ \A q \in Pages \ {p} : history'[q] = history[q]
                                     /\ historyIndex'[q] = historyIndex[q]
<1>1. /\ history[p] \in Seq(Drawing) /\ historyIndex[p] \in Int
      /\ -1 <= historyIndex[p] /\ historyIndex[p] < Len(history[p])
      /\ Len(history[p]) <= MaxHistory
    BY DEF Typed, TypeOK, IndexInHistory
<1> DEFINE new == Pushed(history[p], historyIndex[p], d)
<1>2. /\ Len(new) \in 1..MaxHistory
      /\ new[Len(new)] = d
      /\ historyIndex[p] >= 0 =>
           Len(new) > 1 /\ new[Len(new) - 1] = history[p][historyIndex[p] + 1]
    BY <1>1, PushedType
<1>3. /\ history' = [history EXCEPT ![p] = new]
      /\ historyIndex' = [historyIndex EXCEPT ![p] = Len(new) - 1]
    BY DEF Push
<1> HIDE DEF new
<1>4. history'[p] = new /\ historyIndex'[p] = Len(new) - 1
    BY <1>3 DEF Typed, TypeOK
<1>5. \A q \in Pages \ {p} : history'[q] = history[q] /\ historyIndex'[q] = historyIndex[q]
    BY <1>3 DEF Typed, TypeOK
<1> QED BY <1>2, <1>4, <1>5, AnnotationAssumption

LEMMA IInvInit == Init => IInv
<1> SUFFICES ASSUME Init PROVE ShownOK /\ \A p \in Pages : PageOK(p)
    BY TypedInit DEF IInv
<1> QED BY DEF Init, Blank, ShownOK, PageOK, CanvasOK, IndexOK, ClosedOK, DiskOK

LEMMA ShownNext == IInv /\ [Next]_vars => ShownOK'
<1> SUFFICES ASSUME IInv, [Next]_vars PROVE ShownOK'
    OBVIOUS
<1> USE DEF ShownOK, OnScreen
<1>0. phase \in [Pages -> Phase] /\ ShownOK
    BY DEF IInv, Typed, TypeOK
<1>1. CASE \E p \in Pages : OpenViewer(p)
    BY <1>1 DEF OpenViewer
<1>2. CASE CloseViewer
    BY <1>2 DEF CloseViewer
<1>3. ASSUME NEW c \in Pages, NEW v \in ViewMode, Turn(c, v) PROVE ShownOK'
    <2>1. \A p \in Pages : p \notin Spread(c, v) => phase'[p] = "none"
        BY <1>3 DEF Turn, Switched
    <2>2. current' = c /\ viewMode' = v
        BY <1>3 DEF Turn
    <2> QED BY <2>1, <2>2
<1>4. CASE \E p \in Pages : ImageLoaded(p)
    BY <1>0, <1>4 DEF ImageLoaded
<1>5. CASE \E p \in Pages : Frame(p)
    BY <1>0, <1>5 DEF Frame
<1>6. CASE UNCHANGED <<phase, current, viewMode>>
    BY <1>0, <1>6
<1> QED BY <1>1, <1>2, <1>3, <1>4, <1>5, <1>6
        DEF Next, Draw, Undo, Redo, GoTo, Clear, Save, vars

LEMMA IInvTurn ==
    ASSUME IInv, NEW c \in Pages, NEW v \in ViewMode, Turn(c, v), NEW p \in Pages
    PROVE  PageOK(p)'
<1>0. /\ open /\ open' = open
      /\ phase'[p] = CASE p \notin Spread(c, v) -> "none"
                       [] p \in Spread(c, v) \ OnScreen -> "loading"
                       [] Switched(p, c, v) /\ HasCanvas(p) -> "made"
                       [] OTHER -> phase[p]
      /\ deaf'[p] = (p \in Spread(c, v) /\ (deaf[p] \/ (Switched(p, c, v) /\ HasCanvas(p))))
      /\ canvas'[p] = IF p \in Spread(c, v) /\ ~Switched(p, c, v) THEN canvas[p] ELSE {}
      /\ memory' = StoredAtTurn(c, v)
      /\ history' = history /\ historyIndex' = historyIndex
    BY DEF Turn
<1>1. memory'[p] = IF p \in Going(c, v) THEN canvas[p] ELSE memory[p]
    BY <1>0 DEF StoredAtTurn
<1>2. PageOK(p)
    BY DEF IInv
<1>3. \/ unsaved' = TRUE
      \/ unsaved' = FALSE /\ disk' = memory'
      \/ p \notin Going(c, v) /\ UNCHANGED <<disk, unsaved>>
    BY SavedOrNot DEF Turn
<1>4. CASE phase'[p] = "ready"
    <2>1. /\ phase[p] = "ready" /\ p \in Spread(c, v) /\ ~Switched(p, c, v)
        BY <1>0, <1>4 DEF HasCanvas
    <2>2. canvas'[p] = canvas[p] /\ memory'[p] = memory[p]
        BY <1>0, <1>1, <2>1 DEF Going
    <2>3. deaf'[p] = deaf[p]
        BY <1>0, <2>1 DEF IInv, Typed, TypeOK
    <2>4. CASE unsaved' \/ disk' = memory'
        BY <1>0, <1>2, <2>1, <2>2, <2>3, <2>4, PageStored DEF PageOK, CanvasOK, IndexOK
    <2>5. CASE UNCHANGED <<disk, unsaved>>
        <3>1. phase'[p] = phase[p] /\ disk'[p] = disk[p] /\ unsaved' = unsaved
              /\ history'[p] = history[p] /\ historyIndex'[p] = historyIndex[p]
            BY <1>0, <1>4, <2>1, <2>5
        <3> QED BY <1>0, <1>2, <2>2, <2>3, <3>1, PageUntouched
    <2> QED BY <1>3, <2>4, <2>5
<1>5. CASE phase'[p] # "ready"
    <2>1. unsaved' \/ memory'[p] = disk'[p]
        <3>1. CASE p \notin Going(c, v) /\ UNCHANGED <<disk, unsaved>>
            <4>1. memory'[p] = memory[p]
                BY <1>1, <3>1
            <4>2. phase[p] # "ready"
                BY <1>0, <1>5, <3>1 DEF Going, HasCanvas, IInv, ShownOK
            <4> QED BY <1>0, <1>2, <3>1, <4>1, <4>2 DEF PageOK, DiskOK, OnDisk
        <3> QED BY <1>3, <3>1
    <2>2. IndexOK(p)' /\ CanvasOK(p)'
        BY <1>0, <1>2, <1>5 DEF PageOK, IndexOK, CanvasOK
    <2> QED BY <1>0, <2>1, <2>2, PageStored
<1> QED BY <1>4, <1>5

LEMMA IInvPages ==
    ASSUME IInv, [Next]_vars, Typed', NEW q \in Pages
    PROVE  PageOK(q)'
<1>0. PageOK(q) /\ Typed
    BY DEF IInv
<1>1. ASSUME NEW p \in Pages, OpenViewer(p) PROVE PageOK(q)'
    <2>1. /\ ~open /\ open' /\ phase'[q] # "ready" /\ memory'[q] = disk'[q]
          /\ history' = history /\ historyIndex' = historyIndex
        BY <1>1 DEF OpenViewer
    <2> QED BY <1>0, <2>1, PageStored DEF PageOK, IndexOK, CanvasOK
<1>2. CASE CloseViewer
    BY <1>2 DEF CloseViewer, Blank, PageOK, CanvasOK, IndexOK, ClosedOK, DiskOK
<1>3. ASSUME NEW c \in Pages, NEW v \in ViewMode, Turn(c, v) PROVE PageOK(q)'
    BY <1>3, IInvTurn
<1>4. ASSUME NEW p \in Pages, ImageLoaded(p) PROVE PageOK(q)'
    <2>1. CASE q = p
        <3>1. open /\ open' = open
            BY <1>4, OpenWhenShown DEF ImageLoaded
        <3>2. phase[q] = "loading" /\ phase'[q] = "made"
            BY <1>0, <1>4, <2>1 DEF ImageLoaded, Typed, TypeOK
        <3>3. UNCHANGED <<deaf, canvas, memory, disk, unsaved, history, historyIndex>>
            BY <1>4 DEF ImageLoaded
        <3> QED BY <1>0, <3>1, <3>2, <3>3
                DEF PageOK, CanvasOK, IndexOK, ClosedOK, DiskOK, OnDisk
    <2>2. CASE q # p
        BY <1>0, <1>4, <2>2, PageUntouched DEF ImageLoaded, Typed, TypeOK
    <2> QED BY <2>1, <2>2
<1>5. ASSUME NEW p \in Pages, Frame(p) PROVE PageOK(q)'
    <2>0. /\ memory[p] \in Drawing /\ Push(p, memory[p])
          /\ UNCHANGED <<open, deaf, memory, disk, unsaved>>
        BY <1>0, <1>5 DEF Frame, Typed, TypeOK
    <2>1. CASE q = p
        <3>1. open /\ open'
            BY <1>5, <2>0, OpenWhenShown DEF Frame
        <3>2. unsaved \/ memory[q] = disk[q]
            BY <1>0, <1>5, <2>1, <3>1 DEF Frame, PageOK, DiskOK, OnDisk
        <3>3. canvas'[q] = memory[q]
            BY <1>0, <1>5, <2>1 DEF Frame, Typed, TypeOK
        <3>4. historyIndex'[q] >= 0 /\ history'[q][historyIndex'[q] + 1] = memory[q]
            BY <1>0, <2>0, <2>1, PushEnds
        <3> QED BY <2>0, <3>1, <3>2, <3>3, <3>4, PageStored DEF IndexOK, CanvasOK
    <2>2. CASE q # p
        <3>1. history'[q] = history[q] /\ historyIndex'[q] = historyIndex[q]
            BY <1>0, <2>0, <2>2, PushEnds
        <3> QED BY <1>0, <1>5, <2>0, <2>2, <3>1, PageUntouched DEF Frame, Typed, TypeOK
    <2> QED BY <2>1, <2>2
<1>6. ASSUME NEW p \in Pages, NEW s \in Strokes, Draw(p, s) PROVE PageOK(q)'
    <2>0. /\ open /\ open' /\ phase[p] = "ready" /\ UNCHANGED <<open, phase, deaf>>
          /\ canvas' = [canvas EXCEPT ![p] = @ \cup {s}]
        BY <1>6, OpenWhenShown DEF Draw
    <2>1. CASE deaf[p]
        <3>1. UNCHANGED <<memory, disk, unsaved, history, historyIndex>>
            BY <1>6, <2>1 DEF Draw
        <3>2. canvas'[q] = IF q = p THEN canvas[q] \cup {s} ELSE canvas[q]
            BY <1>0, <2>0 DEF Typed, TypeOK
        <3>3. CASE q = p
            BY <1>0, <2>0, <2>1, <3>1, <3>2, <3>3
               DEF PageOK, CanvasOK, IndexOK, ClosedOK, DiskOK, OnDisk
        <3>4. CASE q # p
            BY <1>0, <2>0, <3>1, <3>2, <3>4, PageUntouched
        <3> QED BY <3>3, <3>4
    <2>2. CASE ~deaf[p]
        <3>1. /\ memory' = [memory EXCEPT ![p] = canvas'[p]]
              /\ unsaved' \/ disk' = memory'
              /\ Push(p, canvas'[p]) /\ canvas'[p] \in Drawing
            BY <1>6, <2>2, SavedOrNot DEF Draw, Typed, TypeOK
        <3>2. CASE q = p
            <4>1. historyIndex'[q] >= 0 /\ history'[q][historyIndex'[q] + 1] = canvas'[q]
                BY <1>0, <3>1, <3>2, PushEnds
            <4>2. memory'[q] = canvas'[q]
                BY <1>0, <3>1, <3>2 DEF Typed, TypeOK
            <4> QED BY <2>0, <3>1, <4>1, <4>2, PageStored DEF IndexOK, CanvasOK
        <3>3. CASE q # p
            <4>1. history'[q] = history[q] /\ historyIndex'[q] = historyIndex[q]
                BY <1>0, <3>1, <3>3, PushEnds
            <4>2. canvas'[q] = canvas[q] /\ memory'[q] = memory[q]
                BY <1>0, <2>0, <3>1, <3>3 DEF Typed, TypeOK
            <4> QED BY <1>0, <2>0, <3>1, <4>1, <4>2, PageStored
                    DEF PageOK, IndexOK, CanvasOK
        <3> QED BY <3>2, <3>3
    <2> QED BY <2>1, <2>2
<1>7. CASE Undo \/ Redo
    <2>0. /\ current \in Pages /\ phase[current] = "ready" /\ open
          /\ historyIndex[current] \in Int /\ history[current] \in Seq(Drawing)
        BY <1>0, <1>7, OpenWhenShown DEF Undo, Redo, Typed, TypeOK
    <2>1. PICK i \in Int : GoTo(i) /\ 0 <= i /\ i < Len(history[current])
        BY <1>0, <1>7, <2>0 DEF Undo, Redo, Typed, IndexInHistory
    <2>2. UNCHANGED <<open, phase, deaf, disk, unsaved, history>>
        BY <2>1 DEF GoTo
    <2>3. CASE q = current
        <3>1. /\ canvas'[q] = history[q][i + 1] /\ memory'[q] = history[q][i + 1]
              /\ historyIndex'[q] = i
            BY <1>0, <2>1, <2>3 DEF GoTo, Typed, TypeOK
        <3>2. CanvasOK(q)' /\ IndexOK(q)'
            BY <2>1, <2>2, <3>1 DEF CanvasOK, IndexOK
        <3>3. unsaved \/ deaf[q] \/ \E k \in DOMAIN history[q] : disk[q] = history[q][k]
            <4>1. ASSUME ~unsaved, ~deaf[q], OnDisk(q)
                  PROVE  \E k \in DOMAIN history[q] : disk[q] = history[q][k]
                <5>1. history[q] # <<>> /\ historyIndex[q] + 1 \in DOMAIN history[q]
                    BY <1>0, <2>0, <2>1, <2>3
                       DEF PageOK, IndexOK, Typed, IndexInHistory
                <5>2. disk[q] = history[q][historyIndex[q] + 1]
                    BY <1>0, <2>0, <2>3, <4>1, <5>1 DEF PageOK, CanvasOK, OnDisk
                <5> QED BY <5>1, <5>2
            <4> QED BY <1>0, <2>0, <4>1 DEF PageOK, DiskOK
        <3> QED BY <2>0, <2>2, <2>3, <3>2, <3>3 DEF PageOK, ClosedOK, DiskOK
    <2>4. CASE q # current
        BY <1>0, <2>1, <2>2, <2>4, PageUntouched DEF GoTo, Typed, TypeOK
    <2> QED BY <2>3, <2>4
<1>8. CASE Clear
    <2>0. open /\ open' = open /\ (unsaved' \/ disk' = memory') /\ phase' = phase /\ deaf' = deaf
        BY <1>0, <1>8, OpenWhenShown, SavedOrNot DEF Clear, Typed, TypeOK
    <2>1. CASE q \in OnScreen
        <3>1. canvas'[q] = {} /\ memory'[q] = {} /\ history'[q] = <<>>
            BY <1>8, <2>1 DEF Clear
        <3> QED BY <2>0, <3>1, PageStored DEF CanvasOK, IndexOK
    <2>2. CASE q \notin OnScreen
        <3>1. /\ canvas'[q] = canvas[q] /\ memory'[q] = memory[q]
              /\ history'[q] = history[q] /\ historyIndex'[q] = historyIndex[q]
            BY <1>8, <2>2 DEF Clear
        <3> QED BY <1>0, <2>0, <3>1, PageStored DEF PageOK, CanvasOK, IndexOK
    <2> QED BY <2>1, <2>2
<1>9. CASE Save
    <2>0. /\ open /\ open' = open /\ (unsaved' \/ disk' = memory')
          /\ UNCHANGED <<phase, deaf, canvas, history, historyIndex>>
        BY <1>0, <1>9, OpenWhenShown, SavedOrNot DEF Save, Typed, TypeOK
    <2>1. phase[q] = "ready" => memory'[q] = canvas[q]
        BY <1>9 DEF Save, HasCanvas
    <2> QED BY <1>0, <2>0, <2>1, PageStored DEF PageOK, CanvasOK, IndexOK
<1>10. CASE UNCHANGED vars
    BY <1>0, <1>10, PageUntouched DEF vars
<1> QED BY <1>1, <1>2, <1>3, <1>4, <1>5, <1>6, <1>7, <1>8, <1>9, <1>10 DEF Next

LEMMA IInvNext == IInv /\ [Next]_vars => IInv'
    BY TypedNext, ShownNext, IInvPages DEF IInv

\* Drawing, undo, redo and turning pages never leave the canvas, the store and the
\* history of a page apart, as long as the canvas is listened to.
THEOREM CopiesAlwaysAgree == Spec => []CopiesAgree
<1>1. IInv => CopiesAgree
    BY DEF IInv, PageOK, CanvasOK, CopiesAgree
<1> QED BY <1>1, IInvInit, IInvNext, PTL DEF Spec

\* After a write that succeeded localStorage is never behind the store by anything but
\* undo and redo, whatever writes failed before it.
THEOREM DiskOnlyBehindByUndo == Spec => []DiskIsBehindByUndo
<1>1. IInv => DiskIsBehindByUndo
    BY DEF IInv, PageOK, DiskOK, OnDisk, DiskIsBehindByUndo
<1> QED BY <1>1, IInvInit, IInvNext, PTL DEF Spec

-------------------------------------------------------------------------------
(***************************************************************************)
(* What a step may do to a drawing.                                        *)
(***************************************************************************)
LEMMA KeepStep ==
    ASSUME IInv, [Next]_vars, NEW p \in Pages
    PROVE  \/ memory[p] \subseteq memory'[p]
           \/ (p = current /\ (Undo \/ Redo))
           \/ (p \in OnScreen /\ Clear)
           \/ CloseViewer
           \/ phase[p] = "made"
<1> SUFFICES ASSUME ~(p = current /\ (Undo \/ Redo)), ~(p \in OnScreen /\ Clear),
                    ~CloseViewer, phase[p] # "made"
             PROVE  memory[p] \subseteq memory'[p]
    OBVIOUS
<1>0. PageOK(p) /\ Typed
    BY DEF IInv
<1>1. ASSUME NEW q \in Pages, OpenViewer(q) PROVE memory[p] \subseteq memory'[p]
    BY <1>0, <1>1 DEF OpenViewer, PageOK, ClosedOK
<1>2. ASSUME NEW c \in Pages, NEW v \in ViewMode, Turn(c, v)
      PROVE  memory[p] \subseteq memory'[p]
    <2>1. memory'[p] = memory[p] \/ (phase[p] = "ready" /\ memory'[p] = canvas[p])
        BY <1>2 DEF Turn, StoredAtTurn, Going, HasCanvas
    <2> QED BY <1>0, <2>1 DEF PageOK, CanvasOK
<1>3. ASSUME NEW q \in Pages, NEW s \in Strokes, Draw(q, s)
      PROVE  memory[p] \subseteq memory'[p]
    <2>1. CASE deaf[q]
        BY <1>3, <2>1 DEF Draw
    <2>2. CASE ~deaf[q] /\ q = p
        <3>1. memory[p] \subseteq canvas[p]
            BY <1>0, <1>3, <2>2 DEF Draw, PageOK, CanvasOK
        <3>2. memory'[p] = canvas[p] \cup {s}
            BY <1>0, <1>3, <2>2 DEF Draw, Typed, TypeOK
        <3> QED BY <3>1, <3>2
    <2>3. CASE ~deaf[q] /\ q # p
        BY <1>0, <1>3, <2>3 DEF Draw, Typed, TypeOK
    <2> QED BY <2>1, <2>2, <2>3
<1>4. CASE Save
    BY <1>0, <1>4 DEF Save, HasCanvas, PageOK, CanvasOK
<1>5. CASE Undo \/ Redo
    BY <1>0, <1>5 DEF Undo, Redo, GoTo, Typed, TypeOK
<1>6. CASE Clear
    BY <1>0, <1>6 DEF Clear
<1>7. CASE memory' = memory
    BY <1>7
<1> QED BY <1>1, <1>2, <1>3, <1>4, <1>5, <1>6, <1>7 DEF Next, ImageLoaded, Frame, vars

\* No step but undo and redo of the page shown and clear of the pages on screen takes
\* strokes from a stored drawing, except that a page is turned before the frame that
\* fills its canvas.
THEOREM StrokesKept == Spec => StrokesAreKept
<1>1. IInv /\ [Next]_vars =>
        [\A p \in Pages :
             memory[p] \subseteq memory'[p]
             \/ (p = current /\ (Undo \/ Redo))
             \/ (p \in OnScreen /\ Clear)
             \/ CloseViewer
             \/ phase[p] = "made"]_vars
    BY KeepStep
<1> QED BY <1>1, IInvInit, IInvNext, PTL DEF Spec, StrokesAreKept

LEMMA DrawStep ==
    ASSUME IInv, NEW p \in Pages, NEW s \in Strokes, Draw(p, s),
           history[p] # <<>>, ~deaf[p]
    PROVE  historyIndex'[p] > 0 /\ history'[p][historyIndex'[p]] = canvas[p]
<1>0. PageOK(p) /\ Typed
    BY DEF IInv
<1>1. Push(p, canvas'[p]) /\ phase[p] = "ready"
    BY DEF Draw
<1>2. canvas'[p] \in Drawing
    BY <1>0 DEF Draw, Typed, TypeOK, Drawing
<1>3. historyIndex[p] >= 0 /\ canvas[p] = history[p][historyIndex[p] + 1]
    BY <1>0, <1>1 DEF PageOK, IndexOK, CanvasOK
<1> QED BY <1>0, <1>1, <1>2, <1>3, PushEnds

\* A stroke is always the one that undo takes away.
THEOREM StrokesCanBeUndone == Spec => StrokeCanBeUndone
<1>1. IInv /\ [Next]_vars =>
        [\A p \in Pages :
             history[p] # <<>> /\ ~deaf[p] /\ (\E s \in Strokes : Draw(p, s)) =>
                 historyIndex'[p] > 0 /\ history'[p][historyIndex'[p]] = canvas[p]]_vars
    BY DrawStep
<1> QED BY <1>1, IInvInit, IInvNext, PTL DEF Spec, StrokeCanBeUndone
===============================================================================
