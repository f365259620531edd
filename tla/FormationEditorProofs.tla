----------------------- MODULE FormationEditorProofs -----------------------
(***************************************************************************)
(* What the formation editor keeps, for any number of pairs and edits: the *)
(* canvas shown is the one chosen, at its scale; the pairs stay well       *)
(* formed; and pointers go stale only by a load during a simulation or game.*)
(***************************************************************************)
EXTENDS FormationEditor, TLAPS

USE EditorAssumption

WellFormed(c) ==
  /\ c \in Canvas
  /\ Fixed \subseteq c.ids
  /\ \A i \in c.ids : i < c.next
  /\ c.sel # None /\ ~c.orphan => c.sel \in c.ids

CanvasesOK ==
  /\ canvases \in [Slots -> Canvas \cup {Absent}]
  /\ \A s \in Slots : canvases[s] # Absent => WellFormed(canvases[s])

\* Mouse and keys may act while the other tab is shown.
Held == current \in Slots => canvases[current] # Absent

ScalarsOK ==
  /\ mode \in {"Edit", "Simulation", "RealGame"}
  /\ app \in {"Watch", "FormationEditor"}
  /\ scale \in Pitches /\ pitch \in Pitches /\ refPitch \in Pitches /\ simPitch \in Pitches
  /\ team \in Teams /\ refTeam \in Teams
  /\ firstEntry \in BOOLEAN /\ showRef \in BOOLEAN /\ simBtn \in BOOLEAN
  /\ realBtn \in BOOLEAN /\ lateLoad \in BOOLEAN /\ leftTab \in BOOLEAN
  /\ edits \in 0..MaxEdits
  /\ crashed \in {"no", "stale", "null", "check"}

PointersOK == current \in Pointers /\ ref \in Pointers /\ simRef \in Pointers

\* Only one of the two modes can be on, and the tab is entered in Edit mode unless it
\* was left in another.
ModesAgree ==
  /\ mode = "Simulation" => ~realBtn
  /\ mode = "RealGame" => ~simBtn
  /\ app = "Watch" /\ mode # "Edit" => leftTab
  /\ refPitch = pitch

\* The canvas of a simulation is forgotten with it, and stale only after a load.
SimRefKnown ==
  /\ mode = "Edit" => simRef = Null
  /\ simRef = Dangling => lateLoad

IInv ==
  /\ CanvasesOK /\ ScalarsOK /\ PointersOK
  /\ Held /\ ModesAgree /\ SimRefKnown
  /\ ShownAsChosen /\ ScaleAgrees /\ CrashesKnown

-----------------------------------------------------------------------------
(* Canvases. *)

LEMMA NewIsWellFormed ==
  ASSUME NEW ids \in SUBSET Ids, Fixed \subseteq ids, NEW n \in 0..MaxId + 1,
         \A i \in ids : i < n
  PROVE  WellFormed(NewCanvas(ids, n))
BY DEF WellFormed, NewCanvas, Canvas

LEMMA LoadedIsWellFormed ==
  ASSUME NEW ids \in Files, ids # {}
  PROVE  WellFormed(Loaded(ids))
<1> DEFINE Top == CHOOSE i \in ids : \A j \in ids : j <= i
<1>1. ids = {0, 1} \/ ids = {0, 1, 2}
  BY DEF Files, Fixed
<1>2. \E i \in ids : \A j \in ids : j <= i
  BY <1>1
<1>3. Top \in ids /\ \A j \in ids : j <= Top
  BY <1>2
<1>4. ids \in SUBSET Ids /\ Fixed \subseteq ids /\ ids \subseteq Nat
  BY <1>1 DEF Ids, Fixed
<1> HIDE DEF Top
<1>5. 1 + Top \in 0..MaxId + 1
  BY <1>3, <1>4 DEF Ids
<1>6. \A i \in ids : i < 1 + Top
  BY <1>3, <1>4
<1>7. WellFormed(NewCanvas(ids, 1 + Top))
  BY <1>4, <1>5, <1>6, NewIsWellFormed
<1> QED
  BY <1>7 DEF Loaded, Top

LEMMA CopiedIsWellFormed ==
  ASSUME NEW to, NEW from, WellFormed(to), WellFormed(from)
  PROVE  WellFormed(Copied(to, from))
BY DEF WellFormed, Copied, Canvas

LEMMA AddedIsWellFormed ==
  ASSUME NEW c, WellFormed(c), c.next <= MaxId
  PROVE  WellFormed([c EXCEPT !.ids = @ \cup {c.next}, !.next = @ + 1])
<1> DEFINE d == [c EXCEPT !.ids = @ \cup {c.next}, !.next = @ + 1]
<1>1. c.next \in 0..MaxId /\ c.ids \subseteq 0..MaxId
  BY DEF WellFormed, Canvas, Ids
<1>2. /\ d.ids = c.ids \cup {c.next} /\ d.next = c.next + 1
      /\ d.sel = c.sel /\ d.orphan = c.orphan
  BY DEF WellFormed, Canvas
<1>3. d.next \in 0..MaxId + 1 /\ d.ids \in SUBSET Ids
  BY <1>1, <1>2 DEF Ids
<1>4. d \in Canvas
  BY <1>3 DEF WellFormed, Canvas
<1>5. \A i \in d.ids : i < d.next
  BY <1>1, <1>2 DEF WellFormed
<1> QED
  BY <1>2, <1>4, <1>5 DEF WellFormed

LEMMA DeletedIsWellFormed ==
  ASSUME NEW c, WellFormed(c), c.sel \notin Fixed \cup {None}
  PROVE  WellFormed(Deleted(c))
BY DEF WellFormed, Deleted, Canvas, Fixed

\* A canvas that changes stays well formed, and none is lost or made.
LEMMA EditedCanvases ==
  ASSUME CanvasesOK, Held, NEW s \in Slots, NEW c, WellFormed(c),
         canvases' = [canvases EXCEPT ![s] = c], canvases[s] # Absent, UNCHANGED current
  PROVE  /\ CanvasesOK' /\ Held'
         /\ \A t \in Slots : canvases'[t] = Absent <=> canvases[t] = Absent
<1>1. c \in Canvas /\ c # Absent
  BY DEF WellFormed
<1> QED
  BY <1>1 DEF CanvasesOK, Held

-----------------------------------------------------------------------------
(* What several actions share. *)

\* Looking both canvases up in Edit mode.
LEMMA UpdateBothShows ==
  ASSUME UpdateBoth, mode' = "Edit", refPitch' = pitch', pitch' \in Pitches,
         team' \in Teams, refTeam' \in Teams
  PROVE  /\ scale' \in Pitches /\ current' \in Pointers /\ ref' \in Pointers
         /\ Held' /\ ShownAsChosen' /\ ScaleAgrees'
<1>1. <<pitch', team'>> \in Slots /\ <<refPitch', refTeam'>> \in Slots
  BY DEF Slots
<1>2. /\ current' = CanvasAt(<<pitch', team'>>)
      /\ ref' = IF showRef' THEN CanvasAt(<<refPitch', refTeam'>>) ELSE Null
      /\ scale' = pitch'
  BY DEF UpdateBoth, SetCurrentCanvas, ShowRef, Scaled
<1> QED
  BY <1>1, <1>2 DEF CanvasAt, Held, ShownAsChosen, ScaleAgrees, Pointers

LEMMA LoadFileKeeps ==
  ASSUME IInv, NEW ids \in Files, LoadFile(ids), UNCHANGED <<boxes, mode>>
  PROVE  /\ CanvasesOK' /\ PointersOK' /\ Held' /\ SimRefKnown'
         /\ scale' \in Pitches /\ lateLoad' \in BOOLEAN
         /\ mode' = "Edit" => ShownAsChosen' /\ ScaleAgrees'
         /\ mode' # "Edit" => scale' = scale
<1> USE DEF IInv
<1>1. CanvasesOK'
  <2>1. CASE ids = {}
    BY <2>1 DEF LoadFile, CanvasesOK
  <2>2. CASE ids # {}
    <3>1. Loaded(ids) \in Canvas /\ WellFormed(Loaded(ids))
      BY <2>2, LoadedIsWellFormed DEF WellFormed
    <3> QED
      BY <2>2, <3>1 DEF LoadFile, CanvasesOK
  <2> QED
    BY <2>1, <2>2
<1>2. simRef' \in Pointers /\ SimRefKnown'
  BY DEF LoadFile, Stale, Pointers, PointersOK, SimRefKnown
<1>3. lateLoad' \in BOOLEAN
  BY DEF LoadFile, ScalarsOK
<1>4. CASE mode = "Edit"
  <2>1. UpdateBoth /\ mode' = "Edit"
    BY <1>4 DEF LoadFile
  <2>2. /\ refPitch' = pitch' /\ pitch' \in Pitches
        /\ team' \in Teams /\ refTeam' \in Teams
    BY DEF boxes, ScalarsOK, ModesAgree
  <2> QED
    BY <1>1, <1>2, <1>3, <2>1, <2>2, UpdateBothShows DEF PointersOK
<1>5. CASE mode # "Edit"
  <2>1. current' = Stale(current) /\ ref' = Stale(ref) /\ scale' = scale /\ mode' # "Edit"
    BY <1>5 DEF LoadFile
  <2>2. current' \in Pointers \ Slots /\ ref' \in Pointers
    BY <2>1 DEF Stale, Pointers, PointersOK
  <2> QED
    BY <1>1, <1>2, <1>3, <2>1, <2>2 DEF PointersOK, Held, ScalarsOK
<1> QED
  BY <1>4, <1>5

LEMMA CrashKeeps ==
  ASSUME IInv, NEW how \in {"stale", "null", "check"}, Crash(how),
         how = "stale" => lateLoad,
         how = "check" => mode = "Edit" /\ canvases[current].orphan
  PROVE  IInv'
<1>1. /\ UNCHANGED <<canvases, current, ref, scale, simRef, mode, app, firstEntry, buttons,
                     edits, lateLoad, leftTab>>
      /\ UNCHANGED <<pitch, team, refPitch, refTeam, showRef, simPitch>>
      /\ UNCHANGED <<simBtn, realBtn>>
  BY DEF Crash, shown, boxes, buttons, history
<1>2. CanvasesOK' /\ PointersOK' /\ Held' /\ SimRefKnown'
  BY <1>1 DEF IInv, CanvasesOK, PointersOK, Held, SimRefKnown
<1>3. ScalarsOK' /\ ModesAgree' /\ ShownAsChosen' /\ ScaleAgrees'
  BY <1>1 DEF IInv, Crash, ScalarsOK, ModesAgree, ShownAsChosen, ScaleAgrees
<1>4. CrashesKnown'
  BY <1>1 DEF Crash, CrashesKnown
<1> QED
  BY <1>2, <1>3, <1>4 DEF IInv

-----------------------------------------------------------------------------
(* The actions. *)

LEMMA InitIInv == Init => IInv
<1> SUFFICES ASSUME Init PROVE IInv
  OBVIOUS
<1> USE DEF Init
<1>1. WellFormed(NewCanvas(Fixed, 2))
  BY NewIsWellFormed DEF Ids, Fixed
<1>2. CanvasesOK /\ Held
  BY <1>1 DEF CanvasesOK, Held, WellFormed
<1>3. ScalarsOK /\ PointersOK
  <2>1. edits \in 0..MaxEdits
    BY DEF ScalarsOK
  <2>2. /\ mode \in {"Edit", "Simulation", "RealGame"}
        /\ app \in {"Watch", "FormationEditor"}
        /\ crashed \in {"no", "stale", "null", "check"}
    OBVIOUS
  <2>3. ScalarsOK
    BY <2>1, <2>2 DEF ScalarsOK, Pitches, Teams
  <2> QED
    BY <2>3 DEF PointersOK, Pointers
<1>4. ModesAgree /\ SimRefKnown /\ ShownAsChosen /\ ScaleAgrees /\ CrashesKnown
  BY DEF ModesAgree, SimRefKnown, ShownAsChosen, ScaleAgrees, CrashesKnown
<1> QED
  BY <1>2, <1>3, <1>4 DEF IInv

\* What a step shows keeps the rest when it leaves files and modes alone.
LEMMA ShowKeeps ==
  ASSUME IInv, crashed = "no", ScalarsOK', refPitch' = pitch', app = "FormationEditor",
         UNCHANGED <<canvases, simRef, mode, app, simBtn, realBtn, lateLoad, leftTab,
                     crashed>>,
         current' \in Pointers, ref' \in Pointers, Held', ShownAsChosen', ScaleAgrees'
  PROVE  IInv'
<1>1. CanvasesOK' /\ PointersOK'
  BY DEF IInv, CanvasesOK, PointersOK
<1>2. ModesAgree' /\ SimRefKnown' /\ CrashesKnown'
  BY DEF IInv, ModesAgree, SimRefKnown, CrashesKnown
<1> QED
  BY <1>1, <1>2 DEF IInv

LEMMA BoxesKeep == ASSUME IInv, crashed = "no", Boxes PROVE IInv'
<1> USE DEF IInv
<1>1. ASSUME NEW p \in Pitches, NEW t \in Teams, ChangeCanvas(p, t) PROVE IInv'
  <2> USE DEF ChangeCanvas
  <2>1. /\ UNCHANGED <<canvases, simRef, mode, app, simBtn, realBtn, lateLoad, leftTab,
                       crashed, firstEntry, edits, simPitch, showRef>>
        /\ pitch' = p /\ team' = t /\ refPitch' = p /\ refTeam' = t
        /\ app = "FormationEditor"
    BY <1>1 DEF buttons, history
  <2>2. <<pitch', team'>> \in Slots /\ <<refPitch', refTeam'>> \in Slots
    BY <2>1 DEF Slots
  <2>3. CASE mode = "Edit"
    <3>1. current' = CanvasAt(<<p, t>>) /\ scale' = p
      BY <1>1, <2>1, <2>3 DEF SetCurrentCanvas
    <3>2. ref' = IF showRef THEN CanvasAt(<<p, t>>) ELSE Null
      <4>1. CASE <<p, t>> # <<refPitch, refTeam>>
        BY <1>1, <2>1, <2>3, <4>1 DEF ShowRef
      <4>2. CASE <<p, t>> = <<refPitch, refTeam>>
        BY <1>1, <2>1, <2>3, <4>2 DEF CanvasAt, ShownAsChosen
      <4> QED
        BY <4>1, <4>2
    <3>3. ScalarsOK'
      BY <2>1, <3>1 DEF ScalarsOK
    <3>4. /\ current' \in Pointers /\ ref' \in Pointers
          /\ Held' /\ ShownAsChosen' /\ ScaleAgrees'
      BY <2>1, <2>2, <2>3, <3>1, <3>2 DEF CanvasAt, Pointers, Held, ShownAsChosen, ScaleAgrees
    <3> QED
      BY <2>1, <3>3, <3>4, ShowKeeps
  <2>4. CASE mode # "Edit"
    <3>1. UNCHANGED <<current, ref, scale>>
      BY <1>1, <2>4 DEF shown
    <3>2. ScalarsOK'
      BY <2>1, <3>1 DEF ScalarsOK
    <3>3. /\ current' \in Pointers /\ ref' \in Pointers
          /\ Held' /\ ShownAsChosen' /\ ScaleAgrees'
      BY <2>1, <2>4, <3>1 DEF PointersOK, Held, ShownAsChosen, ScaleAgrees
    <3> QED
      BY <2>1, <3>2, <3>3, ShowKeeps
  <2> QED
    BY <2>3, <2>4
<1>2. ASSUME app = "FormationEditor", UpdateRefCanvas,
             showRef' \in BOOLEAN, refTeam' \in Teams,
             UNCHANGED <<canvases, pitch, team, refPitch, simPitch>>,
             UNCHANGED <<simRef, mode, app, firstEntry, buttons, edits, history, crashed>>
      PROVE  IInv'
  <2>1. UNCHANGED <<simRef, mode, app, firstEntry, simBtn, realBtn, edits, lateLoad, leftTab,
                    crashed>>
    BY <1>2 DEF buttons, history
  <2>2. CASE mode = "Edit"
    <3>1. /\ ref' = IF showRef' THEN CanvasAt(<<refPitch', refTeam'>>) ELSE Null
          /\ scale' = scale /\ current' = current
      BY <1>2, <2>2 DEF UpdateRefCanvas, ShowRef, ModesAgree, ScaleAgrees
    <3>2. <<refPitch', refTeam'>> \in Slots
      BY <1>2 DEF Slots, ScalarsOK
    <3>3. ScalarsOK'
      BY <1>2, <2>1, <3>1 DEF ScalarsOK
    <3>4. /\ current' \in Pointers /\ ref' \in Pointers
          /\ Held' /\ ShownAsChosen' /\ ScaleAgrees'
      BY <1>2, <2>1, <2>2, <3>1, <3>2
         DEF CanvasAt, Pointers, PointersOK, Held, ShownAsChosen, ScaleAgrees
    <3> QED
      BY <1>2, <2>1, <3>3, <3>4, ShowKeeps DEF ModesAgree
  <2>3. CASE mode # "Edit"
    <3>1. UNCHANGED <<current, ref, scale>>
      BY <1>2, <2>3 DEF UpdateRefCanvas, shown
    <3>2. ScalarsOK'
      BY <1>2, <2>1, <3>1 DEF ScalarsOK
    <3>3. /\ current' \in Pointers /\ ref' \in Pointers
          /\ Held' /\ ShownAsChosen' /\ ScaleAgrees'
      BY <1>2, <2>1, <2>3, <3>1 DEF PointersOK, Held, ShownAsChosen, ScaleAgrees
    <3> QED
      BY <1>2, <2>1, <3>2, <3>3, ShowKeeps DEF ModesAgree
  <2> QED
    BY <2>2, <2>3
<1>3. CASE CheckShowRef
  BY <1>2, <1>3 DEF CheckShowRef, ScalarsOK
<1>4. ASSUME NEW t \in Teams, ChangeRefCanvas(t) PROVE IInv'
  BY <1>2, <1>4 DEF ChangeRefCanvas, ScalarsOK
<1>5. ASSUME NEW p \in Pitches, ChangeSimPitch(p) PROVE IInv'
  <2> USE DEF ChangeSimPitch
  <2>1. /\ UNCHANGED <<canvases, current, ref, scale, simRef, mode, app, firstEntry, pitch,
                       team, refPitch, refTeam, showRef, simBtn, realBtn, edits, lateLoad,
                       leftTab, crashed>>
        /\ simPitch' = p /\ app = "FormationEditor" /\ mode # "Simulation"
    BY <1>5 DEF shown, buttons, history
  <2>2. ScalarsOK'
    BY <2>1 DEF ScalarsOK
  <2>3. /\ current' \in Pointers /\ ref' \in Pointers
        /\ Held' /\ ShownAsChosen' /\ ScaleAgrees'
    BY <2>1 DEF PointersOK, Held, ShownAsChosen, ScaleAgrees
  <2> QED
    BY <2>1, <2>2, <2>3, ShowKeeps DEF ModesAgree
<1> QED
  BY <1>1, <1>3, <1>4, <1>5 DEF Boxes

\* A step that changes canvases, and loses or makes none.
LEMMA CanvasStepKeeps ==
  ASSUME IInv, crashed = "no", CanvasesOK', edits' \in 0..MaxEdits,
         \A s \in Slots : canvases'[s] = Absent <=> canvases[s] = Absent,
         UNCHANGED <<shown, simRef, mode, app, firstEntry, boxes, buttons, history, crashed>>
  PROVE  IInv'
<1>1. UNCHANGED <<current, ref, scale, simRef, mode, app, firstEntry, pitch, team, refPitch,
                  refTeam, showRef, simPitch, simBtn, realBtn, lateLoad, leftTab, crashed>>
  BY DEF shown, boxes, buttons, history
<1>2. ScalarsOK' /\ PointersOK' /\ ModesAgree' /\ SimRefKnown' /\ ScaleAgrees'
  BY <1>1 DEF IInv, ScalarsOK, PointersOK, ModesAgree, SimRefKnown, ScaleAgrees
<1>3. Held'
  BY <1>1 DEF IInv, Held
<1>4. ShownAsChosen'
  <2>1. <<pitch, team>> \in Slots /\ <<refPitch, refTeam>> \in Slots
    BY DEF IInv, ScalarsOK, Slots
  <2> QED
    BY <1>1, <2>1 DEF IInv, ShownAsChosen
<1>5. CrashesKnown'
  BY <1>1 DEF CrashesKnown
<1> QED
  BY <1>2, <1>3, <1>4, <1>5 DEF IInv

LEMMA DataKeeps == ASSUME IInv, crashed = "no", Data PROVE IInv'
<1>1. ASSUME NEW ids \in Files, LoadFormationData(ids) PROVE IInv'
  <2>1. /\ LoadFile(ids) /\ UNCHANGED <<boxes, mode>> /\ app = "FormationEditor"
        /\ UNCHANGED <<app, firstEntry, simBtn, realBtn, edits, leftTab, crashed>>
        /\ UNCHANGED <<pitch, team, refPitch, refTeam, showRef, simPitch>>
    BY <1>1 DEF LoadFormationData, boxes, buttons
  <2>2. /\ CanvasesOK' /\ PointersOK' /\ Held' /\ SimRefKnown'
        /\ scale' \in Pitches /\ lateLoad' \in BOOLEAN
        /\ mode' = "Edit" => ShownAsChosen' /\ ScaleAgrees'
        /\ mode' # "Edit" => scale' = scale
    BY <2>1, LoadFileKeeps
  <2>3. ScalarsOK' /\ ModesAgree'
    BY <2>1, <2>2 DEF IInv, ScalarsOK, ModesAgree
  <2>4. ShownAsChosen' /\ ScaleAgrees'
    BY <2>1, <2>2 DEF IInv, ShownAsChosen, ScaleAgrees
  <2>5. CrashesKnown'
    BY <2>1 DEF CrashesKnown
  <2> QED
    BY <2>2, <2>3, <2>4, <2>5 DEF IInv
<1>2. CASE SaveFormationData
  BY <1>2, CrashKeeps DEF SaveFormationData
<1>3. ASSUME NEW to \in Pitches, NEW chosen \in SUBSET Teams, CanvasCopy(to, chosen)
      PROVE  IInv'
  <2>1. CASE Crash("null")
    BY <2>1, CrashKeeps
  <2>2. CASE ~Crash("null")
    <3> DEFINE from(s) == canvases[<<Other(to), s[2]>>]
    <3>1. /\ \A t \in chosen, p \in Pitches : canvases[<<p, t>>] # Absent
          /\ canvases' = [s \in Slots |-> IF s[1] = to /\ s[2] \in chosen
                                         THEN Copied(canvases[s], from(s)) ELSE canvases[s]]
          /\ UNCHANGED <<shown, simRef, mode, app, firstEntry, boxes, buttons, edits,
                         history, crashed>>
      BY <1>3, <2>2 DEF CanvasCopy
    <3>2. Other(to) \in Pitches
      BY DEF Other, Pitches
    <3>3. ASSUME NEW s \in Slots, s[1] = to, s[2] \in chosen
          PROVE  Copied(canvases[s], from(s)) # Absent /\ WellFormed(Copied(canvases[s], from(s)))
      <4>1. s = <<to, s[2]>> /\ <<Other(to), s[2]>> \in Slots
        BY <3>2, <3>3 DEF Slots
      <4>2. canvases[s] # Absent /\ from(s) # Absent
        BY <3>1, <3>2, <3>3, <4>1
      <4>3. WellFormed(canvases[s]) /\ WellFormed(from(s))
        BY <4>1, <4>2 DEF IInv, CanvasesOK
      <4> QED
        BY <4>3, CopiedIsWellFormed DEF WellFormed
    <3> HIDE DEF from
    <3>4. CanvasesOK' /\ \A s \in Slots : canvases'[s] = Absent <=> canvases[s] = Absent
      <4>1. ASSUME NEW s \in Slots
            PROVE  /\ canvases'[s] \in Canvas \cup {Absent}
                   /\ canvases'[s] # Absent => WellFormed(canvases'[s])
                   /\ canvases'[s] = Absent <=> canvases[s] = Absent
        <5>1. CASE s[1] = to /\ s[2] \in chosen
          <6>1. s = <<to, s[2]>>
            BY <5>1 DEF Slots
          <6>2. canvases[s] # Absent
            BY <3>1, <5>1, <6>1
          <6>3. canvases'[s] = Copied(canvases[s], from(s))
            BY <3>1, <5>1
          <6> QED
            BY <3>3, <5>1, <6>2, <6>3 DEF WellFormed
        <5>2. CASE ~(s[1] = to /\ s[2] \in chosen)
          <6>1. canvases'[s] = canvases[s]
            BY <3>1, <5>2
          <6> QED
            BY <6>1 DEF IInv, CanvasesOK
        <5> QED
          BY <5>1, <5>2
      <4>2. canvases' = [s \in Slots |-> canvases'[s]]
        BY <3>1
      <4> QED
        BY <4>1, <4>2 DEF CanvasesOK
    <3>5. edits' \in 0..MaxEdits
      BY <3>1 DEF IInv, ScalarsOK
    <3> QED
      BY <3>1, <3>4, <3>5, CanvasStepKeeps
  <2> QED
    BY <2>1, <2>2
<1>4. ({Teams} \cup {{t} : t \in Teams}) \subseteq SUBSET Teams
  OBVIOUS
<1> QED
  BY <1>1, <1>2, <1>3, <1>4 DEF Data

LEMMA MouseAndKeysKeep == ASSUME IInv, crashed = "no", MouseAndKeys PROVE IInv'
<1>1. ASSUME NEW c, WellFormed(c), current \in Slots, edits' \in 0..MaxEdits,
             canvases' = [canvases EXCEPT ![current] = c],
             UNCHANGED <<shown, simRef, mode, app, firstEntry, boxes, buttons, history,
                         crashed>>
      PROVE  IInv'
  <2>1. canvases[current] # Absent /\ UNCHANGED current
    BY <1>1 DEF IInv, Held, shown
  <2>2. CanvasesOK' /\ \A s \in Slots : canvases'[s] = Absent <=> canvases[s] = Absent
    BY <1>1, <2>1, EditedCanvases DEF IInv
  <2> QED
    BY <1>1, <2>2, CanvasStepKeeps
<1>2. current \in Slots => WellFormed(canvases[current])
  BY DEF IInv, Held, CanvasesOK
<1>3. ASSUME NEW i \in Ids \cup {None}, Select(i) PROVE IInv'
  <2> DEFINE c == [canvases[current] EXCEPT !.sel = i, !.orphan = FALSE]
  <2>1. current \in Slots /\ edits' \in 0..MaxEdits
    BY <1>3 DEF Select, Editing, IInv, ScalarsOK
  <2>2. WellFormed(c)
    BY <1>2, <1>3, <2>1 DEF Select, WellFormed, Canvas
  <2>3. canvases' = [canvases EXCEPT ![current] = c]
    BY <1>3 DEF Select
  <2> QED
    BY <1>1, <1>3, <2>1, <2>2, <2>3 DEF Select
<1>4. CASE AddElementPair
  <2> DEFINE c == [canvases[current] EXCEPT !.ids = @ \cup {canvases[current].next},
                                            !.next = @ + 1]
  <2>1. current \in Slots /\ edits' \in 0..MaxEdits
    BY <1>4 DEF AddElementPair, Editing, IInv, ScalarsOK
  <2>2. WellFormed(c)
    BY <1>2, <1>4, <2>1, AddedIsWellFormed DEF AddElementPair
  <2>3. canvases' = [canvases EXCEPT ![current] = c]
    BY <1>4 DEF AddElementPair
  <2> QED
    BY <1>1, <1>4, <2>1, <2>2, <2>3 DEF AddElementPair
<1>5. CASE Delete
  <2>1. current \in Slots /\ mode = "Edit" /\ canvases[current].sel \notin Fixed \cup {None}
    BY <1>5 DEF Delete, Editing
  <2>2. CASE canvases[current].sel \in canvases[current].ids
    <3>1. /\ canvases' = [canvases EXCEPT ![current] = Deleted(canvases[current])]
          /\ UNCHANGED <<shown, simRef, mode, app, firstEntry, boxes, buttons, edits,
                         history, crashed>>
      BY <1>5, <2>2 DEF Delete
    <3>2. WellFormed(Deleted(canvases[current])) /\ edits' \in 0..MaxEdits
      BY <1>2, <2>1, <3>1, DeletedIsWellFormed DEF IInv, ScalarsOK
    <3> QED
      BY <1>1, <2>1, <3>1, <3>2
  <2>3. CASE canvases[current].sel \notin canvases[current].ids
    <3>1. Crash("check") /\ canvases[current].orphan
      BY <1>2, <1>5, <2>1, <2>3 DEF Delete, WellFormed, Canvas
    <3> QED
      BY <2>1, <3>1, CrashKeeps
  <2> QED
    BY <2>2, <2>3
<1>6. ASSUME NEW slot \in Slots \cup {None}, SelectRefCanvas(slot) PROVE IInv'
  <2>1. /\ mode # "Edit" /\ simRef' \in Slots \cup {Null}
        /\ UNCHANGED <<canvases, shown, mode, app, firstEntry, boxes, buttons, edits,
                       history, crashed>>
    BY <1>6 DEF SelectRefCanvas
  <2>2. UNCHANGED <<canvases, current, ref, scale, mode, app, firstEntry, pitch, team,
                    refPitch, refTeam, showRef, simPitch, simBtn, realBtn, edits, lateLoad,
                    leftTab, crashed>>
    BY <2>1 DEF shown, boxes, buttons, history
  <2>3. CanvasesOK' /\ PointersOK' /\ SimRefKnown'
    BY <2>1, <2>2 DEF IInv, CanvasesOK, PointersOK, Pointers, SimRefKnown
  <2>4. ScalarsOK' /\ Held' /\ ModesAgree'
    BY <2>2 DEF IInv, ScalarsOK, Held, ModesAgree
  <2>5. ShownAsChosen' /\ ScaleAgrees' /\ CrashesKnown'
    BY <2>1, <2>2 DEF IInv, ShownAsChosen, ScaleAgrees, CrashesKnown
  <2> QED
    BY <2>3, <2>4, <2>5 DEF IInv
<1> QED
  BY <1>3, <1>4, <1>5, <1>6 DEF MouseAndKeys

\* Back to the Edit mode.
LEMMA StopModeKeeps ==
  ASSUME IInv, crashed = "no", StopMode,
         UNCHANGED <<app, firstEntry, edits, crashed>>,
         simBtn' \in BOOLEAN, realBtn' \in BOOLEAN
  PROVE  IInv'
<1>1. /\ mode' = "Edit" /\ simRef' = Null /\ UpdateBoth /\ lateLoad' = FALSE /\ leftTab' = FALSE
      /\ UNCHANGED <<canvases, pitch, team, refPitch, refTeam, showRef, simPitch>>
  BY DEF StopMode, ForgetRef, boxes
<1>2. /\ refPitch' = pitch' /\ pitch' \in Pitches /\ team' \in Teams /\ refTeam' \in Teams
  BY <1>1 DEF IInv, ScalarsOK, ModesAgree
<1>3. /\ scale' \in Pitches /\ current' \in Pointers /\ ref' \in Pointers
      /\ Held' /\ ShownAsChosen' /\ ScaleAgrees'
  BY <1>1, <1>2, UpdateBothShows
<1>4. CanvasesOK' /\ PointersOK'
  BY <1>1, <1>3 DEF IInv, CanvasesOK, PointersOK, Pointers
<1>5. ScalarsOK' /\ ModesAgree'
  BY <1>1, <1>2, <1>3 DEF IInv, ScalarsOK, ModesAgree
<1>6. SimRefKnown' /\ CrashesKnown'
  BY <1>1 DEF SimRefKnown, CrashesKnown
<1> QED
  BY <1>3, <1>4, <1>5, <1>6 DEF IInv

\* Out of the Edit mode.
LEMMA StartModeKeeps ==
  ASSUME IInv, crashed = "no", app = "FormationEditor", mode = "Edit",
         mode' = "Simulation" => scale' = simPitch /\ realBtn' = FALSE,
         mode' = "RealGame" => simBtn' = FALSE,
         mode' \in {"Simulation", "RealGame"}, scale' \in Pitches,
         simBtn' \in BOOLEAN, realBtn' \in BOOLEAN,
         UNCHANGED <<canvases, current, ref, simRef, app, firstEntry, boxes, edits,
                     history, crashed>>
  PROVE  IInv'
<1>1. UNCHANGED <<pitch, team, refPitch, refTeam, showRef, simPitch, lateLoad, leftTab>>
  BY DEF boxes, history
<1>2. CanvasesOK' /\ PointersOK' /\ Held'
  BY DEF IInv, CanvasesOK, PointersOK, Held
<1>3. ScalarsOK' /\ ModesAgree'
  BY <1>1 DEF IInv, ScalarsOK, ModesAgree
<1>4. SimRefKnown'
  BY <1>1 DEF IInv, SimRefKnown
<1>5. ShownAsChosen' /\ ScaleAgrees' /\ CrashesKnown'
  BY <1>1 DEF ShownAsChosen, ScaleAgrees, CrashesKnown
<1> QED
  BY <1>2, <1>3, <1>4, <1>5 DEF IInv

LEMMA TabsKeep ==
  ASSUME IInv, crashed = "no", LeaveTab \/ \E file \in Files \cup {None} : EnterTab(file)
  PROVE  IInv'
<1>1. ASSUME NEW file \in Files \cup {None}, EnterTab(file) PROVE IInv'
  <2>1. /\ app = "Watch" /\ app' = "FormationEditor" /\ firstEntry' = FALSE
        /\ UNCHANGED <<boxes, mode, simBtn, realBtn, edits, leftTab, crashed>>
        /\ UNCHANGED <<pitch, team, refPitch, refTeam, showRef, simPitch>>
    BY <1>1 DEF EnterTab, boxes, buttons
  <2>2. /\ CanvasesOK' /\ PointersOK' /\ Held' /\ SimRefKnown'
        /\ scale' \in Pitches /\ lateLoad' \in BOOLEAN
        /\ mode' = "Edit" => ShownAsChosen' /\ ScaleAgrees'
        /\ mode' # "Edit" => scale' = scale
    <3>1. CASE file # None
      BY <1>1, <2>1, <3>1, LoadFileKeeps DEF EnterTab
    <3>2. CASE file = None
      <4>1. UpdateBoth /\ UNCHANGED <<canvases, simRef, lateLoad>>
        BY <1>1, <3>2 DEF EnterTab
      <4>2. CanvasesOK' /\ SimRefKnown' /\ lateLoad' \in BOOLEAN
        BY <2>1, <4>1 DEF IInv, CanvasesOK, SimRefKnown, ScalarsOK
      <4>3. CASE mode = "Edit"
        <5>1. /\ refPitch' = pitch' /\ pitch' \in Pitches
              /\ team' \in Teams /\ refTeam' \in Teams /\ mode' = "Edit"
          BY <2>1, <4>3 DEF IInv, ScalarsOK, ModesAgree
        <5> QED
          BY <4>1, <4>2, <5>1, UpdateBothShows DEF IInv, PointersOK
      <4>4. CASE mode # "Edit"
        <5>1. UNCHANGED <<current, ref, scale>> /\ mode' # "Edit"
          BY <2>1, <4>1, <4>4 DEF UpdateBoth, shown
        <5> QED
          BY <4>1, <4>2, <5>1 DEF IInv, PointersOK, Held, ScalarsOK
      <4> QED
        BY <4>3, <4>4
    <3> QED
      BY <3>1, <3>2
  <2>3. ScalarsOK' /\ ModesAgree'
    BY <2>1, <2>2 DEF IInv, ScalarsOK, ModesAgree
  <2>4. ShownAsChosen' /\ ScaleAgrees'
    BY <2>1, <2>2 DEF IInv, ShownAsChosen, ScaleAgrees, ModesAgree
  <2>5. CrashesKnown'
    BY <2>1 DEF CrashesKnown
  <2> QED
    BY <2>2, <2>3, <2>4, <2>5 DEF IInv
<1>2. CASE LeaveTab
  <2>1. /\ app' = "Watch" /\ scale' = "Normal" /\ leftTab' = (leftTab \/ mode # "Edit")
        /\ UNCHANGED <<canvases, current, ref, simRef, mode, firstEntry, edits, lateLoad,
                       crashed, simBtn, realBtn>>
        /\ UNCHANGED <<pitch, team, refPitch, refTeam, showRef, simPitch>>
    BY <1>2 DEF LeaveTab, boxes, buttons
  <2>2. CanvasesOK' /\ PointersOK' /\ Held' /\ SimRefKnown'
    BY <2>1 DEF IInv, CanvasesOK, PointersOK, Held, SimRefKnown
  <2>3. ScalarsOK' /\ ModesAgree'
    BY <2>1 DEF IInv, ScalarsOK, ModesAgree, Pitches
  <2>4. ShownAsChosen' /\ ScaleAgrees' /\ CrashesKnown'
    BY <2>1 DEF ShownAsChosen, ScaleAgrees, CrashesKnown
  <2> QED
    BY <2>2, <2>3, <2>4 DEF IInv
<1> QED
  BY <1>1, <1>2

LEMMA ModesKeep == ASSUME IInv, crashed = "no", Modes PROVE IInv'
<1>1. simBtn \in BOOLEAN /\ realBtn \in BOOLEAN /\ simPitch \in Pitches
      /\ mode \in {"Edit", "Simulation", "RealGame"}
  BY DEF IInv, ScalarsOK
<1>2. CASE StopSimulation
  BY <1>1, <1>2, StopModeKeeps DEF StopSimulation
<1>3. CASE StopRealGame
  BY <1>1, <1>3, StopModeKeeps DEF StopRealGame
<1>4. CASE StartSimulation
  <2>1. mode = "Edit"
    BY <1>1, <1>4 DEF StartSimulation, IInv, ModesAgree
  <2> QED
    BY <1>1, <1>4, <2>1, StartModeKeeps DEF StartSimulation
<1>5. ASSUME NEW p \in Pitches, StartRealGame(p) PROVE IInv'
  <2>1. mode = "Edit"
    BY <1>1, <1>5 DEF StartRealGame, IInv, ModesAgree
  <2> QED
    BY <1>1, <1>5, <2>1, StartModeKeeps DEF StartRealGame
<1> QED
  BY <1>2, <1>3, <1>4, <1>5, TabsKeep DEF Modes

\* A frame that would follow a stale pointer is drawn only after a late load.
LEMMA DrawKeeps == ASSUME IInv, Draw PROVE IInv'
<1>1. app = "FormationEditor" /\ Dangling \in InUse /\ Crash("stale")
  BY DEF Draw
<1>2. lateLoad
  <2>1. CASE mode = "Edit"
    <3>1. <<pitch, team>> \in Slots /\ <<refPitch, refTeam>> \in Slots
      BY DEF IInv, ScalarsOK, Slots
    <3>2. current # Dangling /\ ref # Dangling
      BY <1>1, <2>1, <3>1 DEF IInv, ShownAsChosen
    <3> QED
      BY <1>1, <2>1, <3>2 DEF InUse
  <2>2. CASE mode # "Edit"
    BY <1>1, <2>2 DEF InUse, IInv, SimRefKnown
  <2> QED
    BY <2>1, <2>2
<1> QED
  BY <1>1, <1>2, CrashKeeps

LEMMA StutterKeeps == IInv /\ UNCHANGED vars => IInv'
<1> SUFFICES ASSUME IInv, UNCHANGED vars PROVE IInv'
  OBVIOUS
<1>1. /\ UNCHANGED <<canvases, current, ref, scale, simRef, mode, app, firstEntry, edits>>
      /\ UNCHANGED <<pitch, team, refPitch, refTeam, showRef, simPitch, simBtn, realBtn,
                     lateLoad, leftTab, crashed>>
  BY DEF vars, shown, boxes, buttons, history
<1>2. CanvasesOK' /\ PointersOK' /\ Held' /\ SimRefKnown'
  BY <1>1 DEF IInv, CanvasesOK, PointersOK, Held, SimRefKnown
<1>3. ScalarsOK' /\ ModesAgree'
  BY <1>1 DEF IInv, ScalarsOK, ModesAgree
<1>4. ShownAsChosen' /\ ScaleAgrees' /\ CrashesKnown'
  BY <1>1 DEF IInv, ShownAsChosen, ScaleAgrees, CrashesKnown
<1> QED
  BY <1>2, <1>3, <1>4 DEF IInv

-----------------------------------------------------------------------------
THEOREM EditorInvariant == Spec => []IInv
<1>1. IInv /\ [Next]_vars => IInv'
  BY BoxesKeep, DataKeeps, MouseAndKeysKeep, ModesKeep, DrawKeeps, StutterKeeps DEF Next
<1> QED
  BY InitIInv, <1>1, PTL DEF Spec

\* In the Edit mode the canvas and the reference are the ones the boxes choose:
\* ShownAsChosen (UpdateCanvas, UpdateRefCanvas and the callbacks that call them).
THEOREM EditorShowsChosen == Spec => []ShownAsChosen
<1>1. IInv => ShownAsChosen
  BY DEF IInv
<1> QED
  BY EditorInvariant, <1>1, PTL

\* The pitch has the size of what is shown or simulated: ScaleAgrees (ChangeAppMode,
\* UpdateCanvas, the start buttons).
THEOREM EditorScale == Spec => []ScaleAgrees
<1>1. IInv => ScaleAgrees
  BY DEF IInv
<1> QED
  BY EditorInvariant, <1>1, PTL

\* Ids stay unique and selections known, whatever is edited, copied and loaded:
\* PairsWellFormed (FEEditorCanvas).
THEOREM EditorPairs == Spec => []PairsWellFormed
<1>1. IInv => PairsWellFormed
  BY DEF IInv, CanvasesOK, WellFormed, ScalarsOK, PointersOK, PairsWellFormed, TypeOK
<1> QED
  BY EditorInvariant, <1>1, PTL

\* Stale pointers are followed only after a load during a simulation or game, and no
\* assertion fails but the one on a selection that a copy left behind: CrashesKnown
\* (FormationEditor::Draw, IsEditor, IsSimulating, IsInRealGame).
THEOREM EditorCrashesKnown == Spec => []CrashesKnown
<1>1. IInv => CrashesKnown
  BY DEF IInv
<1> QED
  BY EditorInvariant, <1>1, PTL
=============================================================================
