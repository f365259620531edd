-------------------------- MODULE FormationEditor --------------------------
(***************************************************************************)
(* The formation editor of the soccer debugger (src/src/SoccerDebuggerV2): *)
(* a canvas of element pairs for every pitch and team state, edited with   *)
(* mouse and keys, copied between pitches, saved to and loaded from a file,*)
(* and shown as a reference while a simulation or a real game runs.        *)
(*                                                                         *)
(* Everything happens on one thread, one callback of the window after the  *)
(* other with frames in between; what is hard is that the callbacks share  *)
(* raw pointers to canvases which a load deletes, that three modes and two *)
(* tabs decide which of them act, and that the pointers are refreshed from *)
(* the list boxes only in some of them.                                    *)
(*                                                                         *)
(* The fifteen positions of a team state behave alike and are one here.    *)
(* The positions of elements, the colours and the tuning pages of the      *)
(* players are left out; the selected element keeps its id.                *)
(***************************************************************************)
EXTENDS Naturals

CONSTANTS
  MaxId,      \* bound: the largest id of an element pair
  MaxEdits,   \* bound: selections and added pairs
  Null, Dangling, Absent, None

Pitches == {"Normal", "Large"}
Teams == {"Attack", "Defend"}
Slots == Pitches \X Teams
Pointers == Slots \cup {Null, Dangling}

\* The two pairs of FEEditorCanvas::Create cannot be deleted.
Fixed == {0, 1}
Ids == 0..MaxId

\* The pairs, m_NextID and the selected element of an FEEditorCanvas; `orphan`: the
\* selected element is no longer one of the pairs.
Canvas == [ids : SUBSET Ids, next : 0..MaxId + 1, sel : Ids \cup {None}, orphan : BOOLEAN]

ASSUME EditorAssumption ==
  /\ MaxId \in Nat /\ MaxId >= 2
  /\ MaxEdits \in Nat
  /\ None \notin Nat
  /\ Null # Dangling /\ {Null, Dangling, None} \cap Slots = {}
  /\ Absent \notin Canvas

VARIABLES
  canvases,       \* m_Canvases
  current,        \* m_CurrentCanvas
  ref,            \* m_CurrentRefCanvas
  simRef,         \* m_SimulatedRefCanvas
  mode,           \* m_Mode
  app,            \* m_AppMode: which tab is shown
  firstEntry,     \* g_bFirstEntry
  scale,          \* CoordinateInfo::sLength, sWidth
  pitch, team,    \* the list boxes that choose the canvas
  refPitch, refTeam, showRef, \* the list boxes and the check box of the reference
  simPitch,       \* m_SimPitchType
  simBtn, realBtn,\* whether the two start buttons are enabled
  edits,          \* counts what MaxEdits bounds
  lateLoad,       \* history: a file was loaded while a simulation or a game was on
  leftTab,        \* history: the tab was left while a simulation or a game was on
  crashed         \* how the program has come to its end

boxes == <<pitch, team, refPitch, refTeam, showRef, simPitch>>
buttons == <<simBtn, realBtn>>
shown == <<current, ref, scale>>
history == <<lateLoad, leftTab>>
vars == <<canvases, shown, simRef, mode, app, firstEntry, boxes, buttons, edits,
          history, crashed>>

TypeOK ==
  /\ canvases \in [Slots -> Canvas \cup {Absent}]
  /\ current \in Pointers /\ ref \in Pointers /\ simRef \in Pointers
  /\ mode \in {"Edit", "Simulation", "RealGame"}
  /\ app \in {"Watch", "FormationEditor"}
  /\ {scale, pitch, refPitch, simPitch} \subseteq Pitches
  /\ {team, refTeam} \subseteq Teams
  /\ {firstEntry, showRef, simBtn, realBtn, lateLoad, leftTab} \subseteq BOOLEAN
  /\ edits \in 0..MaxEdits
  /\ crashed \in {"no", "stale", "null", "check"}

NewCanvas(ids, next) == [ids |-> ids, next |-> next, sel |-> None, orphan |-> FALSE]

Init ==
  /\ canvases = [s \in Slots |-> NewCanvas(Fixed, 2)]
  /\ current = Null /\ ref = Null /\ simRef = Null
  /\ mode = "Edit"
  /\ app = "Watch" /\ firstEntry = TRUE
  /\ scale = "Normal"
  /\ pitch = "Normal" /\ team = "Attack"
  /\ refPitch = "Normal" /\ refTeam = "Attack" /\ showRef = FALSE
  /\ simPitch = "Normal"
  /\ simBtn = TRUE /\ realBtn = TRUE
  /\ edits = 0
  /\ lateLoad = FALSE /\ leftTab = FALSE
  /\ crashed = "no"

Crash(how) ==
  /\ crashed' = how
  /\ UNCHANGED <<canvases, shown, simRef, mode, app, firstEntry, boxes, buttons, edits,
                 history>>

-----------------------------------------------------------------------------
(* Which canvas is shown. *)

\* m_Canvases[i][j][k] as a pointer.
CanvasAt(slot) == IF canvases'[slot] = Absent THEN Null ELSE slot

\* SetCurrentCanvas and ShowRef with what the boxes say: UpdateCanvas, UpdateRefCanvas.
SetCurrentCanvas == current' = CanvasAt(<<pitch', team'>>)
ShowRef == ref' = IF showRef' THEN CanvasAt(<<refPitch', refTeam'>>) ELSE Null
\* A mutant: the size of the pitch stays what it was.
NotScaled == UNCHANGED scale
Scaled == scale' = IF showRef' THEN refPitch' ELSE pitch'

\* A mutant: only the canvas is looked up again.
UpdateCanvas ==
  IF mode' = "Edit" THEN SetCurrentCanvas /\ Scaled /\ UNCHANGED ref ELSE UNCHANGED shown

\* UpdateCanvas and UpdateRefCanvas do nothing outside the Edit mode.
UpdateBoth ==
  IF mode' = "Edit" THEN SetCurrentCanvas /\ ShowRef /\ Scaled ELSE UNCHANGED shown

\* The list boxes of the canvas.  The reference boxes follow the pitch and the team
\* state and call their own handler when that changes them.
ChangeCanvas(p, t) ==
  /\ app = "FormationEditor"
  /\ pitch' = p /\ team' = t
  /\ refPitch' = p /\ refTeam' = t
  /\ UNCHANGED <<canvases, mode, showRef>>
  /\ IF mode = "Edit"
     THEN /\ SetCurrentCanvas
          /\ scale' = p
          /\ IF <<p, t>> # <<refPitch, refTeam>> THEN ShowRef ELSE UNCHANGED ref
     ELSE UNCHANGED shown
  /\ UNCHANGED <<simRef, app, firstEntry, simPitch, buttons, edits, history, crashed>>

UpdateRefCanvas ==
  IF mode = "Edit"
  THEN ShowRef /\ scale' = (IF showRef' THEN refPitch ELSE scale) /\ UNCHANGED current
  ELSE UNCHANGED shown

\* onShowRef; the box of the reference's team state is enabled with it.
CheckShowRef ==
  /\ app = "FormationEditor"
  /\ showRef' = ~showRef
  /\ UNCHANGED <<canvases, pitch, team, refPitch, refTeam, simPitch>>
  /\ UpdateRefCanvas
  /\ UNCHANGED <<simRef, mode, app, firstEntry, buttons, edits, history, crashed>>

\* onChangeRefCanvas; the box of the reference's pitch is never enabled.
ChangeRefCanvas(t) ==
  /\ app = "FormationEditor" /\ showRef
  /\ refTeam' = t
  /\ UNCHANGED <<canvases, pitch, team, refPitch, showRef, simPitch>>
  /\ UpdateRefCanvas
  /\ UNCHANGED <<simRef, mode, app, firstEntry, buttons, edits, history, crashed>>

\* Drawing the frame follows the pointers of the mode.
InUse == IF mode = "Edit" THEN {current, ref} ELSE {simRef}
Draw ==
  /\ app = "FormationEditor"
  /\ Dangling \in InUse
  /\ Crash("stale")

-----------------------------------------------------------------------------
(* Files. *)

Stale(pointer) == IF pointer \in Slots THEN Dangling ELSE pointer

Loaded(ids) == NewCanvas(ids, 1 + CHOOSE i \in ids : \A j \in ids : j <= i)

\* The pairs of a file the editor has saved, or none when it cannot be read.
Files == {Fixed, Fixed \cup {2}, {}}

\* onLoadFormationData: Clear deletes every canvas, Deserialize makes those the file
\* names, and the pointers are looked up again if the mode is Edit.  Whether the file
\* could be read is not looked at.
LoadFile(ids) ==
  /\ canvases' = [s \in Slots |-> IF ids = {} THEN Absent ELSE Loaded(ids)]
  /\ simRef' = Stale(simRef)
  /\ IF mode = "Edit" THEN UpdateBoth
     ELSE current' = Stale(current) /\ ref' = Stale(ref) /\ UNCHANGED scale
  /\ lateLoad' = (lateLoad \/ mode # "Edit")

LoadFormationData(ids) ==
  /\ app = "FormationEditor"
  /\ UNCHANGED <<boxes, mode>>
  /\ LoadFile(ids)
  /\ UNCHANGED <<app, firstEntry, buttons, edits, leftTab, crashed>>

\* onSaveFormationData, onExportFormationData: Serialize and Export visit every canvas.
SaveFormationData ==
  /\ app = "FormationEditor"
  /\ \E s \in Slots : canvases[s] = Absent
  /\ Crash("null")

Other(p) == CHOOSE q \in Pitches : q # p

\* A mutant: the counter of the target is kept.
CopiedKeepsNext(to, from) == [to EXCEPT !.ids = from.ids, !.orphan = to.sel # None]

\* FEEditorCanvas::operator= takes over the pairs and m_NextID; m_SelectedElement
\* stays with an element that is in no canvas any more (deleting an ElementPair
\* does not delete its elements).
Copied(to, from) == [to EXCEPT !.ids = from.ids, !.next = from.next, !.orphan = to.sel # None]

\* The copy buttons, in both directions, for all team states or one.
CanvasCopy(to, chosen) ==
  /\ app = "FormationEditor"
  /\ IF \E t \in chosen, p \in Pitches : canvases[<<p, t>>] = Absent
     THEN Crash("null")
     ELSE /\ canvases' = [s \in Slots |->
                IF s[1] = to /\ s[2] \in chosen
                THEN Copied(canvases[s], canvases[<<Other(to), s[2]>>])
                ELSE canvases[s]]
          /\ UNCHANGED <<shown, simRef, mode, app, firstEntry, boxes, buttons, edits,
                         history, crashed>>

-----------------------------------------------------------------------------
(* Mouse and keys, which reach the editor whatever tab is shown. *)

Editing == mode = "Edit" /\ current \in Slots

\* FEEditorCanvas::Select: a click hits a pair or nothing.
Select(i) ==
  /\ Editing
  /\ edits < MaxEdits
  /\ i \in canvases[current].ids \cup {None}
  /\ canvases' = [canvases EXCEPT ![current].sel = i, ![current].orphan = FALSE]
  /\ edits' = edits + 1
  /\ UNCHANGED <<shown, simRef, mode, app, firstEntry, boxes, buttons, history, crashed>>

AddElementPair ==
  /\ Editing
  /\ edits < MaxEdits
  /\ canvases[current].next <= MaxId
  /\ canvases' = [canvases EXCEPT ![current].ids = @ \cup {canvases[current].next},
                                  ![current].next = @ + 1]
  /\ edits' = edits + 1
  /\ UNCHANGED <<shown, simRef, mode, app, firstEntry, boxes, buttons, history, crashed>>

\* The pair with the id of the selected element is deleted.
Deleted(c) == [c EXCEPT !.ids = @ \ {c.sel}, !.sel = None, !.orphan = FALSE]

Delete ==
  /\ Editing
  /\ canvases[current].sel \notin Fixed \cup {None}
  /\ IF canvases[current].sel \in canvases[current].ids
     THEN /\ canvases' = [canvases EXCEPT ![current] = Deleted(@)]
          /\ UNCHANGED <<shown, simRef, mode, app, firstEntry, boxes, buttons, edits,
                         history, crashed>>
     ELSE Crash("check")

\* A click on a player of the simulation or the game sends the event that shows the
\* canvas of its position, or of none.
SelectRefCanvas(slot) ==
  /\ mode # "Edit"
  /\ mode = "Simulation" /\ slot # None => slot[1] = simPitch
  /\ simRef' = IF slot = None \/ canvases[slot] = Absent THEN Null ELSE slot
  /\ UNCHANGED <<canvases, shown, mode, app, firstEntry, boxes, buttons, edits, history,
                 crashed>>

-----------------------------------------------------------------------------
(* Tabs and modes. *)

\* onTabSelected, ChangeAppMode(FormationEditor).  The first time a file dialog follows,
\* which may be cancelled.
EnterTab(file) ==
  /\ app = "Watch"
  /\ app' = "FormationEditor"
  /\ UNCHANGED <<boxes, mode>>
  /\ firstEntry' = FALSE
  /\ file # None => firstEntry
  /\ IF file # None THEN LoadFile(file)
     ELSE UNCHANGED <<canvases, simRef, lateLoad>> /\ UpdateBoth
  /\ UNCHANGED <<buttons, edits, leftTab, crashed>>

\* ChangeAppMode(WatchMode).
LeaveTab ==
  /\ app = "FormationEditor"
  /\ app' = "Watch"
  /\ scale' = "Normal"
  /\ leftTab' = (leftTab \/ mode # "Edit")
  /\ UNCHANGED <<canvases, current, ref, simRef, mode, firstEntry, boxes, buttons, edits,
                 lateLoad, crashed>>

\* A mutant: the canvas shown in the simulation is kept for the next one.
ForgetNothing == UNCHANGED simRef
ForgetRef == simRef' = Null

\* What StopSimulation and StopRealGame share, and the updates their buttons add.
StopMode ==
  /\ mode' = "Edit"
  /\ ForgetRef
  /\ UNCHANGED <<canvases, boxes>>
  /\ UpdateBoth
  /\ lateLoad' = FALSE /\ leftTab' = FALSE

StopSimulation ==
  /\ app = "FormationEditor" /\ simBtn
  /\ mode = "Simulation"
  /\ StopMode
  /\ realBtn' = TRUE
  /\ UNCHANGED <<app, firstEntry, simBtn, edits, crashed>>

\* The scripts have been written; a failure before leaves everything as it is.
StartSimulation ==
  /\ app = "FormationEditor" /\ simBtn
  /\ mode # "Simulation"
  /\ IF mode # "Edit" THEN Crash("check")
     ELSE /\ mode' = "Simulation"
          /\ scale' = simPitch
          /\ realBtn' = FALSE
          /\ UNCHANGED <<canvases, current, ref, simRef, app, firstEntry, boxes, simBtn,
                         edits, history, crashed>>

StopRealGame ==
  /\ app = "FormationEditor" /\ realBtn
  /\ mode = "RealGame"
  /\ StopMode
  /\ simBtn' = TRUE
  /\ UNCHANGED <<app, firstEntry, realBtn, edits, crashed>>

\* The game says in shared memory which pitch it is played on.
StartRealGame(p) ==
  /\ app = "FormationEditor" /\ realBtn
  /\ mode # "RealGame"
  /\ IF mode # "Edit" THEN Crash("check")
     ELSE /\ mode' = "RealGame"
          /\ scale' = p
          /\ simBtn' = FALSE
          /\ UNCHANGED <<canvases, current, ref, simRef, app, firstEntry, boxes, realBtn,
                         edits, history, crashed>>

\* The pitch of the next simulation; the box is disabled while one is on.
ChangeSimPitch(p) ==
  /\ app = "FormationEditor" /\ mode # "Simulation"
  /\ simPitch' = p
  /\ UNCHANGED <<canvases, shown, simRef, mode, app, firstEntry, pitch, team, refPitch,
                 refTeam, showRef, buttons, edits, history, crashed>>

-----------------------------------------------------------------------------
Boxes ==
  \/ \E p \in Pitches, t \in Teams : ChangeCanvas(p, t)
  \/ CheckShowRef
  \/ \E t \in Teams : ChangeRefCanvas(t)
  \/ \E p \in Pitches : ChangeSimPitch(p)
Data ==
  \/ \E ids \in Files : LoadFormationData(ids)
  \/ SaveFormationData
  \/ \E to \in Pitches, chosen \in {Teams} \cup {{t} : t \in Teams} : CanvasCopy(to, chosen)
MouseAndKeys ==
  \/ \E i \in Ids \cup {None} : Select(i)
  \/ AddElementPair
  \/ Delete
  \/ \E slot \in Slots \cup {None} : SelectRefCanvas(slot)
Modes ==
  \/ \E file \in Files \cup {None} : EnterTab(file)
  \/ LeaveTab
  \/ StartSimulation \/ StopSimulation
  \/ \E p \in Pitches : StartRealGame(p)
  \/ StopRealGame

Next == crashed = "no" /\ (Boxes \/ Data \/ MouseAndKeys \/ Modes \/ Draw)

Spec == Init /\ [][Next]_vars

-----------------------------------------------------------------------------
(* Properties. *)

\* In the Edit mode the editor shows and edits what the boxes say, however files were
\* loaded, tabs switched and simulations run in between.
ShownAsChosen ==
  app = "FormationEditor" /\ mode = "Edit" =>
    /\ current = IF canvases[<<pitch, team>>] = Absent THEN Null ELSE <<pitch, team>>
    /\ ref = IF showRef /\ canvases[<<refPitch, refTeam>>] # Absent
             THEN <<refPitch, refTeam>> ELSE Null

\* The pitch is drawn, and mouse positions are clamped, at the size of the canvas
\* shown, or of the pitch simulated as long as the tab was not left meanwhile
\* (ChangeAppMode resets the size and the way back restores it only in Edit mode).
ScaleAgrees ==
  app = "FormationEditor" =>
    /\ mode = "Edit" => scale = pitch /\ refPitch = pitch
    /\ mode = "Simulation" /\ ~leftTab => scale = simPitch

\* Ids stay unique: m_NextID is above every id of its canvas, whatever was copied or
\* loaded; the fixed pairs stay; the selected element is in its canvas unless a copy
\* has replaced the pairs since.
PairsWellFormed == TypeOK /\
  \A s \in Slots : canvases[s] # Absent =>
    /\ Fixed \subseteq canvases[s].ids
    /\ \A i \in canvases[s].ids : i < canvases[s].next
    /\ canvases[s].sel # None /\ ~canvases[s].orphan => canvases[s].sel \in canvases[s].ids

\* The editor follows no pointer to a deleted canvas unless a file was loaded while a
\* simulation or game was on, and no assertion fails (IsEditor, IsSimulating,
\* IsInRealGame, the pair to delete exists) unless a copy left a selection behind.
CrashesKnown ==
  /\ crashed = "stale" => lateLoad
  /\ crashed = "check" => mode = "Edit" /\ canvases[current].orphan
=============================================================================
