----------------------------- MODULE GuessBoard -----------------------------
(***************************************************************************)
(* The board of the program Guess (src/src/Guess): blocks that turn over   *)
(* when they are clicked, grow to the whole window, show the answer and    *)
(* shrink away, each by the key frames of its effect controller, while the *)
(* window may be resized at any time.                                      *)
(*                                                                         *)
(* A frame of the engine takes one window message, ticks every block with  *)
(* the same time and draws every block.  The blocks of the board behave    *)
(* alike; their number is a parameter.  A rectangle is the cell of the     *)
(* block, the whole window, an edge or a point (the frames of width zero), *)
(* each of a size of the window, or something between two key frames.      *)
(* Time is counted in half seconds.                                        *)
(***************************************************************************)
EXTENDS Naturals, Sequences

CONSTANTS
  Blocks,    \* the blocks of the board
  NoBlock,   \* NULL
  NoData,    \* an OutputKeyFrame without m_HasValidData
  Windows,   \* sizes of the window
  Uneven,    \* those whose height or width is not a multiple of the rows or columns
  Deltas     \* bound: how long a frame may take

ASSUME BoardAssumption ==
  /\ NoBlock \notin Blocks
  /\ Uneven \subseteq Windows
  /\ Deltas \subseteq Nat \ {0}

States == <<"Back", "Front", "Answer", "Invisible">>
Pictures == {"Back", "Front", "Answer"}
Rect(kind, w) == [kind |-> kind, window |-> w]
Kinds == {"cell", "whole", "edge", "point", "between"}
Rects == [kind : Kinds, window : Windows]
Frame(r, p, t) == [rect |-> r, pic |-> p, time |-> t]
Looks == [rect : Rects, pic : Pictures]

\* A frame to show is told from none.
ASSUME DataAssumption == NoData \notin Looks

VARIABLES
  window,    \* size of the renderer's window
  phase,     \* what the engine's loop does next
  selected,  \* m_SelectedBlock
  state,     \* m_StateMachine: an index into States
  look,      \* m_uiX, m_uiY, m_uiWidth, m_uiHeight and m_uiPicIndex
  reading,   \* m_bReadFromEffect
  frames,    \* m_Frames
  time,      \* m_CurTime
  output,    \* m_CurFrame, NoData if m_HasValidData is false
  late,      \* history: the window changed while the block's effect was on
  crashed    \* the assertion that failed

effects == <<reading, frames, time, output>>
vars == <<window, phase, selected, state, look, effects, late, crashed>>

StateOf(b) == States[state[b]]

TypeOK ==
  /\ window \in Windows
  /\ phase \in {"message", "tick", "draw"}
  /\ selected \in Blocks \cup {NoBlock}
  /\ state \in [Blocks -> 1..4]
  /\ look \in [Blocks -> Looks]
  /\ reading \in [Blocks -> BOOLEAN] /\ late \in [Blocks -> BOOLEAN]
  /\ output \in [Blocks -> Looks \cup {NoData}]
  /\ time \in [Blocks -> Nat]
  /\ crashed \in {"no", "grid", "data"}

Init ==
  /\ window \in Windows
  /\ phase = "message"
  /\ selected = NoBlock
  /\ state = [b \in Blocks |-> 1]
  /\ look = [b \in Blocks |-> [rect |-> Rect("cell", window), pic |-> "Back"]]
  /\ reading = [b \in Blocks |-> FALSE]
  /\ frames = [b \in Blocks |-> <<>>]
  /\ time = [b \in Blocks |-> 0]
  /\ output = [b \in Blocks |-> NoData]
  /\ late = [b \in Blocks |-> FALSE]
  /\ crashed = "no"

-----------------------------------------------------------------------------
(* Clicks. *)

\* The key frames each state adds to the one of the block as it is.
FramesOf(b) ==
  LET here == look[b].rect
      whole == Rect("whole", window)
  IN CASE StateOf(b) = "Back" ->
            << Frame(Rect("edge", window), "Back", 1), Frame(here, "Front", 2),
               Frame(here, "Front", 3), Frame(whole, "Front", 5) >>
       [] StateOf(b) = "Front" ->
            << Frame(Rect("edge", window), "Front", 1), Frame(whole, "Answer", 2) >>
       [] StateOf(b) = "Answer" -> << Frame(Rect("point", window), "Answer", 2) >>

\* GSEffectController::Init, AddFrame and Start.
StartEffect(b) ==
  /\ frames' = [frames EXCEPT ![b] = <<Frame(look[b].rect, look[b].pic, 0)>> \o FramesOf(b)]
  /\ time' = [time EXCEPT ![b] = 0]
  /\ reading' = [reading EXCEPT ![b] = TRUE]
  /\ late' = [late EXCEPT ![b] = FALSE]
  /\ UNCHANGED output

\* A mutant: the selection stays until another block is clicked.
SelectionKept(b) == selected' = b
\* A block is selected when it opens and released when it starts to shrink.
Selection(b) ==
  selected' = CASE StateOf(b) = "Back" -> b
                [] StateOf(b) = "Front" -> selected
                [] StateOf(b) = "Answer" -> NoBlock

OpClickBlock(b) ==
  IF reading[b] \/ StateOf(b) = "Invisible"
  THEN UNCHANGED <<selected, state, effects, late>>
  ELSE /\ StartEffect(b)
       /\ state' = [state EXCEPT ![b] = @ + 1]
       /\ Selection(b)

\* A click goes to the selected block, wherever the mouse is.
OnClick(b) ==
  /\ OpClickBlock(IF selected = NoBlock THEN b ELSE selected)
  /\ UNCHANGED <<window, look, crashed>>

\* The last pixels of an uneven window belong to no row or column.
ClickOutside ==
  /\ window \in Uneven
  /\ IF selected = NoBlock
     THEN crashed' = "grid" /\ UNCHANGED <<selected, state, effects, late>>
     ELSE OpClickBlock(selected) /\ UNCHANGED crashed
  /\ UNCHANGED <<window, look>>

\* OnWindowResize: invisible blocks keep their size, and what the others get is
\* overwritten at the next Draw while an effect is on.
OnResizeWindow(w) ==
  /\ window' = w
  /\ look' = [b \in Blocks |->
       IF StateOf(b) = "Invisible" THEN look[b]
       ELSE [look[b] EXCEPT !.rect = Rect(IF b = selected THEN "whole" ELSE "cell", w)]]
  /\ late' = [b \in Blocks |-> reading[b] /\ (late[b] \/ w # window)]
  /\ UNCHANGED <<selected, state, effects, crashed>>

Message ==
  /\ crashed = "no" /\ phase = "message"
  /\ phase' = "tick"
  /\ \/ \E b \in Blocks : OnClick(b)
     \/ ClickOutside
     \/ \E w \in Windows : OnResizeWindow(w)
     \/ UNCHANGED <<window, selected, state, look, effects, late, crashed>>

-----------------------------------------------------------------------------
(* Effects. *)

EndOf(b) == frames[b][Len(frames[b])]

Blend(f, t) == [rect |-> IF f.time = t THEN f.rect ELSE Rect("between", f.rect.window),
                pic |-> f.pic]

\* The first key frame that is not over, or the last one.
FrameAt(b, now) ==
  IF now > EndOf(b).time THEN Blend(EndOf(b), EndOf(b).time)
  ELSE LET i == CHOOSE i \in 2..Len(frames[b]) :
                  frames[b][i].time >= now /\ frames[b][i - 1].time < now
       IN  Blend(frames[b][i], now)

\* A mutant: the time stops at the last key frame.
TimeStopped(b, d) == IF time[b] + d > EndOf(b).time THEN EndOf(b).time ELSE time[b] + d
CurTime(b, d) == time[b] + d

\* A mutant: an effect ends as soon as its time is over.
CurFrameCutOff(b, now) == IF now > EndOf(b).time THEN NoData ELSE FrameAt(b, now)
\* The last key frame is shown once after its time if it was not over a tick ago.
CurFrame(b, now) ==
  IF now > EndOf(b).time /\ time[b] > EndOf(b).time THEN NoData ELSE FrameAt(b, now)

\* GSBlock::Tick; an effect without a frame to show is finished, which its block hears at
\* once (EffectFinished is sent, not posted).  The time of a finished effect is not read
\* again.
Tick(d) ==
  /\ crashed = "no" /\ phase = "tick"
  /\ phase' = "draw"
  /\ output' = [b \in Blocks |-> IF reading[b] THEN CurFrame(b, CurTime(b, d)) ELSE output[b]]
  /\ time' = [b \in Blocks |-> IF reading[b] /\ output'[b] # NoData THEN CurTime(b, d) ELSE 0]
  /\ reading' = [b \in Blocks |-> reading[b] /\ output'[b] # NoData]
  /\ UNCHANGED <<window, selected, state, look, frames, late, crashed>>

\* GSBlock::Draw: what the effect shows becomes the block's own.
Draw ==
  /\ crashed = "no" /\ phase = "draw"
  /\ phase' = "message"
  /\ IF \E b \in Blocks : reading[b] /\ output[b] = NoData
     THEN crashed' = "data" /\ UNCHANGED look
     ELSE /\ look' = [b \in Blocks |-> IF reading[b] THEN output[b] ELSE look[b]]
          /\ UNCHANGED crashed
  /\ UNCHANGED <<window, selected, state, effects, late>>

Next == Message \/ (\E d \in Deltas : Tick(d)) \/ Draw

Spec == Init /\ [][Next]_vars

\* The engine's loop goes on.
FairSpec == Spec /\ WF_vars(Next)

-----------------------------------------------------------------------------
(* Properties. *)

\* The block that is open is the selected one, so that at most one is open at a time
\* and the next click reaches it wherever it falls (GSBlockManager::OnClick).
OpenIsSelected == \A b \in Blocks : StateOf(b) \in {"Front", "Answer"} <=> selected = b

\* A block at rest shows what its state says, at the size the window has, however clicks,
\* resizes and slow frames came; only a resize during its effect may leave it with the size
\* of before.  No block is drawn without a frame (the assertion in GSBlock::Draw).
ShownAsState ==
  /\ TypeOK
  /\ crashed # "data"
  /\ \A b \in Blocks : ~reading[b] /\ StateOf(b) # "Invisible" =>
       /\ look[b].pic = StateOf(b)
       /\ late[b] \/ look[b].rect = Rect(IF selected = b THEN "whole" ELSE "cell", window)

\* Every effect ends, after which the block can be clicked again.
EffectsEnd == \A b \in Blocks : reading[b] ~> ~reading[b] \/ crashed # "no"
=============================================================================
