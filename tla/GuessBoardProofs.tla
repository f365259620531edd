-------------------------- MODULE GuessBoardProofs --------------------------
(***************************************************************************)
(* For every number of blocks, sizes of the window and lengths of frames:  *)
(* the open block is the selected one, no block is drawn without a frame   *)
(* of its effect, and a block at rest shows the picture of its state at    *)
(* the size it should have.                                                *)
(***************************************************************************)
EXTENDS GuessBoard, SequenceTheorems, TLAPS

USE BoardAssumption, DataAssumption

\* What the arguments need of the types.
BoardTyped == selected \in Blocks \cup {NoBlock} /\ state \in [Blocks -> 1..4]

\* A block that ticks has a frame to show or is not reading any more (the event that
\* tells it so is sent, not posted), and nothing comes between Tick and Draw.
FrameReady == phase = "draw" => \A b \in Blocks : reading[b] => output[b] # NoData

IInv == BoardTyped /\ OpenIsSelected /\ FrameReady /\ crashed # "data"

\* The names of the states.
LEMMA StateNames ==
  ASSUME NEW i \in 1..4
  PROVE  /\ States[i] = "Back" <=> i = 1
         /\ States[i] = "Front" <=> i = 2
         /\ States[i] = "Answer" <=> i = 3
         /\ States[i] = "Invisible" <=> i = 4
BY DEF States

LEMMA InitIInv == Init => IInv
<1> SUFFICES ASSUME Init PROVE IInv
  OBVIOUS
<1>1. BoardTyped /\ FrameReady /\ crashed # "data"
  BY DEF Init, BoardTyped, FrameReady
<1>2. ASSUME NEW b \in Blocks PROVE StateOf(b) = "Back" /\ selected # b
  <2>1. state[b] = 1 /\ 1 \in 1..4 /\ selected = NoBlock
    BY DEF Init
  <2> QED
    BY <2>1, StateNames DEF StateOf
<1>3. OpenIsSelected
  BY <1>2 DEF OpenIsSelected
<1> QED
  BY <1>1, <1>3 DEF IInv

\* A click, on the block that is open or on any block if none is.
LEMMA ClickKeepsOpen ==
  ASSUME BoardTyped, OpenIsSelected, NEW b \in Blocks,
         selected = NoBlock \/ selected = b, OpClickBlock(b)
  PROVE  BoardTyped' /\ OpenIsSelected'
<1>1. CASE UNCHANGED <<selected, state>>
  BY <1>1 DEF BoardTyped, OpenIsSelected, StateOf
<1>2. CASE state' = [state EXCEPT ![b] = @ + 1] /\ Selection(b) /\ StateOf(b) # "Invisible"
  <2>1. state[b] \in 1..4 /\ state[b] # 4
    BY <1>2, StateNames DEF BoardTyped, StateOf
  <2>2. state' \in [Blocks -> 1..4] /\ state'[b] = state[b] + 1
    BY <1>2, <2>1 DEF BoardTyped
  <2>3. \A c \in Blocks \ {b} : state'[c] = state[c] /\ selected # c /\ state[c] \notin {2, 3}
    BY <1>2, StateNames DEF BoardTyped, OpenIsSelected, StateOf
  <2>4. selected = b <=> state[b] \in {2, 3}
    BY StateNames DEF BoardTyped, OpenIsSelected, StateOf
  <2>5. \/ state[b] = 1 /\ selected' = b
        \/ state[b] = 2 /\ selected' = selected
        \/ state[b] = 3 /\ selected' = NoBlock
    BY <1>2, <2>1, StateNames DEF Selection, StateOf
  <2>6. selected' \in {b, NoBlock} /\ (selected' = b <=> state'[b] \in {2, 3})
    BY <2>1, <2>2, <2>4, <2>5
  <2>7. ASSUME NEW c \in Blocks
        PROVE  state'[c] \in {2, 3} <=> selected' = c
    BY <2>3, <2>6
  <2> QED
    BY <2>2, <2>6, <2>7, StateNames DEF BoardTyped, OpenIsSelected, StateOf
<1> QED
  BY <1>1, <1>2 DEF OpClickBlock

LEMMA MessageKeepsIInv == ASSUME IInv, Message PROVE IInv'
<1> USE DEF IInv
<1>1. FrameReady' /\ crashed = "no"
  BY DEF Message, FrameReady
<1>2. CASE \E b \in Blocks : OnClick(b)
  <2>1. PICK b \in Blocks : OnClick(b)
    BY <1>2
  <2>2. CASE selected = NoBlock
    BY <1>1, <2>1, <2>2, ClickKeepsOpen DEF OnClick
  <2>3. CASE selected \in Blocks
    BY <1>1, <2>1, <2>3, ClickKeepsOpen DEF OnClick
  <2> QED
    BY <2>2, <2>3 DEF BoardTyped
<1>3. CASE ClickOutside
  <2>1. CASE selected = NoBlock
    BY <1>1, <1>3, <2>1 DEF ClickOutside, BoardTyped, OpenIsSelected, StateOf
  <2>2. CASE selected \in Blocks
    BY <1>1, <1>3, <2>2, ClickKeepsOpen DEF ClickOutside
  <2> QED
    BY <2>1, <2>2 DEF BoardTyped
<1>4. CASE \E w \in Windows : OnResizeWindow(w)
  BY <1>1, <1>4 DEF OnResizeWindow, BoardTyped, OpenIsSelected, StateOf
<1>5. CASE UNCHANGED <<window, selected, state, look, effects, late, crashed>>
  BY <1>1, <1>5 DEF BoardTyped, OpenIsSelected, StateOf
<1> QED
  BY <1>2, <1>3, <1>4, <1>5 DEF Message

LEMMA FrameKeepsIInv ==
  ASSUME IInv, (\E d \in Deltas : Tick(d)) \/ Draw
  PROVE  IInv'
<1> USE DEF IInv
<1>1. UNCHANGED <<selected, state>>
  BY DEF Tick, Draw
<1>2. BoardTyped' /\ OpenIsSelected'
  BY <1>1 DEF BoardTyped, OpenIsSelected, StateOf
<1>3. CASE \E d \in Deltas : Tick(d)
  <2>1. PICK d \in Deltas : Tick(d)
    BY <1>3
  <2>2. \A b \in Blocks : reading'[b] => output'[b] # NoData
    BY <2>1 DEF Tick
  <2> QED
    BY <1>2, <2>1, <2>2 DEF Tick, FrameReady
<1>4. CASE Draw
  BY <1>2, <1>4 DEF Draw, FrameReady
<1> QED
  BY <1>3, <1>4

LEMMA StutterKeepsIInv == IInv /\ UNCHANGED vars => IInv'
BY DEF IInv, BoardTyped, OpenIsSelected, StateOf, FrameReady, vars, effects

THEOREM BoardInvariant == Spec => []IInv
<1>1. IInv /\ [Next]_vars => IInv'
  BY MessageKeepsIInv, FrameKeepsIInv, StutterKeepsIInv DEF Next
<1> QED
  BY InitIInv, <1>1, PTL DEF Spec

\* The block that is open is the selected one: OpenIsSelected, for every board.
THEOREM BoardOpenIsSelected == FairSpec => []OpenIsSelected
<1>1. IInv => OpenIsSelected
  BY DEF IInv
<1> QED
  BY BoardInvariant, <1>1, PTL DEF FairSpec

\* The assertion in GSBlock::Draw never fails: a block that reads from its effect
\* has a frame to draw.
THEOREM BoardDrawsFrames == FairSpec => [](crashed # "data")
<1>1. IInv => crashed # "data"
  BY DEF IInv
<1> QED
  BY BoardInvariant, <1>1, PTL DEF FairSpec

-----------------------------------------------------------------------------
(* What a block shows. *)

KeyFrames == [rect : Rects, pic : Pictures, time : Nat]

\* l is the picture of the block's state, and fills what is the block's unless the
\* window changed under its effect.
Settled(b, l) ==
  /\ l.pic = StateOf(b)
  /\ late[b] \/ l.rect = Rect(IF selected = b THEN "whole" ELSE "cell", window)

\* At any time up to the last key frame there is a key frame to go towards.
Covers(s) ==
  /\ Len(s) >= 2 /\ s[Len(s)].time > 0
  /\ \A now \in 1..s[Len(s)].time :
       \E i \in 2..Len(s) : s[i].time >= now /\ s[i - 1].time < now

\* What is shown now, or will be when the blocks are drawn.
Shown(b) == IF phase = "draw" THEN output[b] ELSE look[b]

\* An effect leads to what its block's state shows, and once its time is over
\* that is what the block shows.
EffectLeads(b) ==
  /\ Covers(frames[b])
  /\ StateOf(b) # "Invisible" =>
       /\ Settled(b, EndOf(b))
       /\ time[b] > EndOf(b).time => Settled(b, Shown(b))

BlockShown(b) ==
  IF reading[b] THEN EffectLeads(b)
  ELSE StateOf(b) # "Invisible" => Settled(b, look[b])

ShownInv ==
  /\ IInv /\ TypeOK
  /\ frames \in [Blocks -> Seq(KeyFrames)]
  /\ \A b \in Blocks : BlockShown(b)

\* Rectangles and pictures are what Looks says they are.
LEMMA LooksAreRecords ==
  /\ \A k \in Kinds, w \in Windows : Rect(k, w) \in Rects /\ Rect(k, w).window = w
  /\ \A r \in Rects, p \in Pictures, t \in Nat :
       /\ Frame(r, p, t) \in KeyFrames
       /\ Frame(r, p, t).rect = r /\ Frame(r, p, t).pic = p /\ Frame(r, p, t).time = t
  /\ \A l \in Looks : l.rect \in Rects /\ l.pic \in Pictures
  /\ \A r \in Rects : r.window \in Windows
  /\ \A r \in Rects, p \in Pictures : [rect |-> r, pic |-> p] \in Looks
BY DEF Rect, Rects, Frame, KeyFrames, Looks

\* A frame put before the others.
LEMMA FirstFrame ==
  ASSUME NEW S, NEW a \in S, NEW q \in Seq(S)
  PROVE  /\ <<a>> \o q \in Seq(S) /\ Len(<<a>> \o q) = Len(q) + 1
         /\ (<<a>> \o q)[1] = a
         /\ \A i \in 2..(Len(q) + 1) : (<<a>> \o q)[i] = q[i - 1]
<1>1. <<a>> \in Seq(S) /\ Len(<<a>>) = 1 /\ <<a>>[1] = a
  OBVIOUS
<1> QED
  BY <1>1, ConcatProperties

\* The frames of an effect that a click starts.
LEMMA EffectsCover ==
  ASSUME NEW b \in Blocks, window \in Windows, look[b] \in Looks, state[b] \in 1..3,
         NEW s, s = <<Frame(look[b].rect, look[b].pic, 0)>> \o FramesOf(b)
  PROVE  /\ s \in Seq(KeyFrames) /\ Covers(s)
         /\ state[b] = 1 => s[Len(s)].pic = "Front"
         /\ state[b] = 2 => s[Len(s)].pic = "Answer"
         /\ state[b] # 3 => s[Len(s)].rect = Rect("whole", window)
<1> DEFINE here == look[b].rect
           whole == Rect("whole", window)
           first == Frame(here, look[b].pic, 0)
<1>1. here \in Rects /\ whole \in Rects /\ look[b].pic \in Pictures
      /\ Rect("edge", window) \in Rects /\ Rect("point", window) \in Rects
  BY LooksAreRecords DEF Kinds
<1>2. "Back" \in Pictures /\ "Front" \in Pictures /\ "Answer" \in Pictures
  BY DEF Pictures
<1>3. first \in KeyFrames /\ first.time = 0
  BY <1>1, LooksAreRecords
<1>4. CASE state[b] = 1
  <2> DEFINE f2 == Frame(Rect("edge", window), "Back", 1)
             f3 == Frame(here, "Front", 2)
             f4 == Frame(here, "Front", 3)
             f5 == Frame(whole, "Front", 5)
  <2>1. FramesOf(b) = <<f2, f3, f4, f5>>
    BY <1>4, StateNames DEF FramesOf, StateOf
  <2>2. /\ f2 \in KeyFrames /\ f3 \in KeyFrames /\ f4 \in KeyFrames /\ f5 \in KeyFrames
        /\ f2.time = 1 /\ f3.time = 2 /\ f4.time = 3 /\ f5.time = 5
        /\ f5.pic = "Front" /\ f5.rect = whole
    <3>1. f2 \in KeyFrames /\ f2.time = 1 /\ f3 \in KeyFrames /\ f3.time = 2
      BY <1>1, <1>2, LooksAreRecords
    <3>2. f4 \in KeyFrames /\ f4.time = 3
      BY <1>1, <1>2, LooksAreRecords
    <3>3. f5 \in KeyFrames /\ f5.time = 5 /\ f5.pic = "Front" /\ f5.rect = whole
      BY <1>1, <1>2, LooksAreRecords
    <3> QED
      BY <3>1, <3>2, <3>3
  <2> HIDE DEF f2, f3, f4, f5, first
  <2> DEFINE rest == <<f2, f3, f4, f5>>
  <2>3. /\ rest \in Seq(KeyFrames) /\ Len(rest) = 4
        /\ rest[1] = f2 /\ rest[2] = f3 /\ rest[3] = f4 /\ rest[4] = f5
    BY <2>2
  <2>4. /\ s \in Seq(KeyFrames) /\ Len(s) = 5 /\ s[1] = first
        /\ s[2] = f2 /\ s[3] = f3 /\ s[4] = f4 /\ s[5] = f5
    <3>1. s = <<first>> \o rest
      BY <2>1 DEF first
    <3> HIDE DEF rest
    <3>2. /\ s \in Seq(KeyFrames) /\ Len(s) = 5 /\ s[1] = first
          /\ \A i \in 2..5 : s[i] = rest[i - 1]
      <4> DEFINE q == <<first>> \o rest
      <4>1. /\ q \in Seq(KeyFrames) /\ Len(q) = Len(rest) + 1 /\ q[1] = first
            /\ \A i \in 2..(Len(rest) + 1) : q[i] = rest[i - 1]
        <5>1. rest \in Seq(KeyFrames) /\ first \in KeyFrames
          BY <2>3, <1>3
        <5>2. q \in Seq(KeyFrames) /\ Len(q) = Len(rest) + 1
          BY <5>1, FirstFrame
        <5>3. q[1] = first
          BY <5>1, FirstFrame
        <5>4. \A i \in 2..(Len(rest) + 1) : q[i] = rest[i - 1]
          BY <5>1, FirstFrame
        <5> QED
          BY <5>2, <5>3, <5>4
      <4>2. q = s
        BY <3>1
      <4> HIDE DEF q
      <4> QED
        BY <4>1, <4>2, <2>3
    <3>3. s[2] = rest[1] /\ s[3] = rest[2] /\ s[4] = rest[3] /\ s[5] = rest[4]
      BY <3>2
    <3> QED
      BY <3>2, <3>3, <2>3
  <2>5. ASSUME NEW now \in 1..5
        PROVE  \E i \in 2..5 : s[i].time >= now /\ s[i - 1].time < now
    <3>1. CASE now = 1
      <4> WITNESS 2 \in 2..5
      <4> QED
        BY <2>2, <2>4, <1>3, <3>1
    <3>2. CASE now = 2
      <4> WITNESS 3 \in 2..5
      <4> QED
        BY <2>2, <2>4, <3>2
    <3>3. CASE now = 3
      <4> WITNESS 4 \in 2..5
      <4> QED
        BY <2>2, <2>4, <3>3
    <3>4. CASE now = 4 \/ now = 5
      <4> WITNESS 5 \in 2..5
      <4> QED
        BY <2>2, <2>4, <3>4
    <3>5. now = 1 \/ now = 2 \/ now = 3 \/ now = 4 \/ now = 5
      OBVIOUS
    <3> QED
      BY <3>1, <3>2, <3>3, <3>4, <3>5, Zenon
  <2> QED
    BY <2>2, <2>4, <2>5, <1>4, SMTT(30) DEF Covers
<1>5. CASE state[b] = 2
  <2> DEFINE f2 == Frame(Rect("edge", window), "Front", 1)
             f3 == Frame(whole, "Answer", 2)
  <2>1. FramesOf(b) = <<f2, f3>>
    BY <1>5, StateNames DEF FramesOf, StateOf
  <2>2. /\ f2 \in KeyFrames /\ f3 \in KeyFrames
        /\ f2.time = 1 /\ f3.time = 2 /\ f3.pic = "Answer" /\ f3.rect = whole
    BY <1>1, <1>2, LooksAreRecords
  <2> HIDE DEF f2, f3, first
  <2> DEFINE rest == <<f2, f3>>
  <2>3. /\ rest \in Seq(KeyFrames) /\ Len(rest) = 2
        /\ rest[1] = f2 /\ rest[2] = f3
    BY <2>2
  <2>4. /\ s \in Seq(KeyFrames) /\ Len(s) = 3 /\ s[1] = first
        /\ s[2] = f2 /\ s[3] = f3
    <3>1. s = <<first>> \o rest
      BY <2>1 DEF first
    <3> HIDE DEF rest
    <3>2. /\ s \in Seq(KeyFrames) /\ Len(s) = 3 /\ s[1] = first
          /\ \A i \in 2..3 : s[i] = rest[i - 1]
      <4> DEFINE q == <<first>> \o rest
      <4>1. /\ q \in Seq(KeyFrames) /\ Len(q) = Len(rest) + 1 /\ q[1] = first
            /\ \A i \in 2..(Len(rest) + 1) : q[i] = rest[i - 1]
        <5>1. rest \in Seq(KeyFrames) /\ first \in KeyFrames
          BY <2>3, <1>3
        <5>2. q \in Seq(KeyFrames) /\ Len(q) = Len(rest) + 1
          BY <5>1, FirstFrame
        <5>3. q[1] = first
          BY <5>1, FirstFrame
        <5>4. \A i \in 2..(Len(rest) + 1) : q[i] = rest[i - 1]
          BY <5>1, FirstFrame
        <5> QED
          BY <5>2, <5>3, <5>4
      <4>2. q = s
        BY <3>1
      <4> HIDE DEF q
      <4> QED
        BY <4>1, <4>2, <2>3
    <3>3. s[2] = rest[1] /\ s[3] = rest[2]
      BY <3>2
    <3> QED
      BY <3>2, <3>3, <2>3
  <2>5. ASSUME NEW now \in 1..2
        PROVE  \E i \in 2..3 : s[i].time >= now /\ s[i - 1].time < now
    <3>1. CASE now = 1
      <4> WITNESS 2 \in 2..3
      <4> QED
        BY <2>2, <2>4, <1>3, <3>1
    <3>2. CASE now = 2
      <4> WITNESS 3 \in 2..3
      <4> QED
        BY <2>2, <2>4, <3>2
    <3>3. now = 1 \/ now = 2
      OBVIOUS
    <3> QED
      BY <3>1, <3>2, <3>3, Zenon
  <2> QED
    BY <2>2, <2>4, <2>5, <1>5 DEF Covers
<1>6. CASE state[b] = 3
  <2> DEFINE f2 == Frame(Rect("point", window), "Answer", 2)
  <2>1. FramesOf(b) = <<f2>>
    BY <1>6, StateNames DEF FramesOf, StateOf
  <2>2. f2 \in KeyFrames /\ f2.time = 2
    BY <1>1, <1>2, LooksAreRecords
  <2> HIDE DEF f2, first
  <2> DEFINE rest == <<f2>>
  <2>3. /\ rest \in Seq(KeyFrames) /\ Len(rest) = 1
        /\ rest[1] = f2
    BY <2>2
  <2>4. /\ s \in Seq(KeyFrames) /\ Len(s) = 2 /\ s[1] = first
        /\ s[2] = f2
    <3>1. s = <<first>> \o rest
      BY <2>1 DEF first
    <3> HIDE DEF rest
    <3>2. /\ s \in Seq(KeyFrames) /\ Len(s) = 2 /\ s[1] = first
          /\ \A i \in 2..2 : s[i] = rest[i - 1]
      <4> DEFINE q == <<first>> \o rest
      <4>1. /\ q \in Seq(KeyFrames) /\ Len(q) = Len(rest) + 1 /\ q[1] = first
            /\ \A i \in 2..(Len(rest) + 1) : q[i] = rest[i - 1]
        <5>1. rest \in Seq(KeyFrames) /\ first \in KeyFrames
          BY <2>3, <1>3
        <5>2. q \in Seq(KeyFrames) /\ Len(q) = Len(rest) + 1
          BY <5>1, FirstFrame
        <5>3. q[1] = first
          BY <5>1, FirstFrame
        <5>4. \A i \in 2..(Len(rest) + 1) : q[i] = rest[i - 1]
          BY <5>1, FirstFrame
        <5> QED
          BY <5>2, <5>3, <5>4
      <4>2. q = s
        BY <3>1
      <4> HIDE DEF q
      <4> QED
        BY <4>1, <4>2, <2>3
    <3>3. s[2] = rest[1]
      BY <3>2
    <3> QED
      BY <3>2, <3>3, <2>3
  <2>5. \A now \in 1..2 : s[2].time >= now /\ s[2 - 1].time < now
    BY <2>2, <2>4, <1>3
  <2> QED
    BY <2>2, <2>4, <2>5, <1>6 DEF Covers
<1> QED
  BY <1>4, <1>5, <1>6

\* While its time is not over, and the first time after, an effect has a frame to
\* show; after its time it is the last one.
LEMMA FramesShown ==
  ASSUME NEW b \in Blocks, frames[b] \in Seq(KeyFrames), Covers(frames[b]),
         NEW now \in Nat, now > 0
  PROVE  /\ FrameAt(b, now) \in Looks
         /\ EndOf(b) \in KeyFrames
         /\ now > EndOf(b).time =>
              FrameAt(b, now).pic = EndOf(b).pic /\ FrameAt(b, now).rect = EndOf(b).rect
<1>1. \A f \in KeyFrames : f.rect \in Rects /\ f.pic \in Pictures /\ f.time \in Nat
  BY DEF KeyFrames
<1>2. \A f \in KeyFrames, t \in Nat : Blend(f, t) \in Looks
  BY <1>1, LooksAreRecords DEF Blend, Kinds
<1>3. \A i \in 1..Len(frames[b]) : frames[b][i] \in KeyFrames
  OBVIOUS
<1>4. EndOf(b) \in KeyFrames
  BY <1>3 DEF EndOf, Covers
<1>5. CASE now > EndOf(b).time
  <2>1. FrameAt(b, now) = Blend(EndOf(b), EndOf(b).time)
    BY <1>5 DEF FrameAt
  <2>2. FrameAt(b, now).pic = EndOf(b).pic /\ FrameAt(b, now).rect = EndOf(b).rect
    BY <2>1 DEF Blend
  <2> QED
    BY <1>1, <1>2, <1>4, <2>1, <2>2
<1>6. CASE ~(now > EndOf(b).time)
  <2> DEFINE i == CHOOSE i \in 2..Len(frames[b]) :
                    frames[b][i].time >= now /\ frames[b][i - 1].time < now
  <2>1. now \in 1..EndOf(b).time
    BY <1>1, <1>4, <1>6
  <2>2. i \in 2..Len(frames[b])
    BY <2>1 DEF Covers, EndOf
  <2>3. FrameAt(b, now) = Blend(frames[b][i], now)
    BY <1>6 DEF FrameAt
  <2> HIDE DEF i
  <2>4. frames[b][i] \in KeyFrames
    BY <1>3, <2>2
  <2> QED
    BY <1>2, <1>4, <1>6, <2>3, <2>4
<1> QED
  BY <1>5, <1>6

LEMMA InitShown == Init => ShownInv
<1> SUFFICES ASSUME Init PROVE ShownInv
  OBVIOUS
<1>1. IInv
  BY InitIInv
<1>2. Rect("cell", window) \in Rects /\ "Back" \in Pictures
  BY LooksAreRecords DEF Init, Kinds, Pictures
<1>3. \A b \in Blocks : look[b] = [rect |-> Rect("cell", window), pic |-> "Back"]
  BY DEF Init
<1>4. look \in [Blocks -> Looks]
  BY <1>2, LooksAreRecords DEF Init
<1>5. TypeOK
  BY <1>4 DEF Init, TypeOK
<1>6. frames \in [Blocks -> Seq(KeyFrames)]
  BY DEF Init
<1>7. ASSUME NEW b \in Blocks PROVE BlockShown(b)
  <2>1. ~reading[b] /\ selected # b /\ state[b] = 1 /\ 1 \in 1..4
    BY DEF Init
  <2>2. StateOf(b) = "Back"
    BY <2>1, StateNames DEF StateOf
  <2> QED
    BY <1>3, <2>1, <2>2 DEF BlockShown, Settled
<1> QED
  BY <1>1, <1>5, <1>6, <1>7 DEF ShownInv

\* A click that starts an effect on block b, the selected one or any block if none is.
LEMMA ClickShown ==
  ASSUME ShownInv, IInv', phase = "message", phase' = "tick", NEW b \in Blocks,
         selected = NoBlock \/ selected = b, OpClickBlock(b),
         UNCHANGED <<window, look>>, crashed' = crashed
  PROVE  ShownInv'
<1>1. CASE UNCHANGED <<selected, state, effects, late>>
  <2>1. TypeOK' /\ frames' \in [Blocks -> Seq(KeyFrames)]
    BY <1>1 DEF ShownInv, TypeOK, effects
  <2>2. ASSUME NEW c \in Blocks PROVE BlockShown(c)'
    <3>1. BlockShown(c)
      BY DEF ShownInv
    <3> QED
      BY <1>1, <3>1 DEF effects, BlockShown, EffectLeads, Settled, Shown, EndOf, StateOf, Covers
  <2> QED
    BY <2>1, <2>2 DEF ShownInv
<1>2. CASE /\ ~reading[b] /\ StateOf(b) # "Invisible" /\ StartEffect(b)
           /\ state' = [state EXCEPT ![b] = @ + 1] /\ Selection(b)
  <2> DEFINE s == <<Frame(look[b].rect, look[b].pic, 0)>> \o FramesOf(b)
  <2>1. TypeOK /\ IInv /\ frames \in [Blocks -> Seq(KeyFrames)] /\ window \in Windows
        /\ look[b] \in Looks /\ state[b] \in 1..4
    BY DEF ShownInv, TypeOK
  <2>2. state[b] \in 1..3 /\ state'[b] = state[b] + 1
        /\ \A c \in Blocks \ {b} : state'[c] = state[c]
    BY <1>2, <2>1, StateNames DEF StateOf, TypeOK
  <2>3. /\ frames' = [frames EXCEPT ![b] = s]
        /\ time' = [time EXCEPT ![b] = 0] /\ reading' = [reading EXCEPT ![b] = TRUE]
        /\ late' = [late EXCEPT ![b] = FALSE] /\ output' = output
    BY <1>2 DEF StartEffect
  <2> HIDE DEF s
  <2>4. /\ s \in Seq(KeyFrames) /\ Covers(s)
        /\ state[b] = 1 => s[Len(s)].pic = "Front"
        /\ state[b] = 2 => s[Len(s)].pic = "Answer"
        /\ state[b] # 3 => s[Len(s)].rect = Rect("whole", window)
    BY <2>1, <2>2, EffectsCover DEF s
  <2>5. selected' \in Blocks \cup {NoBlock} /\ state' \in [Blocks -> 1..4]
    BY DEF IInv, BoardTyped
  <2>6. TypeOK' /\ frames' \in [Blocks -> Seq(KeyFrames)]
    BY <2>1, <2>3, <2>4, <2>5 DEF TypeOK
  <2>7. frames'[b] = s /\ time'[b] = 0 /\ reading'[b] /\ ~late'[b] /\ EndOf(b)' = s[Len(s)]
    BY <2>1, <2>3 DEF TypeOK, EndOf
  <2>8. BlockShown(b)'
    <3>1. s[Len(s)].time > 0
      BY <2>4 DEF Covers
    <3>2. ~(0 > s[Len(s)].time)
      <4>1. s[Len(s)] \in KeyFrames
        BY <2>4 DEF Covers
      <4> QED
        BY <3>1, <4>1 DEF KeyFrames
    <3>3. CASE state[b] = 3
      BY <2>2, <2>4, <2>7, <3>3, StateNames DEF BlockShown, EffectLeads, StateOf, Covers
    <3>4. CASE state[b] \in {1, 2}
      <4>1. StateOf(b)' = s[Len(s)].pic /\ StateOf(b)' \in {"Front", "Answer"}
        BY <2>2, <2>4, <3>4, StateNames DEF StateOf
      <4>2. selected' = b
        BY <4>1 DEF IInv, OpenIsSelected
      <4>3. Settled(b, EndOf(b))'
        BY <2>4, <2>7, <3>4, <4>1, <4>2 DEF Settled
      <4> QED
        BY <2>4, <2>7, <3>2, <4>3 DEF BlockShown, EffectLeads, Covers
    <3> QED
      BY <2>2, <3>3, <3>4
  <2>9. ASSUME NEW c \in Blocks, c # b PROVE BlockShown(c)'
    <3>1. /\ frames'[c] = frames[c] /\ time'[c] = time[c] /\ reading'[c] = reading[c]
          /\ late'[c] = late[c] /\ state'[c] = state[c]
      BY <2>1, <2>2, <2>3, <2>9 DEF TypeOK
    <3>2. selected # c /\ selected' # c
      <4>1. selected # c
        BY <2>9
      <4>2. StateOf(c)' = StateOf(c)
        BY <3>1 DEF StateOf
      <4> QED
        BY <4>1, <4>2, <2>1 DEF IInv, OpenIsSelected
    <3>3. BlockShown(c)
      BY DEF ShownInv
    <3> QED
      BY <3>1, <3>2, <3>3, <2>3 DEF BlockShown, EffectLeads, Settled, Shown, EndOf, StateOf, Covers
  <2> QED
    BY <2>6, <2>8, <2>9 DEF ShownInv
<1> QED
  BY <1>1, <1>2 DEF OpClickBlock

\* The window changes, or is told its size again.
LEMMA ResizeShown ==
  ASSUME ShownInv, IInv', phase = "message", phase' = "tick", NEW w \in Windows,
         OnResizeWindow(w)
  PROVE  ShownInv'
<1>1. TypeOK /\ IInv /\ frames \in [Blocks -> Seq(KeyFrames)]
  BY DEF ShownInv
<1>2. /\ window' = w /\ UNCHANGED <<selected, state, effects, crashed>>
      /\ \A b \in Blocks : look'[b] =
           IF StateOf(b) = "Invisible" THEN look[b]
           ELSE [look[b] EXCEPT !.rect = Rect(IF b = selected THEN "whole" ELSE "cell", w)]
      /\ \A b \in Blocks : late'[b] = (reading[b] /\ (late[b] \/ w # window))
      /\ DOMAIN look' = Blocks
  BY DEF OnResizeWindow
<1>3. ASSUME NEW b \in Blocks
      PROVE  /\ look'[b] \in Looks
             /\ StateOf(b) # "Invisible" =>
                  /\ look'[b].pic = look[b].pic
                  /\ look'[b].rect = Rect(IF selected = b THEN "whole" ELSE "cell", w)
  <2> DEFINE r == Rect(IF b = selected THEN "whole" ELSE "cell", w)
  <2>1. look[b] \in Looks /\ r \in Rects
    BY <1>1, LooksAreRecords DEF TypeOK, Kinds
  <2> HIDE DEF r
  <2>2. [look[b] EXCEPT !.rect = r] \in Looks /\ [look[b] EXCEPT !.rect = r].rect = r
        /\ [look[b] EXCEPT !.rect = r].pic = look[b].pic
    BY <2>1 DEF Looks
  <2>3. look'[b] = IF StateOf(b) = "Invisible" THEN look[b] ELSE [look[b] EXCEPT !.rect = r]
    BY <1>2 DEF r
  <2> QED
    BY <2>1, <2>2, <2>3 DEF r
<1>4. look' \in [Blocks -> Looks]
  BY <1>3 DEF OnResizeWindow
<1>5. late' \in [Blocks -> BOOLEAN]
  BY <1>1 DEF OnResizeWindow, TypeOK
<1>6. TypeOK' /\ frames' \in [Blocks -> Seq(KeyFrames)]
  BY <1>1, <1>2, <1>4, <1>5 DEF TypeOK, effects
<1>7. ASSUME NEW b \in Blocks PROVE BlockShown(b)'
  <2>1. BlockShown(b) /\ StateOf(b)' = StateOf(b) /\ EndOf(b)' = EndOf(b)
        /\ late'[b] = (reading[b] /\ (late[b] \/ w # window)) /\ reading'[b] = reading[b]
        /\ selected' = selected /\ frames' = frames /\ time' = time
    BY <1>2 DEF ShownInv, StateOf, EndOf, effects
  <2>2. CASE ~reading[b]
    BY <1>2, <1>3, <2>1, <2>2 DEF BlockShown, Settled
  <2>3. CASE reading[b]
    <3>1. Covers(frames[b])'
      BY <2>1, <2>3 DEF BlockShown, EffectLeads, Covers
    <3>2. CASE StateOf(b) = "Invisible"
      BY <2>1, <2>3, <3>1, <3>2 DEF BlockShown, EffectLeads, Covers
    <3>3. CASE StateOf(b) # "Invisible"
      <4>1. Settled(b, EndOf(b)) /\ (time[b] > EndOf(b).time => Settled(b, look[b]))
        BY <2>1, <2>3, <3>3 DEF BlockShown, EffectLeads, Shown
      <4>2. Settled(b, EndOf(b))'
        BY <1>2, <2>1, <2>3, <4>1 DEF Settled
      <4>3. time[b] > EndOf(b).time => Settled(b, look[b])'
        BY <1>2, <1>3, <2>1, <2>3, <3>3, <4>1 DEF Settled
      <4> QED
        BY <2>1, <2>3, <3>1, <4>2, <4>3 DEF BlockShown, EffectLeads, Shown, Covers
    <3> QED
      BY <3>2, <3>3
  <2> QED
    BY <2>2, <2>3
<1> QED
  BY <1>6, <1>7 DEF ShownInv

LEMMA MessageShown == ASSUME ShownInv, IInv', Message PROVE ShownInv'
<1>1. TypeOK /\ IInv /\ phase = "message" /\ phase' = "tick" /\ crashed = "no"
  BY DEF ShownInv, Message
<1>2. CASE \E b \in Blocks : OnClick(b)
  <2>1. PICK b \in Blocks : OnClick(b)
    BY <1>2
  <2>2. selected = NoBlock \/ selected \in Blocks
    BY <1>1 DEF TypeOK
  <2> QED
    BY <1>1, <2>1, <2>2, ClickShown DEF OnClick
<1>3. CASE ClickOutside
  <2>1. CASE selected = NoBlock
    <3>1. UNCHANGED <<window, look, selected, state, effects, late>> /\ crashed' = "grid"
      BY <1>3, <2>1 DEF ClickOutside
    <3>2. TypeOK' /\ frames' \in [Blocks -> Seq(KeyFrames)]
      BY <1>1, <3>1 DEF ShownInv, TypeOK, effects
    <3>3. ASSUME NEW c \in Blocks PROVE BlockShown(c)'
      <4>1. BlockShown(c)
        BY DEF ShownInv
      <4> QED
        BY <1>1, <3>1, <4>1 DEF effects, BlockShown, EffectLeads, Settled, Shown, EndOf,
                                StateOf, Covers
    <3> QED
      BY <3>2, <3>3 DEF ShownInv
  <2>2. CASE selected \in Blocks
    BY <1>1, <1>3, <2>2, ClickShown DEF ClickOutside
  <2> QED
    BY <1>1, <2>1, <2>2 DEF TypeOK
<1>4. CASE \E w \in Windows : OnResizeWindow(w)
  BY <1>1, <1>4, ResizeShown
<1>5. CASE UNCHANGED <<window, selected, state, look, effects, late, crashed>>
  <2>1. TypeOK' /\ frames' \in [Blocks -> Seq(KeyFrames)]
    BY <1>1, <1>5 DEF ShownInv, TypeOK, effects
  <2>2. ASSUME NEW c \in Blocks PROVE BlockShown(c)'
    <3>1. BlockShown(c)
      BY DEF ShownInv
    <3> QED
      BY <1>1, <1>5, <3>1 DEF effects, BlockShown, EffectLeads, Settled, Shown, EndOf,
                              StateOf, Covers
  <2> QED
    BY <2>1, <2>2 DEF ShownInv
<1> QED
  BY <1>2, <1>3, <1>4, <1>5 DEF Message

\* A block whose effect ends in a tick already shows its last frame: it was shown
\* once after its time.
LEMMA TickShown == ASSUME ShownInv, IInv', NEW d \in Deltas, Tick(d) PROVE ShownInv'
<1>1. TypeOK /\ IInv /\ frames \in [Blocks -> Seq(KeyFrames)] /\ phase = "tick"
      /\ phase' = "draw" /\ UNCHANGED <<window, selected, state, look, frames, late, crashed>>
  BY DEF ShownInv, Tick
<1>2. ASSUME NEW b \in Blocks
      PROVE  /\ output'[b] \in Looks \cup {NoData} /\ time'[b] \in Nat
             /\ reading'[b] \in BOOLEAN
             /\ BlockShown(b)'
  <2>1. /\ output'[b] = IF reading[b] THEN CurFrame(b, CurTime(b, d)) ELSE output[b]
        /\ time'[b] = IF reading[b] /\ output'[b] # NoData THEN CurTime(b, d) ELSE 0
        /\ reading'[b] = (reading[b] /\ output'[b] # NoData)
    BY DEF Tick
  <2>2. BlockShown(b) /\ StateOf(b)' = StateOf(b) /\ EndOf(b)' = EndOf(b)
    BY <1>1 DEF ShownInv, StateOf, EndOf
  <2>3. CASE ~reading[b]
    BY <1>1, <2>1, <2>2, <2>3 DEF TypeOK, BlockShown, Settled
  <2>4. CASE reading[b]
    <3> DEFINE now == CurTime(b, d)
    <3>1. now \in Nat /\ now > 0 /\ now > time[b] /\ time[b] \in Nat
      BY <1>1 DEF CurTime, TypeOK
    <3> HIDE DEF now
    <3>2. Covers(frames[b]) /\ frames[b] \in Seq(KeyFrames)
      BY <1>1, <2>2, <2>4 DEF BlockShown, EffectLeads
    <3>3. /\ FrameAt(b, now) \in Looks /\ EndOf(b) \in KeyFrames
          /\ now > EndOf(b).time =>
               FrameAt(b, now).pic = EndOf(b).pic /\ FrameAt(b, now).rect = EndOf(b).rect
      BY <3>1, <3>2, FramesShown
    <3>4. output'[b] = CurFrame(b, now)
      BY <2>1, <2>4 DEF now
    <3>5. CASE now > EndOf(b).time /\ time[b] > EndOf(b).time
      <4>1. output'[b] = NoData /\ ~reading'[b] /\ time'[b] = 0
        BY <2>1, <3>4, <3>5 DEF CurFrame
      <4>2. StateOf(b) # "Invisible" => Settled(b, look[b])
        BY <1>1, <2>2, <2>4, <3>5 DEF BlockShown, EffectLeads, Shown
      <4>3. BlockShown(b)'
        BY <1>1, <2>2, <4>1, <4>2 DEF BlockShown, Settled
      <4> QED
        BY <2>1, <4>1, <4>3
    <3>6. CASE ~(now > EndOf(b).time /\ time[b] > EndOf(b).time)
      <4>1. output'[b] = FrameAt(b, now) /\ output'[b] # NoData
        BY <3>3, <3>4, <3>6 DEF CurFrame
      <4>2. reading'[b] /\ time'[b] = now
        BY <2>1, <2>4, <4>1 DEF now
      <4>3. ASSUME StateOf(b) # "Invisible"
            PROVE  /\ Settled(b, EndOf(b))'
                   /\ time'[b] > EndOf(b)'.time => Settled(b, output[b])'
        <5>1. Settled(b, EndOf(b))
          BY <2>2, <2>4, <4>3 DEF BlockShown, EffectLeads
        <5> QED
          BY <1>1, <2>2, <3>3, <4>1, <4>2, <5>1 DEF Settled
      <4>4. Covers(frames[b])'
        BY <1>1, <3>2 DEF Covers
      <4>5. BlockShown(b)'
        BY <1>1, <2>2, <4>2, <4>3, <4>4 DEF BlockShown, EffectLeads, Shown
      <4> QED
        BY <2>1, <3>1, <3>3, <4>1, <4>2, <4>5
    <3> QED
      BY <3>5, <3>6
  <2> QED
    BY <1>1, <2>3, <2>4 DEF TypeOK
<1>3. output' \in [Blocks -> Looks \cup {NoData}] /\ time' \in [Blocks -> Nat]
      /\ reading' \in [Blocks -> BOOLEAN]
  BY <1>2 DEF Tick
<1>4. TypeOK' /\ frames' \in [Blocks -> Seq(KeyFrames)]
  BY <1>1, <1>3 DEF TypeOK
<1> QED
  BY <1>2, <1>4 DEF ShownInv

\* Drawing makes the frame of the effect the block's own.
LEMMA DrawShown == ASSUME ShownInv, IInv', Draw PROVE ShownInv'
<1>1. TypeOK /\ IInv /\ frames \in [Blocks -> Seq(KeyFrames)] /\ phase = "draw"
      /\ phase' = "message" /\ UNCHANGED <<window, selected, state, effects, late>>
  BY DEF ShownInv, Draw
<1>2. \A b \in Blocks : reading[b] => output[b] # NoData
  BY <1>1 DEF IInv, FrameReady
<1>3. look' = [b \in Blocks |-> IF reading[b] THEN output[b] ELSE look[b]] /\ crashed' = crashed
  BY <1>2 DEF Draw
<1>4. look' \in [Blocks -> Looks]
  BY <1>1, <1>2, <1>3 DEF TypeOK
<1>5. TypeOK' /\ frames' \in [Blocks -> Seq(KeyFrames)]
  BY <1>1, <1>3, <1>4 DEF TypeOK, effects
<1>6. ASSUME NEW b \in Blocks PROVE BlockShown(b)'
  <2>1. BlockShown(b) /\ StateOf(b)' = StateOf(b) /\ EndOf(b)' = EndOf(b)
        /\ reading' = reading /\ frames' = frames /\ time' = time
    BY <1>1 DEF ShownInv, StateOf, EndOf, effects
  <2>2. CASE ~reading[b]
    BY <1>1, <1>3, <2>1, <2>2 DEF BlockShown, Settled
  <2>3. CASE reading[b]
    <3>1. look'[b] = output[b]
      BY <1>3, <2>3
    <3>2. Covers(frames[b])'
      BY <2>1, <2>3 DEF BlockShown, EffectLeads, Covers
    <3>3. ASSUME StateOf(b) # "Invisible"
          PROVE  /\ Settled(b, EndOf(b))'
                 /\ time[b] > EndOf(b).time => Settled(b, look[b])'
      BY <1>1, <2>1, <2>3, <3>1, <3>3 DEF BlockShown, EffectLeads, Shown, Settled
    <3> QED
      BY <1>1, <2>1, <2>3, <3>2, <3>3 DEF BlockShown, EffectLeads, Shown
  <2> QED
    BY <2>2, <2>3
<1> QED
  BY <1>5, <1>6 DEF ShownInv

LEMMA StutterShown == ASSUME ShownInv, IInv', UNCHANGED vars PROVE ShownInv'
<1>1. TypeOK' /\ frames' \in [Blocks -> Seq(KeyFrames)]
  BY DEF ShownInv, TypeOK, vars, effects
<1>2. ASSUME NEW c \in Blocks PROVE BlockShown(c)'
  <2>1. BlockShown(c)
    BY DEF ShownInv
  <2> QED
    BY <2>1 DEF vars, effects, BlockShown, EffectLeads, Settled, Shown, EndOf, StateOf, Covers
<1> QED
  BY <1>1, <1>2 DEF ShownInv

\* A block at rest shows the picture of its state at the size of the window, whatever
\* clicks, resizes and slow frames came (only a resize during its effect may leave it
\* with the size of before): ShownAsState, for every board.
THEOREM BoardShowsStates == FairSpec => []ShownAsState
<1>1. ShownInv /\ [Next]_vars => ShownInv'
  <2> SUFFICES ASSUME ShownInv, [Next]_vars PROVE ShownInv'
    OBVIOUS
  <2>1. IInv'
    BY MessageKeepsIInv, FrameKeepsIInv, StutterKeepsIInv DEF Next, ShownInv
  <2> QED
    BY <2>1, MessageShown, TickShown, DrawShown, StutterShown DEF Next
<1>2. ShownInv => ShownAsState
  BY DEF ShownInv, IInv, ShownAsState, BlockShown, Settled
<1> QED
  BY InitShown, <1>1, <1>2, PTL DEF Spec, FairSpec
=============================================================================
