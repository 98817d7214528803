-------------------------------- MODULE Menu --------------------------------
(***************************************************************************)
(* The menu of the application: the list of images it parses (iso_mount.cpp, *)
(* menu.cpp), the pads it reads once per frame (input.cpp), and what a      *)
(* frame does with the buttons and draws (input() and render() of main.cpp). *)
(* A pad delivers data only now and then, and a program that is to take     *)
(* over may fail to start.                                                  *)
(***************************************************************************)
EXTENDS Integers

CONSTANTS
  Pads,       \* controllers
  ListMax,    \* nListMax: the window has one line more (20)
  Repeat,     \* frames between two moves of the selection (5)
  Lists       \* lengths of the list file, in lines

VARIABLES
  lines,              \* external: lines of the list file that are not parsed yet
  pc,                 \* "parse", "input", "render", "spawned"
  nSelectedItem, nTopItem, nTotalItem,
  buttPressedNow,     \* buttons of the last data
  mIsButtPressed,     \* buttons of the frame before
  mValLStickY,        \* "low" (below 50), "mid", "high" (above 200)
  nSelInputFrame,
  spawn,              \* what the frame tried to start: "none", "mount", "rescan"
  by,                 \* history: the pad whose data the frame read, or None
  fired               \* history: pads whose held CROSS has had its effect

input == <<buttPressedNow, mIsButtPressed, mValLStickY, nSelInputFrame>>
vars  == <<lines, pc, nSelectedItem, nTopItem, nTotalItem, input, spawn, by, fired>>

Button == {"up", "down", "triangle", "cross"}
None   == 0

\* InputInit: the stick starts as if pushed up.
Init ==
  /\ lines \in Lists /\ pc = "parse"
  /\ nSelectedItem = 0 /\ nTopItem = 0 /\ nTotalItem = 0
  /\ buttPressedNow = {} /\ mIsButtPressed = {}
  /\ mValLStickY = "low" /\ nSelInputFrame = 0
  /\ spawn = "none" /\ by = None /\ fired = {}

\* parse_iso_list: a line that begins an entry becomes an item.
ParseLine ==
  /\ pc = "parse" /\ lines > 0
  /\ lines' = lines - 1
  /\ nTotalItem' \in {nTotalItem, nTotalItem + 1}
  /\ UNCHANGED <<pc, nSelectedItem, nTopItem, input, spawn, by, fired>>

ParseEnd ==
  /\ pc = "parse" /\ lines = 0
  /\ pc' = "input"
  /\ UNCHANGED <<lines, nSelectedItem, nTopItem, nTotalItem, input, spawn, by, fired>>

-----------------------------------------------------------------------------
(* input *)

\* Mutated form of MoveDown: the item behind the last can be selected.
MoveDownTooFar(s) == IF s >= 0 /\ s < nTotalItem THEN s + 1 ELSE s

MoveUp(s)   == IF s > 0 /\ s <= nTotalItem THEN s - 1 ELSE s
MoveDown(s) == IF s >= 0 /\ s < nTotalItem - 1 THEN s + 1 ELSE s

\* Held in this frame and in the one before.
Held(b, now) == b \in mIsButtPressed /\ b \in now

\* The selection moves every Repeat frames, up before down.
Moved(now, stick) ==
  LET s == IF Held("up", now) \/ stick = "low" THEN MoveUp(nSelectedItem) ELSE nSelectedItem
  IN  IF Held("down", now) \/ stick = "high" THEN MoveDown(s) ELSE s

Pressed(b, now) == b \notin mIsButtPressed /\ b \in now

\* Mutated form of FrameEnd: only frames that read a pad are remembered.
FrameEndWhenRead(c, now) == mIsButtPressed' = IF c = None THEN mIsButtPressed \ now ELSE now

\* InputFrameEnd
FrameEnd(c, now) == mIsButtPressed' = now

\* One call of input, with the buttons and the stick of this frame: those of
\* the pad c that delivered data, or those of before. A program that is to take
\* over either starts, which ends this one, or the call returns; an item whose
\* path has none of the four folders in it (nType -1) is not mounted.
Frame(c, now, stick) ==
  /\ buttPressedNow' = now /\ mValLStickY' = stick /\ by' = c
  /\ IF nSelInputFrame = Repeat
     THEN nSelectedItem' = Moved(now, stick) /\ nSelInputFrame' = 1
     ELSE UNCHANGED nSelectedItem /\ nSelInputFrame' = nSelInputFrame + 1
  /\ LET mounts == Pressed("cross", now) /\ nTotalItem >= 1
     IN  /\ \/ Pressed("triangle", now) /\ spawn' = "rescan" /\ pc' = "spawned"
            \/ mounts /\ spawn' = "mount" /\ pc' \in {"spawned", "render"}
            \/ pc' = "render"
               /\ spawn' = IF Pressed("triangle", now) THEN "rescan" ELSE "none"
         /\ fired' = IF c = None THEN fired
                     ELSE IF "cross" \notin now THEN {}
                     ELSE IF spawn' = "mount" THEN {c} ELSE fired \intersect {c}
  /\ FrameEnd(c, now)
  /\ UNCHANGED <<lines, nTopItem, nTotalItem>>

\* InputPadRead: the first pad that delivers data sets all buttons.
InputData(c) ==
  /\ pc = "input"
  /\ \E now \in SUBSET Button, stick \in {"low", "mid", "high"} : Frame(c, now, stick)

\* No pad is connected, or none delivers data.
InputNone ==
  /\ pc = "input"
  /\ Frame(None, buttPressedNow, mValLStickY)

-----------------------------------------------------------------------------
(* render *)

\* UpdateTopItem
TopItem ==
  LET below == nSelectedItem - ListMax
      low   == IF (nSelectedItem > ListMax \/ nTopItem > 0) /\ nTopItem < below THEN below ELSE nTopItem
      top   == IF (nSelectedItem > ListMax \/ nTopItem > 0) /\ low > 0 /\ nSelectedItem < low
               THEN nSelectedItem ELSE below
  IN  IF top < 0 THEN 0 ELSE top

Render ==
  /\ pc = "render"
  /\ nTopItem' = TopItem
  /\ pc' = "input"
  /\ UNCHANGED <<lines, nSelectedItem, nTotalItem, input, spawn, by, fired>>

Next == ParseLine \/ ParseEnd \/ (\E c \in Pads : InputData(c)) \/ InputNone \/ Render

Spec == Init /\ [][Next]_vars

-----------------------------------------------------------------------------
(* Properties *)

\* Whatever is pressed, however often a pad is silent: what is drawn includes
\* the selected item, which is an item of the list.
SelectedShown ==
  pc \in {"input", "spawned"} /\ nTotalItem > 0 =>
    /\ nSelectedItem \in 0..(nTotalItem - 1)
    /\ pc = "input" => nSelectedItem \in nTopItem..(nTopItem + ListMax)

\* A press of CROSS mounts once: when the mounter could not be started, it is
\* tried again only after the pad was seen without CROSS, or another pad in
\* between; and a frame without data from a pad starts nothing.
OneMountPerPress ==
  [][pc = "input" /\ spawn' = "mount" => by' # None /\ by' \notin fired]_vars
=============================================================================
