------------------------------ MODULE Display -------------------------------
(***************************************************************************)
(* The picture of the machine: drawn by the emulator's thread into a       *)
(* framebuffer (gui/wpbochs_gui.cc) and copied by the page's, which asks   *)
(* for its size, takes the dirty flag and copies the pixels in three       *)
(* separately locked calls (EmulatorPage.xaml.cs, BochsMachine.cpp).  The  *)
(* pixels are the number of times that something was drawn, and the size   *)
(* they were laid out for.                                                 *)
(***************************************************************************)
EXTENDS Integers

CONSTANTS
  Sizes,           \* <<width, height>> that the guest sets
  MaxDrawn         \* bound: times that something is drawn

ConstantsOK == Sizes \subseteq (Nat \ {0}) \X (Nat \ {0}) /\ MaxDrawn \in Nat

VARIABLES
  fb,              \* the framebuffer and what is locked with it
  page,            \* the page: its step of CompositionTarget_Rendering, its bitmap and buffer
  raced            \* history: the size changed inside the last copy that took the dirty flag

vars == <<fb, page, raced>>

Pixels(z) == z[1] * z[2]
Nothing == [size |-> <<1, 1>>, drawn |-> 0]

TypeOK ==
  /\ fb.size \in Sizes /\ fb.content.size \in Sizes \union {<<1, 1>>} /\ fb.content.drawn \in 0 .. MaxDrawn
  /\ fb.pixels \in {0} \union {Pixels(z) : z \in Sizes} /\ {fb.dirty, page.paused, raced} \subseteq BOOLEAN
  /\ page.step \in {"idle", "sized", "taken"} /\ page.bitmap \in Sizes \union {<<0, 0>>}
  /\ page.shown.drawn \in 0 .. MaxDrawn

Init ==
  /\ fb = [size |-> CHOOSE z \in Sizes : TRUE, pixels |-> 0, content |-> Nothing, dirty |-> FALSE]
  /\ page = [step |-> "idle", paused |-> FALSE, bitmap |-> <<0, 0>>, shown |-> Nothing]
  /\ raced = FALSE

-----------------------------------------------------------------------------
(* The emulator's thread. *)

\* dimension_update, text_update, clear_screen, tiles and the cursor's pixels:
\* EnsureFramebuffer, then the pixels, then the flag.
Drawn(z) ==
  /\ fb.content.drawn < MaxDrawn
  /\ fb' = [size |-> z, pixels |-> Pixels(z), dirty |-> TRUE,
            content |-> [size |-> z, drawn |-> fb.content.drawn + 1]]
  /\ raced' = (raced \/ (page.step = "taken" /\ z # fb.size))
  /\ UNCHANGED page

Draw == Drawn(fb.size)
Resize == \E z \in Sizes \ {fb.size} : Drawn(z)

-----------------------------------------------------------------------------
(* The page's thread. *)

\* GetFrameSize; a new size gets a new bitmap and a new buffer.
GetFrameSize ==
  /\ page.step = "idle" /\ ~page.paused
  /\ page' = IF page.bitmap = fb.size THEN [page EXCEPT !.step = "sized"]
             ELSE [page EXCEPT !.step = "sized", !.bitmap = fb.size, !.shown = Nothing]
  /\ UNCHANGED <<fb, raced>>

Cleaned(f) == [f EXCEPT !.dirty = FALSE]

\* TryCopyFrame: the flag first.
TakeFrameDirty ==
  /\ page.step = "sized"
  /\ page' = [page EXCEPT !.step = IF fb.dirty THEN "taken" ELSE "idle"]
  /\ raced' = IF fb.dirty THEN page.bitmap # fb.size ELSE raced
  /\ fb' = Cleaned(fb)

\* A buffer that is too large is filled as well.  The wrong version takes only those.
FitsSmaller(z, f) == Pixels(z) > Pixels(f.size) /\ f.pixels = Pixels(f.size)
Fits(z, f) == Pixels(z) >= Pixels(f.size) /\ f.pixels = Pixels(f.size)

CopyFramebuffer ==
  /\ page.step = "taken"
  /\ page' = [page EXCEPT !.step = "idle", !.shown = IF Fits(page.bitmap, fb) THEN fb.content ELSE @]
  /\ UNCHANGED <<fb, raced>>

\* The other handlers of the page run between two renderings.
pauseButton_Click ==
  /\ page.step = "idle"
  /\ page' = [page EXCEPT !.paused = ~@] /\ UNCHANGED <<fb, raced>>

Next == Draw \/ Resize \/ GetFrameSize \/ TakeFrameDirty \/ CopyFramebuffer \/ pauseButton_Click

Spec == Init /\ [][Next]_vars

-----------------------------------------------------------------------------
\* When the flag is clear, and the page is not copying, it shows what was drawn
\* last, unless the size changed inside its last copy: that copy took the flag
\* and may have copied nothing, until something is drawn again.
OnlyResizeLosesFrame == page.step = "idle" /\ ~fb.dirty /\ ~raced => page.shown = fb.content

\* What is shown was laid out for the bitmap it is shown in, with the same
\* exception: a smaller frame fits into a buffer made for a larger one.
OnlyResizeGarbles ==
  page.step # "taken" /\ page.shown # Nothing /\ page.shown.size # page.bitmap =>
    raced \/ fb.dirty
=============================================================================
