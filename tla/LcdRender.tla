----------------------------- MODULE LcdRender -----------------------------
(***************************************************************************)
(* The display under the player: video_render.c, which counts the owners   *)
(* of a renderer, over lcd_render.c, which draws the pictures.  With frame *)
(* buffers the decoder of a player that renders in its decoder fills one   *)
(* of the two while the other is the one drawn.  On an ESP32P4 the panel   *)
(* goes on after draw_bitmap has returned, reading the picture before it   *)
(* for a while, and says when it has ended: "drawn" is what draw_bitmap    *)
(* was last called with.  A draw_bitmap within the panel succeeds.         *)
(***************************************************************************)
EXTENDS Naturals

CONSTANTS MaxWrites,    \* bound: pictures of a behaviour
          MaxOpens      \* bound: calls of alloc and of video_render_open

VARIABLES
    p4, framed,    \* CONFIG_IDF_TARGET_ESP32P4, use_frame_buffer
    render,        \* video_render_t: allocated, is_open, ref_count
    info,          \* whether lcd->info holds a size and a format
    sel, drawing,
    held,          \* the buffer the decoder fills: 0, 1 or NoBuffer
    drawn, blank,  \* the buffer last given to draw_bitmap, and whether to clear
    due,           \* draws of which the panel has not yet said that they ended
    writing,       \* a lcd_render_write under way: "none", "wait"
    writes, opens

lcd  == <<info, sel, drawing>>
panel == <<drawn, blank, due>>
lcdvars == <<p4, framed, render, lcd, held, panel, writing, writes, opens>>

NoBuffer == 2
Gone == [alloc |-> FALSE, is_open |-> FALSE, ref_count |-> 0]

Init ==
    /\ p4 \in BOOLEAN /\ framed \in BOOLEAN
    /\ render = Gone
    /\ info = FALSE /\ sel = 0 /\ drawing = FALSE
    /\ held = NoBuffer /\ drawn = NoBuffer /\ blank = TRUE /\ due = 0
    /\ writing = "none" /\ writes = 0 /\ opens = 0

-----------------------------------------------------------------------------
(* The owners *)

\* lcd_render_clear blanks the frame buffer that is selected, whether or not a
\* decoder fills it, and draws it; without frame buffers it draws black lines of other
\* memory, on a P4 nothing.
Clear == IF info /\ framed
         THEN drawn' = sel /\ blank' = TRUE /\ due' = IF p4 THEN due + 1 ELSE due
         ELSE UNCHANGED panel

\* video_render_alloc_handle with lcd_render_open: the memory is zeroed, and what the
\* panel still has to say is said to the new renderer.
Alloc ==
    /\ ~render.alloc /\ opens < MaxOpens
    /\ render' = [Gone EXCEPT !.alloc = TRUE, !.ref_count = 1]
    /\ info' = FALSE /\ sel' = 0 /\ drawing' = FALSE
    /\ opens' = opens + 1
    /\ UNCHANGED <<p4, framed, held, panel, writing, writes>>

\* try_free: the last owner closes the display, which clears it once more.
TryFree(r) == render' = IF r.ref_count <= 1 THEN Gone
                        ELSE [r EXCEPT !.ref_count = r.ref_count - 1]

\* video_render_free_handle, by the application that allocated it.
FreeHandle ==
    /\ render.alloc /\ ~render.is_open /\ held = NoBuffer /\ writing = "none"
    /\ TryFree(render) /\ Clear
    /\ UNCHANGED <<p4, framed, lcd, held, writing, writes, opens>>

\* video_render_frame_reached, for the first picture: video_render_close and
\* video_render_open, while the decoder has its buffer.  A format the display does not
\* take changes nothing more.
Open ==
    /\ render.alloc /\ writing = "none" /\ opens < MaxOpens
    /\ \E supported \in BOOLEAN :
         /\ render' = [render EXCEPT !.is_open = supported, !.ref_count = IF supported THEN 2 ELSE 1]
         /\ info' = (info \/ supported)
    /\ IF render.is_open THEN Clear ELSE UNCHANGED panel
    /\ opens' = opens + 1
    /\ UNCHANGED <<p4, framed, sel, drawing, held, writing, writes>>

\* video_render_close, when av_render resets the video.
Close ==
    /\ render.is_open /\ held = NoBuffer /\ writing = "none"
    /\ TryFree([render EXCEPT !.is_open = FALSE]) /\ Clear
    /\ UNCHANGED <<p4, framed, lcd, held, writing, writes, opens>>

-----------------------------------------------------------------------------
(* The pictures *)

\* lcd_render_get_frame_buffer, called by decode_video before each block.  Before
\* set_frame_info the size it reports is 0, and the decoder uses the buffer as well.
GetFrameBuffer ==
    /\ render.alloc /\ framed /\ held = NoBuffer /\ writing = "none"
    /\ held' = sel
    /\ UNCHANGED <<p4, framed, render, lcd, panel, writing, writes, opens>>

\* decode_video, of a block without a picture, or of one that is dropped.
ReturnBuffer ==
    /\ held # NoBuffer /\ writing = "none"
    /\ held' = NoBuffer
    /\ UNCHANGED <<p4, framed, render, lcd, panel, writing, writes, opens>>

\* video_render_write, called with the buffer held, or without frame
\* buffers with memory of the decoder's.
Write ==
    /\ render.is_open /\ writing = "none" /\ writes < MaxWrites
    /\ framed <=> held # NoBuffer
    /\ writing' = "wait" /\ writes' = writes + 1
    /\ UNCHANGED <<p4, framed, render, lcd, held, panel, opens>>

\* The loop of lcd_render_write on a P4 waits for draw_finished.
Waits == writing = "wait" /\ (p4 => ~drawing)

\* A picture too small for lcd->info is refused, with drawing set on a P4.
Refuse ==
    /\ Waits
    /\ drawing' = p4 /\ writing' = "none" /\ held' = NoBuffer
    /\ UNCHANGED <<p4, framed, render, info, sel, panel, writes, opens>>

\* Mutant: sel stays.
DrawNot ==
    /\ Waits
    /\ drawing' = p4 /\ writing' = "none" /\ held' = NoBuffer
    /\ drawn' = held /\ blank' = FALSE /\ due' = IF p4 THEN due + 1 ELSE due
    /\ UNCHANGED <<p4, framed, render, info, sel, writes, opens>>

\* esp_lcd_panel_draw_bitmap, after which the other buffer is the decoder's.
Draw ==
    /\ Waits
    /\ drawing' = p4 /\ writing' = "none" /\ held' = NoBuffer
    /\ sel' = IF framed THEN 1 - sel ELSE sel
    /\ drawn' = held /\ blank' = FALSE /\ due' = IF p4 THEN due + 1 ELSE due
    /\ UNCHANGED <<p4, framed, render, info, writes, opens>>

\* draw_finished, from the panel's interrupt.  lcd_render_write waits for it, but
\* lcd_render_get_frame_buffer does not.
draw_finished ==
    /\ due > 0
    /\ due' = due - 1 /\ drawing' = FALSE
    /\ UNCHANGED <<p4, framed, render, info, sel, held, drawn, blank, writing, writes, opens>>

Next == \/ Alloc \/ FreeHandle \/ Open \/ Close
        \/ GetFrameBuffer \/ ReturnBuffer \/ Write \/ Refuse \/ Draw \/ draw_finished

Spec == Init /\ [][Next]_lcdvars
-----------------------------------------------------------------------------
\* The decoder never fills the buffer that was drawn last, but for the black one of a
\* clear, over dropped pictures and displays that are cleared, closed and opened while
\* it has a buffer: sel of lcd_render_write against that of lcd_render_get_frame_buffer.
\* (That the panel has ended with the buffer before it, is not said: see draw_finished.)
LastDrawnKept == held # NoBuffer /\ held = drawn => blank
=============================================================================
