------------------------------- MODULE Display -------------------------------
(***************************************************************************)
(* The linear framebuffer (drivers/framebuffer.c) and the software path of *)
(* the HAL display over it (hal_display.c), taken while no virtio-gpu      *)
(* scanout is live.                                                        *)
(*                                                                         *)
(* Surfaces have their real dimensions.  What is kept of the pixel memory  *)
(* is the content of the probe pixels (the corners and the middle), read   *)
(* and written at the offsets the code computes; every other write is only *)
(* held against the end of the buffer.  Coordinates passed to the drawing  *)
(* calls are small enough that x + width does not wrap (framebuffer.c:316  *)
(* clips nothing when it does).                                            *)
(***************************************************************************)
EXTENDS Integers, FiniteSetsExt

CONSTANTS
  Boots,      \* what the boot loader may report, the pitch in pixels
  Colors,     \* 0x00RRGGBB, as colours cross the HAL
  TABLE       \* pixels one page table maps (1024 pages)

VARIABLES
  boot,       \* the multiboot framebuffer fields
  initialized,  \* fb_info.initialized
  screen,     \* probe offset of the framebuffer -> raw pixel
  image,      \* probe pixel -> the colour last drawn there
  known,      \* the probe pixels something was drawn on
  wild        \* a write went past the end of the buffer

dvars == <<boot, initialized, screen, image, known, wild>>

\* fb_info once initialized: positions and size of the colour fields in bits.
fb == [width |-> boot.width, height |-> boot.height, pitch |-> boot.pitch,
       red |-> boot.red, green |-> boot.green, blue |-> boot.blue,
       mask |-> IF boot.mask = 0 THEN 8 ELSE boot.mask]

DisplayAssumption ==
  /\ \A b \in Boots : b.width > 0 /\ b.height > 0 /\ b.pitch >= b.width
                      /\ b.pitch * b.height <= TABLE
                      /\ b.mask \in {0, 8}
  /\ \A c \in Colors : c \in Nat /\ c < 2^24

Probes(s) == ({0, s.width - 1} \X {0, s.height - 1})
               \cup {<<s.width \div 2, s.height \div 2>>}
Offset(s, p) == p[2] * s.pitch + p[1]

\* A block of pixels the code writes row by row: x1 .. x2 of the rows y1 .. y2.
Region(x1, x2, y1, y2) == [x1 |-> x1, x2 |-> x2, y1 |-> y1, y2 |-> y2]
Nonempty(r) == r.x1 <= r.x2 /\ r.y1 <= r.y2
Covers(r, p) == p[1] \in r.x1 .. r.x2 /\ p[2] \in r.y1 .. r.y2

\* Some row of r writes the offset o of a buffer with this pitch.
Hits(r, o, pitch) ==
  /\ Nonempty(r)
  /\ Max({r.y1, - ((r.x2 - o) \div pitch)}) <= Min({r.y2, (o - r.x1) \div pitch})

Within(r, pitch, length) == Nonempty(r) => r.y2 * pitch + r.x2 < length

-----------------------------------------------------------------------------
(* Bring-up and pixels.                                                    *)

Init ==
  /\ boot \in Boots
  /\ initialized = FALSE
  /\ screen = [o \in {Offset(boot, p) : p \in Probes(boot)} |-> 0]
  /\ image = [p \in Probes(boot) |-> <<0, 0, 0>>]
  /\ known = {}
  /\ wild = FALSE

\* A repeated call returns at once, and so does one for a mode the driver does
\* not draw in.  The mapping cannot fail: the page directory is there by then.
framebuffer_init ==
  /\ ~ initialized
  /\ boot.flag /\ boot.type = 1 /\ boot.bpp = 32
  /\ initialized' = TRUE
  /\ UNCHANGED <<boot, screen, image, known, wild>>

framebuffer_color_to_pixel(c) ==
  c[1] * 2^fb.red + c[2] * 2^fb.green + c[3] * 2^fb.blue

\* A pixel off the screen is black.
framebuffer_get_pixel(p) ==
  LET pixel == screen[Offset(fb, p)]
      Field(position) == (pixel \div 2^position) % 2^fb.mask
  IN  IF p[1] >= fb.width \/ p[2] >= fb.height THEN <<0, 0, 0>>
      ELSE <<Field(fb.red), Field(fb.green), Field(fb.blue)>>

\* The colours of the HAL.
color_from_rgb(rgb) == <<(rgb \div 2^16) % 2^8, (rgb \div 2^8) % 2^8, rgb % 2^8>>
rgb_from_color(c) == c[1] * 2^16 + c[2] * 2^8 + c[3]

display_read_pixel(p) ==
  IF initialized THEN rgb_from_color(framebuffer_get_pixel(p)) ELSE 0

\* The buffer writes of one drawing call, and what the call was asked for.
Draw(regions, asked, c) ==
  /\ screen' = [o \in DOMAIN screen |->
                  IF \E r \in regions : Hits(r, o, fb.pitch)
                  THEN framebuffer_color_to_pixel(c) ELSE screen[o]]
  /\ wild' = (wild \/ \E r \in regions : ~ Within(r, fb.pitch, fb.pitch * fb.height))
  /\ image' = [p \in DOMAIN image |-> IF p \in asked THEN c ELSE image[p]]
  /\ known' = known \cup asked
  /\ UNCHANGED <<boot, initialized>>

Shape(x1, x2, y1, y2) == {p \in Probes(fb) : Covers(Region(x1, x2, y1, y2), p)}

framebuffer_put_pixel(x, y, c) ==
  /\ x < fb.width /\ y < fb.height
  /\ Draw({Region(x, x, y, y)}, Shape(x, x, y, y), c)

\* The pitch plays no part: width * height pixels from the start.  On a
\* surface with padded rows the last rows keep what they showed.
framebuffer_clear(c) ==
  LET reached == {p \in Probes(fb) : Offset(fb, p) < fb.width * fb.height}
  IN  /\ screen' = [o \in DOMAIN screen |->
                      IF o < fb.width * fb.height THEN framebuffer_color_to_pixel(c)
                      ELSE screen[o]]
      /\ image' = [p \in DOMAIN image |-> IF p \in reached THEN c ELSE image[p]]
      /\ known' = known \cup reached
      /\ UNCHANGED <<boot, initialized, wild>>

\* The end points in order, the row inside, the right end clipped.
HLineUnclipped(x1, x2, y) ==
  IF y >= fb.height THEN {} ELSE {Region(Min({x1, x2}), Max({x1, x2}), y, y)}

HLine(x1, x2, y) ==
  IF y >= fb.height THEN {}
  ELSE {Region(Min({x1, x2}), Min({Max({x1, x2}), fb.width - 1}), y, y)}

VLine(x, y1, y2) ==
  IF x >= fb.width THEN {}
  ELSE {Region(x, x, Min({y1, y2}), Min({Max({y1, y2}), fb.height - 1}))}

framebuffer_draw_hline(x1, x2, y, c) ==
  Draw(HLine(x1, x2, y), Shape(Min({x1, x2}), Max({x1, x2}), y, y), c)

framebuffer_draw_vline(x, y1, y2, c) ==
  Draw(VLine(x, y1, y2), Shape(x, x, Min({y1, y2}), Max({y1, y2})), c)

framebuffer_draw_rect(x, y, width, height, c) ==
  LET right == x + width - 1
      bottom == y + height - 1
  IN  /\ width > 0 /\ height > 0
      /\ Draw(HLine(x, right, y) \cup HLine(x, right, bottom)
                \cup VLine(x, y, bottom) \cup VLine(right, y, bottom),
              {p \in Shape(x, right, y, bottom) :
                 p[1] \in {x, right} \/ p[2] \in {y, bottom}}, c)

framebuffer_fill_rect(x, y, width, height, c) ==
  LET columns == IF x + width > fb.width THEN fb.width - x ELSE width
      rows == IF y + height > fb.height THEN fb.height - y ELSE height
  IN  /\ width > 0 /\ height > 0 /\ x < fb.width /\ y < fb.height
      /\ Draw({Region(x, x + columns - 1, y, y + rows - 1)},
              Shape(x, x + width - 1, y, y + height - 1), c)

\* The calls the display's users make, at every edge and just past it; a clear comes
\* through the HAL (display_clear), with the colour packed.
Paint ==
  /\ initialized
  /\ \E rgb \in Colors :
       LET c == color_from_rgb(rgb)
           X == {0, fb.width - 1, fb.width}
           Y == {0, fb.height - 1, fb.height}
       IN  \/ \E x \in X, y \in Y : framebuffer_put_pixel(x, y, c)
           \/ framebuffer_clear(c)
           \/ \E x1, x2 \in X, y \in Y : framebuffer_draw_hline(x1, x2, y, c)
           \/ \E x \in X, y1, y2 \in Y : framebuffer_draw_vline(x, y1, y2, c)
           \/ \E x, width \in X, y, height \in Y :
                \/ framebuffer_draw_rect(x, y, width, height, c)
                \/ framebuffer_fill_rect(x, y, width, height, c)

Next == framebuffer_init \/ Paint

Spec == Init /\ [][Next]_dvars

-----------------------------------------------------------------------------
\* The variables have their types.
TypeOK ==
  /\ boot \in Boots
  /\ initialized \in BOOLEAN
  /\ DOMAIN screen = {Offset(boot, p) : p \in Probes(boot)}
  /\ image \in [Probes(boot) -> {color_from_rgb(c) : c \in Colors \cup {0}}]
  /\ known \subseteq Probes(boot)
  /\ wild \in BOOLEAN

\* Whatever lines, rectangles and points were drawn, clipped at whichever
\* edge, each visible pixel reads back through the HAL as the colour of the
\* last shape that contains it, a pixel next to the screen reads as black,
\* and no call wrote past the buffer.
DrawingExact ==
  /\ ~ wild
  /\ \A p \in known : display_read_pixel(p) = rgb_from_color(image[p])
  /\ display_read_pixel(<<fb.width, 0>>) = 0 /\ display_read_pixel(<<0, fb.height>>) = 0
=============================================================================
