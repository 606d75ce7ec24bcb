---------------------------- MODULE SystemMonitor ----------------------------
(***************************************************************************)
(* The system monitor (diag/sysmon.c): its loop samples the allocators,    *)
(* draws one frame of panels, gauges, bars and moving particles into a     *)
(* packed back buffer, or straight into the scanout when there is none,    *)
(* copies the buffer row by row and presents it, until a key is pressed.   *)
(*                                                                         *)
(* Surfaces have their real dimensions.  What is kept of the pixels is the *)
(* content of the probe pixels (the corners and the middle): the number of *)
(* the block drawn there last, which stands for its colour, or Glyphs      *)
(* where a line of text lies, whose bits are left out.  The layout is      *)
(* computed over the integers: a negative coordinate is a place where the  *)
(* unsigned arithmetic of the code would wrap.  A quantifier over a set of *)
(* one element names a value that is used many times.                      *)
(***************************************************************************)
EXTENDS Integers, Sequences, FiniteSets, FiniteSetsExt, SequencesExt

CONSTANTS
  Surfaces,     \* [width, height, pitch, bpp], the pitch in pixels
  Machines,     \* what the rest of the kernel may report: see sysmon_sample
  PARTICLES,    \* SYSMON_FLOW_PARTICLES
  LaneEnd,      \* where a particle leaves its lane: 1000
  Blink,        \* frames the anomaly light stays on and off: 8
  Word,         \* 2^32, the width of the counters
  MaxFrames     \* bound on the frames drawn

VARIABLES
  surface,      \* the surface that hal_display_query_surface describes
  phase,        \* "closed", "loop", "drawn", "left"
  scanout,      \* probe offset of the surface -> content
  back,         \* g_back: NULL or probe offset of the packed buffer -> content
  now, prev,    \* g_now, g_prev
  baseline,     \* g_baseline_pages
  frame,        \* the frames drawn
  flow,         \* g_flow: lane -> particle -> Idle or its place in the lane
  wild          \* a write went past the end of its buffer

svars == <<surface, phase, scanout, back, now, prev, baseline, frame, flow, wild>>

MonitorAssumption ==
  /\ \A s \in Surfaces : s.width > 0 /\ s.height > 0 /\ s.pitch >= s.width
  /\ {PARTICLES, LaneEnd, Blink, Word, MaxFrames} \subseteq Nat \ {0}

NULL == <<>>
Idle == -1
Glyphs == 0
Lanes == 0 .. 3
Particles == 0 .. PARTICLES - 1

W == surface.width
H == surface.height
Probes == ({0, W - 1} \X {0, H - 1}) \cup {<<W \div 2, H \div 2>>}
Offset(p, pitch) == p[2] * pitch + p[1]
-----------------------------------------------------------------------------
(* Blocks of pixels: x1 .. x2 of the rows y1 .. y2.                        *)

Region(x1, x2, y1, y2) == [x1 |-> x1, x2 |-> x2, y1 |-> y1, y2 |-> y2]
Nonempty(r) == r.x1 <= r.x2 /\ r.y1 <= r.y2
Inside(r, area) == r.x1 >= area.x1 /\ r.x2 <= area.x2 /\ r.y1 >= area.y1 /\ r.y2 <= area.y2
Covers(r, p) == p[1] \in r.x1 .. r.x2 /\ p[2] \in r.y1 .. r.y2

sm_fill(x, y, w, h) == <<Region(x, x + w - 1, y, y + h - 1)>>
sm_hline(x1, x2, y) == <<Region(x1, x2, y, y)>>
sm_vline(x, y1, y2) == <<Region(x, x, y1, y2)>>

sm_rect(x, y, w, h) ==
  IF w = 0 \/ h = 0 THEN <<>>
  ELSE sm_hline(x, x + w - 1, y) \o sm_hline(x, x + w - 1, y + h - 1)
       \o sm_vline(x, y, y + h - 1) \o sm_vline(x + w - 1, y, y + h - 1)

\* value / reference in thousandths, at most the whole.
sm_log_ratio(value, reference) ==
  IF reference = 0 THEN 0
  ELSE IF value >= reference THEN 1000 ELSE (value * 1000) \div reference

\* The body and its outline, the part that is full, the mark of the peak.
sm_gauge_h(x, y, w, h, ratio, peak) ==
  LET fill == IF w >= 2 THEN ((w - 2) * Min({ratio, 1000})) \div 1000 ELSE 0
  IN  sm_fill(x, y, w, h) \o sm_rect(x, y, w, h)
      \o (IF fill > 0 THEN sm_fill(x + 1, y + 1, fill, h - 2) ELSE <<>>)
      \o (IF peak > 0 /\ w >= 2
          THEN sm_vline(x + 1 + ((w - 2) * Min({peak, 1000})) \div 1000, y + 1, y + h - 2)
          ELSE <<>>)

\* A bar standing on base.
sm_bar_v(x, base, w, height) ==
  IF height = 0 \/ base < height THEN <<>> ELSE sm_fill(x, base - height, w, height)

sm_panel(x, y, w, h) == sm_fill(x, y, w, h) \o sm_hline(x, x + w - 1, y)

\* One bar for each count, in proportion to the largest.
Bars(counts, x, base, w, room) ==
  LET each == w \div Len(counts)
      most == Max(Range(counts) \cup {1})
  IN  FlattenSeq([i \in DOMAIN counts |->
        sm_bar_v(x + (i - 1) * each, base, each - 2,
                 (room * sm_log_ratio(counts[i], most)) \div 1000)])

\* The cells of n characters, and of a label of n characters with its number.
sm_text(x, y, n) == <<Region(x, x + 8 * n - 1, y, y + 15)>>
DigitCount(v) == 1 + Cardinality({k \in 1 .. 9 : v >= 10^k})
sm_label_value(x, y, n, v) == sm_text(x, y, n) \o sm_text(x + (n + 1) * 8, y, DigitCount(v))
-----------------------------------------------------------------------------
(* Sampling and the particles.                                             *)

\* An allocator or a ring that is not initialized is reported as empty.
OrNone(report, none) == IF report = NULL THEN none ELSE report

sysmon_sample(m) ==
  [m EXCEPT !.arena = OrNone(@, [used |-> 0, cap |-> 0, peak |-> 0]),
            !.pool  = OrNone(@, [free |-> 0, cap |-> 0, peak |-> 0]),
            !.stack = OrNone(@, [used |-> 0, cap |-> 0, peak |-> 0]),
            !.ring  = OrNone(@, [count |-> 0, cap |-> 0, high |-> 0,
                                 enqueue |-> 0, dequeue |-> 0])]

Excess(a, b) == IF a > b THEN a - b ELSE 0
Cap(n) == IF n = 0 THEN 1 ELSE n

\* The first idle particles of the lane start: at most eight of them.
sysmon_flow_spawn(lane, amount) ==
  LET idle == {i \in Particles : lane[i] = Idle}
      Before(i) == Cardinality({j \in idle : j < i})
  IN  [i \in Particles |-> IF i \in idle /\ Before(i) < Min({amount, 8}) THEN 0 ELSE lane[i]]

\* The speed of particle i: that of its lane, and a little more.
Speed(l, i) == <<14, 12, 9, 7>>[l + 1] + (i % 8)

\* One place on, or out at the end.
sysmon_flow_advance(l, lane) ==
  [i \in Particles |->
     IF lane[i] = Idle \/ lane[i] + Speed(l, i) >= LaneEnd THEN Idle
     ELSE lane[i] + Speed(l, i)]

\* What arrived since the last sample, or one particle now and then.
Arrivals(l, n, p, f) ==
  LET delta == CASE l = 0 -> (n.ring.enqueue - p.ring.enqueue) % Word
                 [] l = 1 -> (n.ring.dequeue - p.ring.dequeue) % Word
                 [] l = 2 -> (n.pinned_allocated - p.pinned_allocated) % Word
                 [] l = 3 -> Excess(n.small_free_blocks, p.small_free_blocks)
                               + Excess(p.small_free_blocks, n.small_free_blocks)
  IN  IF delta # 0 THEN delta ELSE IF f % <<20, 26, 45, 33>>[l + 1] = 0 THEN 1 ELSE 0

Flowed(n, p, f) ==
  [l \in Lanes |-> sysmon_flow_advance(l, sysmon_flow_spawn(flow[l], Arrivals(l, n, p, f)))]
-----------------------------------------------------------------------------
(* One frame: what is drawn, part by part, each with the area it is for.   *)

\* The measures that sysmon_draw_frame derives from the size of the surface.
Measures ==
  LET margin == W \div 40
      col_w == (W - margin * 3) \div 2
      bus_y == H - 24
      row_h == (bus_y - 12 - 26 - 12) \div 2
  IN  [margin |-> margin, col_w |-> col_w, left |-> margin,
       right |-> margin * 2 + col_w, y0 |-> 26, bus_y |-> bus_y, row_h |-> row_h,
       y2 |-> 26 + row_h + 12, step |-> (row_h - 30) \div 4]

Part(area, blocks) == [area |-> area[1], blocks |-> blocks]

PmmPanel(m, n, base, f) ==
  Part(sm_fill(m.left, m.y0, m.col_w, m.row_h),
    sm_panel(m.left, m.y0, m.col_w, m.row_h)
    \o sm_gauge_h(m.left + 8, m.y0 + 22, m.col_w - 16, 18,
                  sm_log_ratio(Excess(base, n.free_pages), Cap(base)), 0)
    \o Bars(n.buddy, m.left + 8, m.y0 + m.row_h - 14, m.col_w - 16, m.row_h - 60)
    \o (IF n.anomaly /\ (f \div Blink) % 2 = 1
        THEN sm_fill(m.left + m.col_w - 18, m.y0 + 8, 10, 10) ELSE <<>>))

HeapPanel(m, n) ==
  Part(sm_fill(m.right, m.y0, m.col_w, m.row_h),
    sm_panel(m.right, m.y0, m.col_w, m.row_h)
    \o Bars(n.size_class, m.right + 8, m.y0 + m.row_h - 14, m.col_w - 16, m.row_h - 40)
    \o FlattenSeq([d \in 1 .. Min({n.hot_loop_depth, 8}) |->
         sm_fill(m.right + m.col_w - 18, m.y0 + 8 + (d - 1) * 6, 10, 4)]))

LivePinned(n) == Excess(n.pinned_allocated, n.pinned_released)

AllocatorPanel(m, n) ==
  LET Gauge(k, used, cap, peak) ==
        sm_gauge_h(m.left + 8, m.y2 + 22 + k * m.step, m.col_w - 16, 16,
                   sm_log_ratio(used, Cap(cap)), sm_log_ratio(peak, Cap(cap)))
  IN  Part(sm_fill(m.left, m.y2, m.col_w, m.row_h),
        sm_panel(m.left, m.y2, m.col_w, m.row_h)
        \o Gauge(0, n.arena.used, n.arena.cap, n.arena.peak)
        \o Gauge(1, Excess(n.pool.cap, n.pool.free), n.pool.cap, n.pool.peak)
        \o Gauge(2, n.stack.used, n.stack.cap, n.stack.peak)
        \o Gauge(3, LivePinned(n), 64, 0))

FlowPanel(m, n, lanes) ==
  LET x == m.right + 8
      w == m.col_w - 16
      Moving(l, y) == FlattenSeq([k \in 1 .. PARTICLES |->
        IF lanes[l][k - 1] = Idle THEN <<>>
        ELSE sm_fill(x + (w * lanes[l][k - 1]) \div LaneEnd, y, 4, 4)])
      Lane(l) == LET y == m.y2 + 26 + l * m.step
                 IN  sm_hline(x, x + w - 1, y + 6) \o Moving(l, y)
  IN  Part(sm_fill(m.right, m.y2, m.col_w, m.row_h),
        sm_panel(m.right, m.y2, m.col_w, m.row_h)
        \o sm_gauge_h(x, m.y2 + 10, w, 6, sm_log_ratio(n.ring.count, Cap(n.ring.cap)),
                      sm_log_ratio(n.ring.high, Cap(n.ring.cap)))
        \o FlattenSeq([k \in 1 .. 4 |-> Lane(k - 1)]))

\* A node for each device listed, at most 48, that beats with the frames.
BusStrip(m, n, f) ==
  LET count == Min({n.pci_devices, 48})
      Node(i) ==
        LET x == m.margin + ((W - m.margin * 2) * i) \div Cap(count)
            pulse == 4 + ((f + i * 7) % 6)
        IN  sm_vline(x, m.bus_y - pulse, m.bus_y) \o sm_fill(x - 2, m.bus_y - pulse - 4, 5, 5)
  IN  Part(sm_fill(0, m.bus_y - 13, W, 14),
        sm_hline(m.margin, W - m.margin, m.bus_y)
        \o FlattenSeq([i \in 1 .. count |-> Node(i - 1)]))

\* The text, on top of everything else.
Hud(m, n, base) ==
  sm_text(m.margin, 9, 16) \o sm_text(W - m.margin - 8 * 13, 9, 13)
  \o sm_label_value(m.left + 8, m.y0 + 3, 8, Excess(base, n.free_pages))
  \o sm_label_value(m.right + 8, m.y0 + 3, 8, n.small_free_blocks)
  \o sm_label_value(m.left + 8, m.y2 - 4, 8, n.arena.used)
  \o sm_label_value(m.right + 8, m.y2 - 4, 8, n.ring.count + LivePinned(n))
  \o sm_label_value(m.margin, m.bus_y - 22, 8, n.pci_devices)

Background == Part(sm_fill(0, 0, W, H), sm_fill(0, 0, W, H) \o sm_fill(0, 0, W, 6))

sysmon_draw_frame(n, base, f, lanes) ==
  <<Background, PmmPanel(Measures, n, base, f), HeapPanel(Measures, n),
    AllocatorPanel(Measures, n), FlowPanel(Measures, n, lanes), BusStrip(Measures, n, f)>>

Blocks(parts) == FlattenSeq([k \in DOMAIN parts |-> parts[k].blocks])
-----------------------------------------------------------------------------
(* The monitor's session.                                                  *)

Init ==
  /\ surface \in Surfaces
  /\ phase = "closed"
  /\ scanout = [o \in {Offset(p, surface.pitch) : p \in Probes} |-> Glyphs]
  /\ back = NULL
  /\ now = NULL /\ prev = NULL /\ baseline = 0 /\ frame = 0
  /\ flow = [l \in Lanes |-> [i \in Particles |-> Idle]]
  /\ wild = FALSE

usable == surface.bpp = 32 /\ W >= 320 /\ H >= 240

\* The back buffer may be refused; the monitor then draws on the surface.
kernel_sysmon_run ==
  /\ phase = "closed" /\ usable
  /\ phase' = "loop"
  /\ \E double \in BOOLEAN :
       back' = IF double THEN [o \in {Offset(p, W) : p \in Probes} |-> Glyphs] ELSE NULL
  /\ \E m \in Machines :
       /\ now' = sysmon_sample(m)
       /\ prev' = now'
       /\ baseline' = Cap(now'.free_pages)
  /\ frame' = 0
  /\ flow' = [l \in Lanes |-> [i \in Particles |-> Idle]]
  /\ UNCHANGED <<surface, scanout, wild>>

\* Clipped as sm_fill and sm_pixel clip it.
Clip(r) == [r EXCEPT !.x2 = Min({@, W - 1}), !.y2 = Min({@, H - 1})]

\* Some row of r writes the offset o of a buffer with this pitch.
Hits(r, o, pitch) ==
  /\ Nonempty(r)
  /\ Max({r.y1, - ((r.x2 - o) \div pitch)}) <= Min({r.y2, (o - r.x1) \div pitch})

\* The content of a buffer after the blocks were drawn in order and the text over them.
Drawn(blocks, text, pitch, buffer) ==
  [o \in DOMAIN buffer |->
     LET hits == {k \in DOMAIN blocks : Hits(Clip(blocks[k]), o, pitch)}
     IN  IF \E k \in DOMAIN text : Hits(Clip(text[k]), o, pitch) THEN Glyphs
         ELSE IF hits = {} THEN buffer[o] ELSE Max(hits)]

Within(r, pitch) == Nonempty(r) => r.y2 * pitch + r.x2 < pitch * H

\* No key is waiting: sample, and draw one frame into g_buf, whose rows are packed in
\* the back buffer and as long as the surface's otherwise.
DrawFrame ==
  /\ phase = "loop" /\ frame < MaxFrames
  /\ phase' = "drawn"
  /\ prev' = now
  /\ \E n \in {sysmon_sample(m) : m \in Machines} :
       \E base \in {Max({baseline, n.free_pages})}, lanes \in {Flowed(n, now, frame)} :
         /\ now' = n /\ baseline' = base /\ flow' = lanes
         /\ \E blocks \in {Blocks(sysmon_draw_frame(n, base, frame, lanes))},
               text \in {Hud(Measures, n, base)},
               pitch \in {IF back = NULL THEN surface.pitch ELSE W} :
              /\ wild' = (wild \/ \E k \in DOMAIN blocks : ~ Within(Clip(blocks[k]), pitch))
              /\ IF back = NULL
                 THEN scanout' = Drawn(blocks, text, pitch, scanout) /\ UNCHANGED back
                 ELSE back' = Drawn(blocks, text, pitch, back) /\ UNCHANGED scanout
  /\ UNCHANGED <<surface, frame>>

\* Row by row, to the start of the surface's row.
Blit ==
  [o \in DOMAIN scanout |->
     LET from == Offset(<<o % surface.pitch, o \div surface.pitch>>, W) IN back[from]]

\* After the copy the frame is over; sysmon_pace only waits for the next tick.
sysmon_blit_present ==
  /\ phase = "drawn"
  /\ scanout' = IF back = NULL THEN scanout ELSE Blit
  /\ phase' = "loop"
  /\ frame' = frame + 1
  /\ UNCHANGED <<surface, back, now, prev, baseline, flow, wild>>

\* A key ends the loop; the back buffer is given back.
Leave ==
  /\ phase = "loop"
  /\ phase' = "left"
  /\ back' = NULL
  /\ UNCHANGED <<surface, scanout, now, prev, baseline, frame, flow, wild>>

Next == kernel_sysmon_run \/ DrawFrame \/ sysmon_blit_present \/ Leave

Spec == Init /\ [][Next]_svars
-----------------------------------------------------------------------------
\* The variables have their types.
TypeOK ==
  /\ surface \in Surfaces
  /\ phase \in {"closed", "loop", "drawn", "left"}
  /\ DOMAIN scanout = {Offset(p, surface.pitch) : p \in Probes}
  /\ back = NULL \/ DOMAIN back = {Offset(p, W) : p \in Probes}
  /\ {now, prev} \subseteq {NULL} \cup {sysmon_sample(m) : m \in Machines}
  /\ baseline \in Nat /\ frame \in 0 .. MaxFrames
  /\ flow \in [Lanes -> [Particles -> {Idle} \cup 0 .. LaneEnd - 1]]
  /\ wild \in BOOLEAN

\* Once a frame is presented the surface shows that frame, drawn directly or copied from
\* the packed back buffer to rows of another length: each pixel has the topmost block
\* that contains it, except under the text (sysmon.c:46-80, 336-485).
FrameShown ==
  phase = "loop" /\ frame > 0 =>
    \A blocks \in {Blocks(sysmon_draw_frame(now, baseline, frame - 1, flow))},
       text \in {Hud(Measures, now, baseline)}, p \in Probes :
      scanout[Offset(p, surface.pitch)] =
        IF \E k \in DOMAIN text : Covers(text[k], p) THEN Glyphs
        ELSE Max({k \in DOMAIN blocks : Covers(blocks[k], p)})

\* On every surface the monitor accepts and whatever it samples, the layout wraps
\* nowhere and needs no clipping: each block is non-empty and inside the area of its
\* panel, however far its particles have moved; each text is on the surface; the four
\* panels do not overlap; and nothing is written past the end of the buffer.
LayoutFits ==
  phase = "drawn" =>
    /\ ~ wild
    /\ \A text \in Range(Hud(Measures, now, baseline)) : Inside(text, Background.area)
    /\ \A parts \in {sysmon_draw_frame(now, baseline, frame, flow)} :
         /\ \A part \in Range(parts) :
              /\ Inside(part.area, Background.area)
              /\ \A r \in Range(part.blocks) : Nonempty(r) /\ Inside(r, part.area)
         /\ \A j, k \in 2 .. 5 :
              j # k => \/ parts[j].area.x2 < parts[k].area.x1
                      \/ parts[k].area.x2 < parts[j].area.x1
                      \/ parts[j].area.y2 < parts[k].area.y1
                      \/ parts[k].area.y2 < parts[j].area.y1
=============================================================================
