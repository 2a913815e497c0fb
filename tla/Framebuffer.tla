----------------------------- MODULE Framebuffer -----------------------------
(***************************************************************************)
(* The framebuffer: video.c, the file /dev/fb of devfs.c and the system    *)
(* call that shows an image.  The display reads memory, the processor      *)
(* writes to a cache whose lines reach memory when they are flushed, or    *)
(* when the cache needs the room.  A byte is one value.                    *)
(***************************************************************************)
EXTENDS Integers, Sequences, FiniteSetsExt

CONSTANTS
  Width, Height, Bpp,  \* FB_WIDTH, FB_HEIGHT, FB_BPP
  Line,                \* CACHE_BLOCK_SIZE
  FbFiles,             \* open files of /dev/fb
  Viewers,             \* the processes that call SYS_DISPLAY
  Buffers,             \* bound: what is written, sequences of bytes
  Images,              \* bound: the images shown, [w, h]; pixels are Color's
  Seeks,               \* bound: the offsets passed to lseek64
  Writes               \* bound: writes and images in a behaviour

ASSUME FramebufferAssumption ==
  /\ Width \in Nat \ {0} /\ Height \in Nat \ {0} /\ Bpp \in Nat \ {0} /\ Line \in Nat \ {0}
  /\ Buffers \subseteq Seq(Nat) /\ Seeks \subseteq Nat /\ Writes \in Nat
  /\ \A img \in Images : img.w \in Nat \ {0} /\ img.h \in Nat \ {0}

Size == Width * Height * Bpp   \* video_framebuffer_size
FbBytes == 0 .. Size - 1

VARIABLES
  cached,  \* the framebuffer as the processor sees it
  screen,  \* as the display does
  fbPos,   \* f_pos of every open file
  shows,   \* the calls of video_display under way: whose, the image, its row,
           \* and of this row the bytes copied and the lines flushed; history:
           \* the bytes of the image that are still missing
  wanted,  \* history: what was last to be shown at a byte
  unflushed, \* history: bytes copied, but not flushed, by one that ended
  writes   \* history: how often something was shown
fbVars == <<cached, screen, fbPos, shows, wanted, unflushed, writes>>

Black == 0
FbInit ==
  /\ cached = [i \in FbBytes |-> Black] /\ screen = cached /\ wanted = cached
  /\ fbPos = [h \in FbFiles |-> 0] /\ shows = {} /\ unflushed = {} /\ writes = 0

-----------------------------------------------------------------------------
(* flush_dcache: every Line bytes from the start of the first line on, the   *)
(* line that is flushed after k others, if there is one more.                *)
(* Faulty variant: from the first byte on.                                   *)
FlushFromByte(from) == from
FlushFrom(from) == from - (from % Line)
MoreLines(from, len, k) == len > 0 /\ FlushFrom(from) + k * Line < from + len
LineAfter(from, k) ==
  {i \in FbBytes : i \div Line = (FlushFrom(from) + k * Line) \div Line}
Flushed(from, len) ==
  UNION {LineAfter(from, k) : k \in {n \in 0 .. len : MoreLines(from, len, n)}}

(* What the processor has stored of B reaches memory.                        *)
Clean(B) ==
  /\ screen' = [i \in FbBytes |-> IF i \in B THEN cached'[i] ELSE screen[i]]
  /\ unflushed' = unflushed \ B

(* How much video_framebuffer_write writes, and to where.                    *)
RoomFor(from, len) == IF from >= Size THEN 0 ELSE Min({Size - from, len})
Written(from, len) == from .. from + RoomFor(from, len) - 1

(* The first n bytes of buf from the byte from on; what lies outside of the  *)
(* screen is not to be seen.                                                 *)
Stored(old, from, buf, n) ==
  [i \in FbBytes |-> IF from <= i /\ i < from + n THEN buf[i - from + 1] ELSE old[i]]

(* devfs_write, with interrupts off.  Its copy reads the caller's memory: a  *)
(* page that it may not read ends the process there, nothing being flushed.  *)
FbWrite(h, buf) ==
  LET from == fbPos[h]
      room == RoomFor(from, Len(buf))
  IN  /\ writes < Writes /\ writes' = writes + 1
      /\ cached' = Stored(cached, from, buf, room)
      /\ wanted' = Stored(wanted, from, buf, Len(buf))
      /\ Clean(Flushed(from, room))
      /\ fbPos' = [fbPos EXCEPT ![h] = @ + room]
      /\ UNCHANGED shows
FbWriteEnds(h, buf, n) ==
  LET from == fbPos[h]
  IN  /\ n < RoomFor(from, Len(buf))
      /\ writes < Writes /\ writes' = writes + 1
      /\ cached' = Stored(cached, from, buf, n)
      /\ wanted' = Stored(wanted, from, buf, n)
      /\ unflushed' = unflushed \cup Written(from, n)
      /\ UNCHANGED <<screen, fbPos, shows>>
(* devfs_lseek64.                                                            *)
FbLseek(h, offset) ==
  /\ offset <= Size /\ fbPos' = [fbPos EXCEPT ![h] = offset]
  /\ UNCHANGED <<cached, screen, shows, wanted, unflushed, writes>>

(* A line the cache gives up is written to memory.                           *)
Evict(l) ==
  /\ UNCHANGED <<cached, fbPos, shows, wanted, writes>>
  /\ Clean({i \in FbBytes : i \div Line = l})

-----------------------------------------------------------------------------
(* video_display: the rows of the image, or of what fits of it, are written  *)
(* one by one, with interrupts on: another process may write to the screen   *)
(* after any byte that is copied and any line that is flushed.               *)
(* The byte b of the pixel (x, y) of the image is Color(x, y, b).            *)
Color(x, y, b) == 1 + x + 4 * y + 16 * b
Margin(full, part) == (full - part) \div 2
CopyW(img) == Min({img.w, Width})
CopyH(img) == Min({img.h, Height})
From(img, y) ==
  ((Margin(Height, CopyH(img)) + y) * Width + Margin(Width, CopyW(img))) * Bpp
RowByte(img, y, n) ==
  Color(Margin(img.w, CopyW(img)) + n \div Bpp, Margin(img.h, CopyH(img)) + y, n % Bpp)
RowLen(img) == CopyW(img) * Bpp
RowRoom(img, y) == RoomFor(From(img, y), RowLen(img))

(* The pixel of an image in the middle of which lies the middle of the       *)
(* screen, to within a pixel on the left and above; where an image is to be  *)
(* seen, and what of it.                                                     *)
Centred(full, part, x) ==
  {i \in 0 .. part - 1 : LET off == (2 * i + 1 - part) - (2 * x + 1 - full)
                         IN  IF part < full THEN off \in {0, 1} ELSE off \in {0, -1}}
Column(img, i) == Centred(Width, img.w, (i \div Bpp) % Width)
Row(img, i) == Centred(Height, img.h, (i \div Bpp) \div Width)
Picture(img) == {i \in FbBytes : Column(img, i) # {} /\ Row(img, i) # {}}
Shown(img, i) == Color(Min(Column(img, i)), Min(Row(img, i)), i % Bpp)

VideoDisplay(p, img) ==
  /\ \A j \in shows : j.by # p
  /\ writes < Writes /\ writes' = writes + 1
  /\ shows' = shows \cup {[by |-> p, img |-> img, y |-> 0, copied |-> 0, flushed |-> 0,
                           missing |-> Picture(img)]}
  /\ UNCHANGED <<cached, screen, fbPos, wanted, unflushed>>

GoesOn(j, k) == shows' = (shows \ {j}) \cup {k}
CopyByte(j) ==
  LET i == From(j.img, j.y) + j.copied
  IN  /\ j.y < CopyH(j.img) /\ j.copied < RowRoom(j.img, j.y)
      /\ cached' = [cached EXCEPT ![i] = RowByte(j.img, j.y, j.copied)]
      /\ wanted' = IF i \in Picture(j.img) THEN [wanted EXCEPT ![i] = Shown(j.img, i)] ELSE wanted
      /\ GoesOn(j, [j EXCEPT !.copied = @ + 1, !.missing = @ \ {i}])
      /\ UNCHANGED <<screen, fbPos, unflushed, writes>>
FlushLine(j) ==
  /\ j.y < CopyH(j.img) /\ j.copied = RowRoom(j.img, j.y)
  /\ MoreLines(From(j.img, j.y), j.copied, j.flushed)
  /\ GoesOn(j, [j EXCEPT !.flushed = @ + 1])
  /\ UNCHANGED <<cached, fbPos, wanted, writes>>
  /\ Clean(LineAfter(From(j.img, j.y), j.flushed))
NextRow(j) ==
  /\ j.y < CopyH(j.img) /\ j.copied = RowRoom(j.img, j.y)
  /\ ~MoreLines(From(j.img, j.y), j.copied, j.flushed)
  /\ GoesOn(j, [j EXCEPT !.y = @ + 1, !.copied = 0, !.flushed = 0])
  /\ UNCHANGED <<cached, screen, fbPos, wanted, unflushed, writes>>

(* What a call has copied of its row and not flushed yet.                    *)
Pending(j) ==
  {i \in From(j.img, j.y) .. From(j.img, j.y) + j.copied - 1 :
     \A k \in 0 .. j.flushed - 1 : i \notin LineAfter(From(j.img, j.y), k)}
DisplayReturns(j) ==
  /\ j.y = CopyH(j.img) /\ shows' = shows \ {j}
  /\ UNCHANGED <<cached, screen, fbPos, wanted, unflushed, writes>>
(* The process is ended by a signal or by another, or reads what it may not. *)
DisplayEnds(j) ==
  /\ shows' = shows \ {j} /\ unflushed' = unflushed \cup Pending(j)
  /\ UNCHANGED <<cached, screen, fbPos, wanted, writes>>

FbNext ==
  \/ \E h \in FbFiles :
       \/ \E buf \in Buffers :
            \/ FbWrite(h, buf)
            \/ \E n \in 0 .. Len(buf) - 1 : FbWriteEnds(h, buf, n)
       \/ \E offset \in Seeks : FbLseek(h, offset)
  \/ \E l \in 0 .. (Size - 1) \div Line : Evict(l)
  \/ \E p \in Viewers, img \in Images : VideoDisplay(p, img)
  \/ \E j \in shows :
       CopyByte(j) \/ FlushLine(j) \/ NextRow(j) \/ DisplayReturns(j) \/ DisplayEnds(j)
FbSpec == FbInit /\ [][FbNext]_fbVars

-----------------------------------------------------------------------------
(* Every byte of the screen shows what the last to write it was to show      *)
(* there, unless a call of video_display that has copied it is about to      *)
(* flush it, or was ended before it could; and when video_display is through *)
(* its rows, no byte of the image is missing.  This holds for writes that    *)
(* end in the middle of a cache line or reach past the end, for images       *)
(* smaller or larger than the screen, which appear in its middle, and for    *)
(* calls that write over one another.                                        *)
ScreenCurrent ==
  /\ \A i \in FbBytes :
       screen[i] = wanted[i] \/ i \in unflushed \/ \E j \in shows : i \in Pending(j)
  /\ \A j \in shows : j.y = CopyH(j.img) => j.missing = {}
=============================================================================
