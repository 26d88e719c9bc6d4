-------------------------------- MODULE Vosf --------------------------------
(***************************************************************************)
(* Video on SEGV signals, from a 68k store to the window (video_vosf.h and *)
(* video_sdl2.cpp, window mode).                                           *)
(*                                                                         *)
(* The Mac frame buffer is write-protected.  The first store to a page     *)
(* faults; Screen_fault_handler marks the page and makes it writable.  The *)
(* redraw thread protects the marked pages again and copies their lines to *)
(* the guest surface; the emulator thread presents the part of the surface *)
(* that changed at the next VideoInterrupt.                                *)
(*                                                                         *)
(* Three locks are held across steps, each by the thread whose control     *)
(* point says so: LOCK_VOSF, LOCK_PALETTE and sdl_update_video_mutex.      *)
(* Pixels are not modelled, only which of them are out of date.  The two   *)
(* guards at the end of dirtyPages are not: they end the search of a loop  *)
(* that FindRun states with quantifiers.  SDL's calls are taken to succeed *)
(* (present_sdl_video returns early when one fails: before it has emptied  *)
(* the rectangle, which then waits for the next call, or, when             *)
(* SDL_RenderCopy fails, after it).                                        *)
(***************************************************************************)
EXTENDS Integers

CONSTANTS
  PageSize,   \* bytes in a page of memory
  RowBytes,   \* bytes in a line of the screen
  Height,     \* lines of the screen
  BufferSize  \* bytes of the frame buffer, which is larger than the screen

ASSUME ScreenAssumption ==
  /\ PageSize \in Nat \ {0} /\ RowBytes \in Nat \ {0} /\ Height \in Nat \ {0}
  /\ BufferSize \in Nat /\ BufferSize >= RowBytes * Height

VARIABLES
  dirtyPages,   \* the pages that are SET
  dirty,        \* mainBuffer.dirty
  writable,     \* the pages that are not write-protected
  stale,        \* bytes of the screen that the guest surface does not show
  unpresented,  \* lines of the guest surface that the window does not show
  rect,         \* lines from the first to the last of sdl_update_video_rect
  paletteChanged,  \* sdl_palette_changed
  epc,          \* control point of the emulator thread
  addr,         \* the byte whose store has faulted, or 0
  rpc,          \* control point of the redraw thread
  page,         \* the page from which it searches
  top, bottom,  \* the lines of the run of pages that it copies
  line          \* the next of them

bufferVars == <<dirtyPages, dirty, writable>>
screenVars == <<stale, unpresented, rect, paletteChanged>>
emulVars == <<epc, addr>>
redrawVars == <<rpc, page, top, bottom, line>>
vars == <<bufferVars, screenVars, emulVars, redrawVars>>

-----------------------------------------------------------------------------
(* video_vosf_init *)

Byte == 0..(BufferSize - 1)
ScreenByte == 0..(RowBytes * Height - 1)
Line == 0..(Height - 1)
PageOf(b) == b \div PageSize
LineOf(b) == b \div RowBytes
pageCount == (BufferSize + PageSize - 1) \div PageSize
Page == 0..(pageCount - 1)

\* Fault: the last page reaches below the screen
BelowScreen(y) == y

\* pageInfo: pages that share a line both name it
OnScreen(y) == IF y >= Height THEN Height - 1 ELSE y
PageTop(p) == OnScreen((p * PageSize) \div RowBytes)
\* Fault: only the line in which the page begins
FirstLine(p) == OnScreen((p * PageSize) \div RowBytes)
PageBottom(p) == OnScreen(((p + 1) * PageSize) \div RowBytes)

EmulPC == {"run", "fault", "retry", "palette", "convert", "reset"}
RedrawPC == {"sleep", "refresh", "scan", "blit", "update", "palette", "set_palette"}

TypeOK ==
  /\ dirtyPages \subseteq Page
  /\ dirty \in BOOLEAN
  /\ writable \subseteq Page
  /\ stale \subseteq ScreenByte
  /\ unpresented \subseteq Line
  /\ rect \subseteq Line
  /\ paletteChanged \in BOOLEAN
  /\ epc \in EmulPC
  /\ addr \in Byte
  /\ rpc \in RedrawPC
  /\ page \in 0..pageCount
  /\ top \in Line /\ bottom \in Line
  /\ line \in 0..Height

Init ==
  /\ dirtyPages = {} /\ writable = {}
  /\ dirty = FALSE
  /\ stale = {} /\ unpresented = {} /\ rect = {}
  /\ paletteChanged = FALSE
  /\ epc = "run" /\ addr = 0
  /\ rpc = "sleep" /\ page = 0
  /\ top = 0 /\ bottom = 0 /\ line = 0

\* The locks
VosfIsFree == rpc \notin {"scan", "blit", "update"}
PaletteIsFree == epc \notin {"palette", "convert"} /\ rpc # "set_palette"
UpdateIsFree == epc # "reset"

\* SDL_UnionRect: the smallest interval of lines that contains both
UnionRect(r, s) ==
  {l \in Line : \E a \in r \cup s, b \in r \cup s : a <= l /\ l <= b}

-----------------------------------------------------------------------------
(* The emulator thread *)

\* The store of a byte to a page that is writable
Store(b) ==
  /\ \/ epc = "run"
     \/ epc = "retry" /\ addr = b
  /\ PageOf(b) \in writable
  /\ stale' = stale \cup ({b} \cap ScreenByte)
  /\ epc' = "run"
  /\ addr' = 0
  /\ UNCHANGED <<bufferVars, unpresented, rect, paletteChanged, redrawVars>>

\* The store faults
Fault(b) ==
  /\ \/ epc = "run"
     \/ epc = "retry" /\ addr = b
  /\ PageOf(b) \notin writable
  /\ addr' = b
  /\ epc' = "fault"
  /\ UNCHANGED <<bufferVars, screenVars, redrawVars>>

\* Fault: the handler does not say that the buffer was touched
HandleQuietly ==
  /\ epc = "fault"
  /\ VosfIsFree
  /\ dirtyPages' = dirtyPages \cup {PageOf(addr)}
  /\ writable' = writable \cup ({PageOf(addr)} \ dirtyPages)
  /\ epc' = "retry"
  /\ UNCHANGED <<dirty, screenVars, addr, redrawVars>>

\* Fault: the handler does not make the page writable
HandleProtected ==
  /\ epc = "fault"
  /\ VosfIsFree
  /\ dirtyPages' = dirtyPages \cup {PageOf(addr)}
  /\ dirty' = TRUE
  /\ epc' = "retry"
  /\ UNCHANGED <<writable, screenVars, addr, redrawVars>>

\* Screen_fault_handler.  A page that is SET is left alone, protected or not.
HandleFault ==
  /\ epc = "fault"
  /\ VosfIsFree
  /\ dirtyPages' = dirtyPages \cup {PageOf(addr)}
  /\ writable' = writable \cup ({PageOf(addr)} \ dirtyPages)
  /\ dirty' = TRUE
  /\ epc' = "retry"
  /\ UNCHANGED <<screenVars, addr, redrawVars>>

\* vosf_set_dirty_area: native QuickDraw is about to draw
SetDirtyArea(first, last) ==
  LET area == PageOf(first)..PageOf(last) IN
  /\ epc = "run"
  /\ VosfIsFree
  /\ dirtyPages' = dirtyPages \cup area
  /\ writable' = writable \cup (area \ dirtyPages)
  /\ dirty' = TRUE
  /\ UNCHANGED <<screenVars, emulVars, redrawVars>>

\* PFLAG_SET_ALL: the pages become SET, but not writable
SetAll == dirtyPages' = Page /\ dirty' = TRUE

\* set_palette: the colors of all pixels change, those that are copied with
\* ExpandMap and those that SDL converts
SetColors ==
  /\ epc = "run"
  /\ PaletteIsFree
  /\ stale' = ScreenByte
  /\ unpresented' = Line
  /\ epc' = "palette"
  /\ UNCHANGED <<bufferVars, rect, paletteChanged, addr, redrawVars>>

\* ... everything is to be redrawn, and the redraw thread told
PaletteSet ==
  /\ epc = "palette"
  /\ VosfIsFree
  /\ SetAll
  /\ paletteChanged' = TRUE
  /\ epc' = "run"
  /\ UNCHANGED <<writable, stale, unpresented, rect, addr, redrawVars>>

\* VideoInterrupt: present_sdl_video finds a rectangle and takes LOCK_PALETTE
Present ==
  /\ epc = "run"
  /\ rect # {}
  /\ PaletteIsFree
  /\ epc' = "convert"
  /\ UNCHANGED <<bufferVars, screenVars, addr, redrawVars>>

\* The changed lines go to the window; LOCK_PALETTE is released
Convert ==
  /\ epc = "convert"
  /\ UpdateIsFree
  /\ unpresented' = unpresented \ rect
  /\ epc' = "reset"
  /\ UNCHANGED <<bufferVars, stale, rect, paletteChanged, addr, redrawVars>>

ResetRect ==
  /\ epc = "reset"
  /\ rect' = {}
  /\ epc' = "run"
  /\ UNCHANGED <<bufferVars, stale, unpresented, paletteChanged, addr, redrawVars>>

-----------------------------------------------------------------------------
(* The redraw thread *)

\* handle_events finds the window exposed: force_complete_window_refresh
Expose ==
  /\ rpc = "sleep"
  /\ SetAll
  /\ stale' = ScreenByte
  /\ rpc' = "refresh"
  /\ UNCHANGED <<writable, unpresented, rect, paletteChanged, emulVars, page, top, bottom, line>>

\* video_refresh_window_vosf tests the flag, then takes the lock
Refresh ==
  /\ rpc \in {"sleep", "refresh"}
  /\ rpc' = IF dirty THEN "scan" ELSE "palette"
  /\ UNCHANGED <<bufferVars, screenVars, emulVars, page, top, bottom, line>>

\* The next pages that are SET, from the first to the last in a row
IsRun(first, last) ==
  /\ first \in page..last
  /\ (page..(first - 1)) \cap dirtyPages = {}
  /\ first..last \subseteq dirtyPages
  /\ last + 1 \notin dirtyPages

\* update_display_window_vosf: the pages are CLEAR and protected before their
\* lines are copied
FindRun(first, last) ==
  /\ rpc = "scan"
  /\ IsRun(first, last)
  /\ dirtyPages' = dirtyPages \ (first..last)
  /\ writable' = writable \ (first..last)
  /\ page' = last + 1
  /\ top' = PageTop(first)
  /\ line' = PageTop(first)
  /\ bottom' = PageBottom(last)
  /\ rpc' = "blit"
  /\ UNCHANGED <<dirty, screenVars, emulVars>>

\* Screen_blit
BlitLine ==
  /\ rpc = "blit"
  /\ stale' = {b \in stale : LineOf(b) # line}
  /\ unpresented' = unpresented \cup {line}
  /\ line' = line + 1
  /\ rpc' = IF line = bottom THEN "update" ELSE "blit"
  /\ UNCHANGED <<bufferVars, rect, paletteChanged, emulVars, page, top, bottom>>

\* Fault: the rectangle is replaced
ReplaceRect ==
  /\ rpc = "update"
  /\ UpdateIsFree
  /\ rect' = top..bottom
  /\ rpc' = "scan"
  /\ top' = 0 /\ bottom' = 0 /\ line' = 0
  /\ UNCHANGED <<bufferVars, stale, unpresented, paletteChanged, emulVars, page>>

\* update_sdl_video
UpdateRect ==
  /\ rpc = "update"
  /\ UpdateIsFree
  /\ rect' = UnionRect(rect, top..bottom)
  /\ rpc' = "scan"
  /\ top' = 0 /\ bottom' = 0 /\ line' = 0
  /\ UNCHANGED <<bufferVars, stale, unpresented, paletteChanged, emulVars, page>>

\* No page is left: the lock is released
ScanDone ==
  /\ rpc = "scan"
  /\ (page..(pageCount - 1)) \cap dirtyPages = {}
  /\ dirty' = FALSE
  /\ page' = 0
  /\ rpc' = "palette"
  /\ UNCHANGED <<dirtyPages, writable, screenVars, emulVars, top, bottom, line>>

\* handle_palette_changes
TestPalette ==
  /\ rpc = "palette"
  /\ PaletteIsFree
  /\ paletteChanged' = FALSE
  /\ rpc' = IF paletteChanged THEN "set_palette" ELSE "sleep"
  /\ UNCHANGED <<bufferVars, stale, unpresented, rect, emulVars, page, top, bottom, line>>

\* update_palette
UpdatePalette ==
  /\ rpc = "set_palette"
  /\ UpdateIsFree
  /\ rect' = Line
  /\ rpc' = "sleep"
  /\ UNCHANGED <<bufferVars, stale, unpresented, paletteChanged, emulVars, page, top, bottom, line>>

-----------------------------------------------------------------------------

EmulatorThread ==
  \/ \E b \in Byte : Store(b) \/ Fault(b)
  \/ HandleFault
  \/ \E first, last \in ScreenByte : first <= last /\ SetDirtyArea(first, last)
  \/ SetColors \/ PaletteSet
  \/ Present \/ Convert \/ ResetRect

VideoRefresh ==
  \/ Refresh
  \/ \E first, last \in Page : FindRun(first, last)
  \/ BlitLine \/ UpdateRect \/ ScanDone
  \/ TestPalette \/ UpdatePalette

Next == EmulatorThread \/ Expose \/ VideoRefresh

Spec == Init /\ [][Next]_vars

(***************************************************************************)
(* Fairness.  Both threads are scheduled, and none is always too late for  *)
(* a lock.  The emulator thread keeps being interrupted at 60Hz and        *)
(* presents what has changed.  The redraw thread sleeps for the rest of a  *)
(* frame before each refresh, time enough for the emulator thread to       *)
(* handle a fault and to retry the store.                                  *)
(***************************************************************************)
Fairness ==
  /\ SF_vars(VideoRefresh)
  /\ SF_vars(epc # "run" /\ EmulatorThread)
  /\ SF_vars(Present)
  /\ SF_vars(rpc = "sleep" /\ HandleFault)
  /\ SF_vars(rpc = "sleep" /\ epc = "retry" /\ Fault(addr))
  /\ SF_vars(epc = "retry" /\ Store(addr))

FairSpec == Spec /\ Fairness

-----------------------------------------------------------------------------

\* A byte that the surface does not show is not forgotten: its page is SET, or
\* the redraw thread has its line still to copy, or set_palette is about to
\* set every page (Screen_fault_handler, update_display_window_vosf).
NoStaleByte ==
  \A b \in stale :
    \/ PageOf(b) \in dirtyPages
    \/ rpc = "blit" /\ LineOf(b) \in line..bottom
    \/ epc = "palette"

\* A line that the window does not show is not forgotten: it is in the
\* rectangle, which present_sdl_video is not about to empty, or the redraw
\* thread is about to add it, or has still to hear of new colors.
NoLostUpdate ==
  \A l \in unpresented :
    \/ l \in rect /\ epc # "reset"
    \/ rpc \in {"blit", "update"} /\ l \in top..bottom
    \/ paletteChanged \/ epc = "palette" \/ rpc = "set_palette"

\* A store returns from its faults, though a page that PFLAG_SET_ALL marked
\* stays protected until the redraw thread has been there.
StoreReturns == (epc = "fault") ~> (epc = "run")

\* What is stored in the frame buffer is copied to the surface and presented
\* in the window.
PixelsReachWindow ==
  /\ \A b \in ScreenByte : (b \in stale) ~> (b \notin stale)
  /\ \A l \in Line : (l \in unpresented) ~> (l \notin unpresented)
=============================================================================
