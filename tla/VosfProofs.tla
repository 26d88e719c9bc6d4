----------------------------- MODULE VosfProofs -----------------------------
(***************************************************************************)
(* Proofs about module Vosf, for every size of page, line, screen and      *)
(* frame buffer: nothing that is stored in the frame buffer is forgotten   *)
(* on its way to the window.                                               *)
(*                                                                         *)
(* A page that is writable is SET, so that a store to a CLEAR page faults. *)
(* The other idea is about lines: those of a byte lie between the top and  *)
(* the bottom of its page, and tops and bottoms grow with the page, so a   *)
(* run of pages covers the lines of all the bytes in it.                   *)
(***************************************************************************)
EXTENDS Vosf, TLAPS

\* A store to a page that is CLEAR cannot pass unnoticed.
ClearIsProtected == writable \subseteq dirtyPages

\* The redraw thread is inside its run of lines.
LineInv == rpc = "blit" => line \in top..bottom

\* The pages that the redraw thread has passed are CLEAR, and a page that is
\* SET has made the buffer dirty.
DirtyInv ==
  /\ IF rpc \in {"scan", "blit", "update"}
     THEN \A p \in dirtyPages : p >= page
     ELSE page = 0
  /\ dirtyPages # {} => dirty

Inv == TypeOK /\ ClearIsProtected /\ LineInv /\ DirtyInv /\ NoStaleByte /\ NoLostUpdate

-----------------------------------------------------------------------------
(* Pages and lines *)

LEMMA Division ==
  ASSUME NEW a \in Nat, NEW n \in Nat \ {0}
  PROVE  /\ a \div n \in Nat
         /\ n * (a \div n) <= a
         /\ a < n * (a \div n) + n
BY SMT

LEMMA Quotient ==
  ASSUME NEW a \in Nat, NEW n \in Nat \ {0}, NEW q \in Nat, n * q <= a
  PROVE  q <= a \div n
<1>1. /\ a \div n \in Nat
      /\ a < n * (a \div n) + n
  BY Division
<1>2. SUFFICES ASSUME a \div n < q PROVE FALSE
  BY <1>1
<1> DEFINE d == a \div n
<1>3. d \in Nat /\ d + 1 <= q /\ a < n * d + n
  BY <1>1, <1>2
<1> HIDE DEF d
<1>4. n * (d + 1) <= n * q
  BY <1>3
<1>5. n * (d + 1) = n * d + n
  BY <1>3
<1> QED BY <1>3, <1>4, <1>5

LEMMA Monotone ==
  ASSUME NEW a \in Nat, NEW b \in Nat, a <= b, NEW n \in Nat \ {0}
  PROVE  a \div n <= b \div n
<1>1. a \div n \in Nat /\ n * (a \div n) <= a
  BY Division
<1> DEFINE d == a \div n
<1>2. d \in Nat /\ n * d <= b
  BY <1>1
<1> HIDE DEF d
<1>3. d <= b \div n
  BY <1>2, Quotient
<1> QED BY <1>3 DEF d

LEMMA PageCount == pageCount \in Nat
<1> DEFINE n == BufferSize + PageSize - 1
<1>1. n \in Nat /\ PageSize \in Nat \ {0}
  BY ScreenAssumption
<1> HIDE DEF n
<1>2. n \div PageSize \in Nat
  BY <1>1, Division
<1> QED BY <1>2 DEF pageCount, n

\* Every byte of the screen is in the buffer, and every byte of the buffer in a
\* page.
LEMMA ScreenBytes == ScreenByte \subseteq Byte
BY ScreenAssumption DEF ScreenByte, Byte

LEMMA Pages ==
  ASSUME NEW b \in Byte PROVE PageOf(b) \in Page
<1>1. b \in Nat /\ b <= BufferSize - 1 /\ PageSize \in Nat \ {0} /\ BufferSize \in Nat
  BY ScreenAssumption DEF Byte
<1>2. /\ b \div PageSize \in Nat
      /\ PageSize * (b \div PageSize) <= b
  BY <1>1, Division
<1> DEFINE q == (b \div PageSize) + 1
<1>3. q \in Nat /\ PageSize * q = PageSize * (b \div PageSize) + PageSize
  BY <1>1, <1>2
<1>4. PageSize * q <= BufferSize + PageSize - 1
  BY <1>1, <1>2, <1>3
<1> DEFINE n == BufferSize + PageSize - 1
<1>5. n \in Nat
  BY <1>1
<1> HIDE DEF q, n
<1>6. q <= n \div PageSize
  BY <1>1, <1>3, <1>4, <1>5, Quotient DEF n
<1> QED BY <1>2, <1>6, PageCount DEF PageOf, Page, pageCount, q, n

LEMMA Lines ==
  ASSUME NEW b \in ScreenByte PROVE LineOf(b) \in Line
<1>1. b \in Nat /\ b < RowBytes * Height /\ RowBytes \in Nat \ {0} /\ Height \in Nat \ {0}
  BY ScreenAssumption DEF ScreenByte
<1>2. b \div RowBytes \in Nat /\ RowBytes * (b \div RowBytes) <= b
  BY <1>1, Division
<1> DEFINE d == b \div RowBytes
<1>3. d \in Nat /\ RowBytes * d < RowBytes * Height
  BY <1>1, <1>2
<1> HIDE DEF d
<1>4. d < Height
  <2>1. SUFFICES ASSUME Height <= d PROVE FALSE
    BY <1>1, <1>3
  <2>2. RowBytes * Height <= RowBytes * d
    BY <1>1, <1>3, <2>1
  <2>3. RowBytes * Height \in Nat /\ RowBytes * d \in Nat
    BY <1>1, <1>3
  <2> DEFINE x == RowBytes * Height
             y == RowBytes * d
  <2>4. x \in Nat /\ y \in Nat /\ x <= y /\ y < x
    BY <1>3, <2>2, <2>3
  <2> HIDE DEF x, y
  <2> QED BY <2>4
<1> QED BY <1>1, <1>3, <1>4 DEF LineOf, Line, d

\* The first and last line of a page are on the screen.
LEMMA PageLines ==
  ASSUME NEW p \in Page
  PROVE  PageTop(p) \in Line /\ PageBottom(p) \in Line
<1>1. p \in Nat /\ PageSize \in Nat \ {0} /\ RowBytes \in Nat \ {0}
  BY ScreenAssumption, PageCount DEF Page
<1> DEFINE a == p * PageSize
           z == (p + 1) * PageSize
<1>2. a \in Nat /\ z \in Nat
  BY <1>1
<1> HIDE DEF a, z
<1>3. a \div RowBytes \in Nat /\ z \div RowBytes \in Nat
  BY <1>1, <1>2, Division
<1>4. \A y \in Nat : OnScreen(y) \in Line
  BY ScreenAssumption DEF OnScreen, Line
<1> QED BY <1>3, <1>4 DEF PageTop, PageBottom, a, z

\* The lines of a run of pages are in order.
LEMMA RunLines ==
  ASSUME NEW first \in Page, NEW last \in Page, first <= last
  PROVE  PageTop(first) <= PageBottom(last)
<1> DEFINE a == first * PageSize
           z == (last + 1) * PageSize
<1>1. /\ PageSize \in Nat \ {0} /\ RowBytes \in Nat \ {0} /\ Height \in Nat \ {0}
      /\ first \in Nat /\ last \in Nat
  BY ScreenAssumption, PageCount DEF Page
<1>2. a \in Nat /\ z \in Nat
  BY <1>1
<1>3. a <= z
  <2>1. PageSize * first <= PageSize * last
    BY <1>1
  <2>2. z = PageSize * last + PageSize /\ a = PageSize * first
    BY <1>1
  <2> QED BY <1>1, <1>2, <2>1, <2>2
<1> HIDE DEF a, z
<1>4. /\ a \div RowBytes \in Nat /\ z \div RowBytes \in Nat
      /\ a \div RowBytes <= z \div RowBytes
  BY <1>1, <1>2, <1>3, Division, Monotone
<1> QED
  BY <1>1, <1>4 DEF PageTop, PageBottom, OnScreen, a, z

\* A run of pages covers the lines of the bytes in it: what
\* update_display_window_vosf copies.
LEMMA RunCoversLines ==
  ASSUME NEW first \in Page, NEW last \in Page,
         NEW b \in ScreenByte, PageOf(b) \in first..last
  PROVE  LineOf(b) \in PageTop(first)..PageBottom(last)
<1> DEFINE p == PageOf(b)
           a == first * PageSize
           z == (last + 1) * PageSize
<1>1. /\ PageSize \in Nat \ {0} /\ RowBytes \in Nat \ {0} /\ Height \in Nat \ {0}
      /\ b \in Nat /\ first \in Nat /\ last \in Nat
  BY ScreenAssumption, PageCount DEF ScreenByte, Page
<1>2. /\ p \in Nat /\ first <= p /\ p <= last
      /\ PageSize * p <= b
      /\ b < PageSize * p + PageSize
  BY <1>1, Division DEF PageOf
<1> HIDE DEF p
<1>3. a \in Nat /\ a <= b
  <2>1. PageSize * first <= PageSize * p
    BY <1>1, <1>2
  <2> QED BY <1>1, <1>2, <2>1
<1>4. z \in Nat /\ b <= z
  <2>1. PageSize * p <= PageSize * last
    BY <1>1, <1>2
  <2>2. z = PageSize * last + PageSize
    BY <1>1
  <2> QED BY <1>1, <1>2, <2>1, <2>2
<1> HIDE DEF a, z
<1>5. a \div RowBytes <= b \div RowBytes /\ b \div RowBytes <= z \div RowBytes
  BY <1>1, <1>3, <1>4, Monotone
<1>6. a \div RowBytes \in Nat /\ z \div RowBytes \in Nat
  BY <1>1, <1>3, <1>4, Division
<1>7. LineOf(b) \in Line
  BY Lines
<1> QED
  BY <1>1, <1>5, <1>6, <1>7 DEF LineOf, Line, PageTop, PageBottom, OnScreen, a, z

\* SDL_UnionRect forgets no line.
LEMMA UnionCovers ==
  ASSUME NEW r, NEW s, r \subseteq Line, s \subseteq Line
  PROVE  r \cup s \subseteq UnionRect(r, s) /\ UnionRect(r, s) \subseteq Line
BY ScreenAssumption DEF UnionRect, Line

-----------------------------------------------------------------------------
(* The invariant, conjunct by conjunct *)

LEMMA TypeStep ==
  ASSUME TypeOK, LineInv, [Next]_vars PROVE TypeOK'
<1> USE ScreenAssumption DEF TypeOK, LineInv, EmulPC, RedrawPC,
           bufferVars, screenVars, emulVars, redrawVars, vars
<1>1. ASSUME NEW b \in Byte, Store(b) PROVE TypeOK'
  BY <1>1 DEF Store, Byte
<1>2. ASSUME NEW b \in Byte, Fault(b) PROVE TypeOK'
  BY <1>2 DEF Fault
<1>3. CASE HandleFault
  BY <1>3, Pages DEF HandleFault
<1>4. ASSUME NEW first \in ScreenByte, NEW last \in ScreenByte,
            first <= last, SetDirtyArea(first, last)
     PROVE  TypeOK'
  <2>1. PageOf(first) \in Page /\ PageOf(last) \in Page
    BY Pages, ScreenBytes
  <2>2. PageOf(first)..PageOf(last) \subseteq Page
    BY <2>1, PageCount DEF Page
  <2>3. dirty' \in BOOLEAN
    BY <1>4 DEF SetDirtyArea
  <2>4. dirtyPages' \subseteq Page /\ writable' \subseteq Page
    BY <1>4, <2>2 DEF SetDirtyArea
  <2> QED BY <1>4, <2>3, <2>4 DEF SetDirtyArea
<1>5. CASE SetColors
  BY <1>5 DEF SetColors
<1>6. CASE PaletteSet
  BY <1>6 DEF PaletteSet, SetAll
<1>7. CASE Present
  BY <1>7 DEF Present
<1>8. CASE Convert
  BY <1>8 DEF Convert
<1>9. CASE ResetRect
  BY <1>9 DEF ResetRect
<1>10. CASE Expose
  BY <1>10 DEF Expose, SetAll
<1>11. CASE Refresh
  BY <1>11 DEF Refresh
<1>12. ASSUME NEW first \in Page, NEW last \in Page, FindRun(first, last)
     PROVE  TypeOK'
  BY <1>12, PageLines, PageCount DEF FindRun, IsRun, Page, Line
<1>13. CASE BlitLine
  BY <1>13 DEF BlitLine, Line
<1>14. CASE UpdateRect
  <2>1. top..bottom \subseteq Line
    BY DEF Line
  <2>2. UnionRect(rect, top..bottom) \subseteq Line
    BY DEF UnionRect
  <2>4. rect' \subseteq Line
    BY <1>14, <2>2 DEF UpdateRect
  <2>3. top' \in Line /\ bottom' \in Line /\ line' \in 0..Height
    BY <1>14 DEF UpdateRect, Line
  <2> QED BY <1>14, <2>3, <2>4 DEF UpdateRect
<1>15. CASE ScanDone
  <2>1. dirty' \in BOOLEAN
    BY <1>15 DEF ScanDone
  <2>2. page' \in 0..pageCount
    BY <1>15, PageCount DEF ScanDone
  <2> QED BY <1>15, <2>1, <2>2 DEF ScanDone
<1>16. CASE TestPalette
  BY <1>16 DEF TestPalette
<1>17. CASE UpdatePalette
  BY <1>17 DEF UpdatePalette
<1>18. CASE UNCHANGED vars
  BY <1>18
<1> QED
  BY <1>1, <1>2, <1>3, <1>4, <1>5, <1>6, <1>7, <1>8, <1>9, <1>10, <1>11,
     <1>12, <1>13, <1>14, <1>15, <1>16, <1>17, <1>18 DEF Next,
     EmulatorThread, VideoRefresh

LEMMA ProtectedStep ==
  ASSUME TypeOK, ClearIsProtected, [Next]_vars PROVE ClearIsProtected'
<1> USE ScreenAssumption DEF TypeOK, ClearIsProtected,
           bufferVars, screenVars, emulVars, redrawVars, vars
<1>1. ASSUME NEW b \in Byte, Store(b) PROVE ClearIsProtected'
  BY <1>1 DEF Store
<1>2. ASSUME NEW b \in Byte, Fault(b) PROVE ClearIsProtected'
  BY <1>2 DEF Fault
<1>3. CASE HandleFault
  BY <1>3, Pages DEF HandleFault
<1>4. ASSUME NEW first \in ScreenByte, NEW last \in ScreenByte,
            first <= last, SetDirtyArea(first, last)
     PROVE  ClearIsProtected'
  BY <1>4 DEF SetDirtyArea
<1>5. CASE SetColors
  BY <1>5 DEF SetColors
<1>6. CASE PaletteSet
  BY <1>6 DEF PaletteSet, SetAll
<1>7. CASE Present
  BY <1>7 DEF Present
<1>8. CASE Convert
  BY <1>8 DEF Convert
<1>9. CASE ResetRect
  BY <1>9 DEF ResetRect
<1>10. CASE Expose
  BY <1>10 DEF Expose, SetAll
<1>11. CASE Refresh
  BY <1>11 DEF Refresh
<1>12. ASSUME NEW first \in Page, NEW last \in Page, FindRun(first, last)
     PROVE  ClearIsProtected'
  BY <1>12 DEF FindRun, IsRun
<1>13. CASE BlitLine
  BY <1>13 DEF BlitLine
<1>14. CASE UpdateRect
  BY <1>14 DEF UpdateRect
<1>15. CASE ScanDone
  BY <1>15 DEF ScanDone
<1>16. CASE TestPalette
  BY <1>16 DEF TestPalette
<1>17. CASE UpdatePalette
  BY <1>17 DEF UpdatePalette
<1>18. CASE UNCHANGED vars
  BY <1>18
<1> QED
  BY <1>1, <1>2, <1>3, <1>4, <1>5, <1>6, <1>7, <1>8, <1>9, <1>10, <1>11,
     <1>12, <1>13, <1>14, <1>15, <1>16, <1>17, <1>18 DEF Next,
     EmulatorThread, VideoRefresh

LEMMA LineStep ==
  ASSUME TypeOK, LineInv, [Next]_vars PROVE LineInv'
<1> USE ScreenAssumption DEF TypeOK, LineInv, Line,
           bufferVars, screenVars, emulVars, redrawVars, vars
<1>1. ASSUME NEW b \in Byte, Store(b) PROVE LineInv'
  BY <1>1 DEF Store
<1>2. ASSUME NEW b \in Byte, Fault(b) PROVE LineInv'
  BY <1>2 DEF Fault
<1>3. CASE HandleFault
  BY <1>3 DEF HandleFault
<1>4. ASSUME NEW first \in ScreenByte, NEW last \in ScreenByte,
            first <= last, SetDirtyArea(first, last)
     PROVE  LineInv'
  BY <1>4 DEF SetDirtyArea
<1>5. CASE SetColors
  BY <1>5 DEF SetColors
<1>6. CASE PaletteSet
  BY <1>6 DEF PaletteSet, SetAll
<1>7. CASE Present
  BY <1>7 DEF Present
<1>8. CASE Convert
  BY <1>8 DEF Convert
<1>9. CASE ResetRect
  BY <1>9 DEF ResetRect
<1>10. CASE Expose
  BY <1>10 DEF Expose, SetAll
<1>11. CASE Refresh
  BY <1>11 DEF Refresh
<1>12. ASSUME NEW first \in Page, NEW last \in Page, FindRun(first, last)
     PROVE  LineInv'
  <2>1. first <= last
    BY <1>12, PageCount DEF FindRun, IsRun, Page
  <2>2. PageTop(first) \in PageTop(first)..PageBottom(last)
    BY <2>1, PageLines, RunLines
  <2> QED BY <1>12, <2>2 DEF FindRun
<1>13. CASE BlitLine
  BY <1>13 DEF BlitLine
<1>14. CASE UpdateRect
  BY <1>14 DEF UpdateRect
<1>15. CASE ScanDone
  BY <1>15 DEF ScanDone
<1>16. CASE TestPalette
  BY <1>16 DEF TestPalette
<1>17. CASE UpdatePalette
  BY <1>17 DEF UpdatePalette
<1>18. CASE UNCHANGED vars
  BY <1>18
<1> QED
  BY <1>1, <1>2, <1>3, <1>4, <1>5, <1>6, <1>7, <1>8, <1>9, <1>10, <1>11,
     <1>12, <1>13, <1>14, <1>15, <1>16, <1>17, <1>18 DEF Next,
     EmulatorThread, VideoRefresh

LEMMA DirtyStep ==
  ASSUME TypeOK, DirtyInv, [Next]_vars PROVE DirtyInv'
<1> USE ScreenAssumption DEF TypeOK, DirtyInv, VosfIsFree,
           bufferVars, screenVars, emulVars, redrawVars, vars
<1>1. ASSUME NEW b \in Byte, Store(b) PROVE DirtyInv'
  BY <1>1 DEF Store
<1>2. ASSUME NEW b \in Byte, Fault(b) PROVE DirtyInv'
  BY <1>2 DEF Fault
<1>3. CASE HandleFault
  BY <1>3 DEF HandleFault
<1>4. ASSUME NEW first \in ScreenByte, NEW last \in ScreenByte,
            first <= last, SetDirtyArea(first, last)
     PROVE  DirtyInv'
  BY <1>4 DEF SetDirtyArea
<1>5. CASE SetColors
  BY <1>5 DEF SetColors
<1>6. CASE PaletteSet
  BY <1>6 DEF PaletteSet, SetAll
<1>7. CASE Present
  BY <1>7 DEF Present
<1>8. CASE Convert
  BY <1>8 DEF Convert
<1>9. CASE ResetRect
  BY <1>9 DEF ResetRect
<1>10. CASE Expose
  BY <1>10 DEF Expose, SetAll
<1>11. CASE Refresh
  <2>1. \A p \in dirtyPages : p >= 0
    BY PageCount DEF Page
  <2> QED BY <1>11, <2>1 DEF Refresh
<1>12. ASSUME NEW first \in Page, NEW last \in Page, FindRun(first, last)
     PROVE  DirtyInv'
  BY <1>12, PageCount DEF FindRun, IsRun, Page
<1>13. CASE BlitLine
  BY <1>13 DEF BlitLine
<1>14. CASE UpdateRect
  BY <1>14 DEF UpdateRect
<1>15. CASE ScanDone
  <2>1. ASSUME NEW p \in dirtyPages PROVE FALSE
    <3>1. p \in Page /\ p >= page /\ page \in 0..pageCount
      BY <1>15 DEF ScanDone
    <3>2. p \in page..(pageCount - 1)
      BY <3>1, PageCount DEF Page
    <3> QED BY <1>15, <3>2 DEF ScanDone
  <2> QED BY <1>15, <2>1 DEF ScanDone
<1>16. CASE TestPalette
  BY <1>16 DEF TestPalette
<1>17. CASE UpdatePalette
  BY <1>17 DEF UpdatePalette
<1>18. CASE UNCHANGED vars
  BY <1>18
<1> QED
  BY <1>1, <1>2, <1>3, <1>4, <1>5, <1>6, <1>7, <1>8, <1>9, <1>10, <1>11,
     <1>12, <1>13, <1>14, <1>15, <1>16, <1>17, <1>18 DEF Next,
     EmulatorThread, VideoRefresh

LEMMA StaleStep ==
  ASSUME Inv, [Next]_vars PROVE NoStaleByte'
<1> USE ScreenAssumption DEF Inv, TypeOK, ClearIsProtected, LineInv, NoStaleByte,
           bufferVars, screenVars, emulVars, redrawVars, vars
<1>1. ASSUME NEW b \in Byte, Store(b) PROVE NoStaleByte'
  BY <1>1 DEF Store
<1>2. ASSUME NEW b \in Byte, Fault(b) PROVE NoStaleByte'
  BY <1>2 DEF Fault
<1>3. CASE HandleFault
  BY <1>3 DEF HandleFault
<1>4. ASSUME NEW first \in ScreenByte, NEW last \in ScreenByte,
            first <= last, SetDirtyArea(first, last)
     PROVE  NoStaleByte'
  BY <1>4 DEF SetDirtyArea
<1>5. CASE SetColors
  BY <1>5 DEF SetColors
<1>6. CASE PaletteSet
  BY <1>6, ScreenBytes, Pages DEF PaletteSet, SetAll
<1>7. CASE Present
  BY <1>7 DEF Present
<1>8. CASE Convert
  BY <1>8 DEF Convert
<1>9. CASE ResetRect
  BY <1>9 DEF ResetRect
<1>10. CASE Expose
  BY <1>10, ScreenBytes, Pages DEF Expose, SetAll
<1>11. CASE Refresh
  BY <1>11 DEF Refresh
<1>12. ASSUME NEW first \in Page, NEW last \in Page, FindRun(first, last)
     PROVE  NoStaleByte'
  BY <1>12, RunCoversLines DEF FindRun, IsRun, Line
<1>13. CASE BlitLine
  BY <1>13, Lines DEF BlitLine, Line
<1>14. CASE UpdateRect
  BY <1>14 DEF UpdateRect
<1>15. CASE ScanDone
  BY <1>15 DEF ScanDone
<1>16. CASE TestPalette
  BY <1>16 DEF TestPalette
<1>17. CASE UpdatePalette
  BY <1>17 DEF UpdatePalette
<1>18. CASE UNCHANGED vars
  BY <1>18
<1> QED
  BY <1>1, <1>2, <1>3, <1>4, <1>5, <1>6, <1>7, <1>8, <1>9, <1>10, <1>11,
     <1>12, <1>13, <1>14, <1>15, <1>16, <1>17, <1>18 DEF Next,
     EmulatorThread, VideoRefresh

LEMMA PresentStep ==
  ASSUME Inv, [Next]_vars PROVE NoLostUpdate'
<1> USE ScreenAssumption DEF Inv, TypeOK, LineInv, NoLostUpdate, UpdateIsFree, Line,
           bufferVars, screenVars, emulVars, redrawVars, vars
<1>1. ASSUME NEW b \in Byte, Store(b) PROVE NoLostUpdate'
  BY <1>1 DEF Store
<1>2. ASSUME NEW b \in Byte, Fault(b) PROVE NoLostUpdate'
  BY <1>2 DEF Fault
<1>3. CASE HandleFault
  BY <1>3 DEF HandleFault
<1>4. ASSUME NEW first \in ScreenByte, NEW last \in ScreenByte,
            first <= last, SetDirtyArea(first, last)
     PROVE  NoLostUpdate'
  BY <1>4 DEF SetDirtyArea
<1>5. CASE SetColors
  BY <1>5 DEF SetColors
<1>6. CASE PaletteSet
  BY <1>6 DEF PaletteSet, SetAll
<1>7. CASE Present
  BY <1>7 DEF Present
<1>8. CASE Convert
  BY <1>8 DEF Convert
<1>9. CASE ResetRect
  BY <1>9 DEF ResetRect
<1>10. CASE Expose
  BY <1>10 DEF Expose, SetAll
<1>11. CASE Refresh
  BY <1>11 DEF Refresh
<1>12. ASSUME NEW first \in Page, NEW last \in Page, FindRun(first, last)
     PROVE  NoLostUpdate'
  BY <1>12 DEF FindRun, IsRun
<1>13. CASE BlitLine
  BY <1>13 DEF BlitLine
<1>14. CASE UpdateRect
  <2>1. top..bottom \subseteq Line
    OBVIOUS
  <2>2. rect \cup (top..bottom) \subseteq rect'
    BY <1>14, <2>1, UnionCovers DEF UpdateRect
  <2> QED BY <1>14, <2>2 DEF UpdateRect
<1>15. CASE ScanDone
  BY <1>15 DEF ScanDone
<1>16. CASE TestPalette
  BY <1>16 DEF TestPalette
<1>17. CASE UpdatePalette
  BY <1>17 DEF UpdatePalette
<1>18. CASE UNCHANGED vars
  BY <1>18
<1> QED
  BY <1>1, <1>2, <1>3, <1>4, <1>5, <1>6, <1>7, <1>8, <1>9, <1>10, <1>11,
     <1>12, <1>13, <1>14, <1>15, <1>16, <1>17, <1>18 DEF Next,
     EmulatorThread, VideoRefresh

LEMMA InitInv == ASSUME Init PROVE Inv
<1>1. 0 \in Line /\ 0 \in 0..pageCount /\ 0 \in 0..Height
  BY ScreenAssumption, PageCount DEF Line
<1>2. 0 \in Byte
  <2>1. 0 < RowBytes * Height
    BY ScreenAssumption
  <2> QED BY <2>1, ScreenAssumption DEF Byte
<1>3. dirty \in BOOLEAN /\ paletteChanged \in BOOLEAN
  BY DEF Init
<1>4. TypeOK
  BY <1>1, <1>2, <1>3 DEF Init, TypeOK, EmulPC, RedrawPC
<1> QED
  BY <1>4 DEF Init, Inv, ClearIsProtected, LineInv, DirtyInv, NoStaleByte, NoLostUpdate

LEMMA Invariance == Spec => []Inv
<1>1. Init => Inv
  BY InitInv
<1>2. Inv /\ [Next]_vars => Inv'
  BY TypeStep, ProtectedStep, LineStep, DirtyStep, StaleStep, PresentStep DEF Inv
<1> QED
  BY <1>1, <1>2, PTL DEF Spec

\* Type correctness: the redraw thread stays inside the tables and the screen.
THEOREM TypeCorrect == Spec => []TypeOK
BY Invariance, PTL DEF Inv

\* A byte that the guest surface does not show is not forgotten
\* (Screen_fault_handler, update_display_window_vosf).
THEOREM StaleBytesAreCopied == Spec => []NoStaleByte
BY Invariance, PTL DEF Inv

\* A line that the window does not show is not forgotten (update_sdl_video,
\* present_sdl_video).
THEOREM UpdatesArePresented == Spec => []NoLostUpdate
BY Invariance, PTL DEF Inv

\* When the redraw thread has found the buffer clean and no rectangle or palette
\* is left to present, the window shows the frame buffer.  The redraw thread
\* looks at no page then (video_refresh_window_vosf tests mainBuffer.dirty).
WindowIsCurrent ==
  /\ ~dirty
  /\ rpc \in {"sleep", "refresh", "palette"}
  /\ epc \notin {"palette", "reset"}
  /\ rect = {} /\ ~paletteChanged
  => stale = {} /\ unpresented = {}

\* A refresh that finds nothing to do leaves nothing undone
\* (video_refresh_window_vosf, present_sdl_video).
THEOREM IdleWindowIsCurrent == Spec => []WindowIsCurrent
<1>1. Inv => WindowIsCurrent
  <2> SUFFICES ASSUME Inv, ~dirty, rpc \in {"sleep", "refresh", "palette"},
                      epc \notin {"palette", "reset"}, rect = {}, ~paletteChanged
               PROVE  stale = {} /\ unpresented = {}
    BY DEF WindowIsCurrent
  <2>1. dirtyPages = {}
    BY DEF Inv, DirtyInv
  <2>2. stale = {}
    BY <2>1 DEF Inv, NoStaleByte
  <2>3. unpresented = {}
    BY DEF Inv, NoLostUpdate
  <2> QED
    BY <2>2, <2>3
<1> QED
  BY <1>1, Invariance, PTL
=============================================================================
