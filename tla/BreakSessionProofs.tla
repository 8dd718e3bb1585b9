-------------------------- MODULE BreakSessionProofs --------------------------
(***************************************************************************)
(* Theorems about BreakSession, for every flash layout, program, table     *)
(* size and set of sites that satisfies Discipline.                        *)
(***************************************************************************)
EXTENDS BreakSession, FiniteSetTheorems, TLAPS

-----------------------------------------------------------------------------
(* Facts about the constants *)

LEMMA EmptyIsNoSite == EMPTY \notin Site /\ Site \subseteq Nat
BY TargetAssumption, SMT DEF EMPTY

LEMMA SiteIsCell == ASSUME NEW s \in Site PROVE s \in Cell /\ PageOf(s) \in Page
BY TargetAssumption DEF Page

LEMMA CellPage == ASSUME NEW c \in Cell PROVE PageOf(c) \in Page
BY DEF Page

LEMMA SiteFinite == IsFiniteSet(Site)
BY TargetAssumption, FS_Subset

LEMMA SlotFinite == IsFiniteSet(Slot) /\ Cardinality(Slot) = BreakpointMax
<1>1. BreakpointMax \in Nat /\ BreakpointMax - 1 \in Int /\ BreakpointMax >= 1
  BY BreakpointMaxAssumption
<1>2. IsFiniteSet(0..(BreakpointMax - 1))
  /\ Cardinality(0..(BreakpointMax - 1)) =
       IF 0 > BreakpointMax - 1 THEN 0 ELSE BreakpointMax - 1 - 0 + 1
  BY <1>1, FS_Interval
<1> QED
  BY <1>1, <1>2 DEF Slot

LEMMA ProgramIsNoEbreak == Code \subseteq Word
BY DEF Word

\* set_breakpoint takes every address of a well-laid-out program.
LEMMA GoodAddress ==
  ASSUME LayoutInPage, NEW s \in Site
  PROVE  ~BadAddress(s, SizeOf[s])
<1> DEFINE size == SizeOf[s]
<1>1. size \in {2, 4}
  BY TargetAssumption
<1>2. s \in Nat /\ s % 2 = 0
  BY TargetAssumption
<1>3. s < FlashSize - size
  BY DEF LayoutInPage
<1>4. FlashSize - size \in Int
  BY <1>1 DEF FlashSize
<1> HIDE DEF size
<1>5. ~(s >= FlashSize - size) /\ ~(s % 2 = 1)
  BY <1>2, <1>3, <1>4
<1> QED
  BY <1>1, <1>5 DEF BadAddress, size

-----------------------------------------------------------------------------
(* The table as a set *)

SetOf(table) == {table[i] : i \in Slot} \ {EMPTY}

LEMMA InsertSlot ==
  ASSUME NEW table \in [Slot -> Site \cup {EMPTY}], NEW s \in Site,
         NEW i \in Slot, table[i] = EMPTY
  PROVE  SetOf([table EXCEPT ![i] = s]) = SetOf(table) \cup {s}
BY EmptyIsNoSite DEF SetOf

LEMMA RemoveSlot ==
  ASSUME NEW table \in [Slot -> Site \cup {EMPTY}], NEW s \in Site,
         NEW i \in Slot, table[i] = s,
         \A j, k \in Slot : table[j] = table[k] /\ table[j] # EMPTY => j = k
  PROVE  SetOf([table EXCEPT ![i] = EMPTY]) = SetOf(table) \ {s}
BY EmptyIsNoSite DEF SetOf

InPage(S, p) == {s \in S : PageOf(s) = p}

LEMMA InsertInPage ==
  ASSUME NEW S \in SUBSET Site, NEW s \in Site, s \notin S, NEW p
  PROVE  /\ IsFiniteSet(S) /\ IsFiniteSet(InPage(S, p))
         /\ Cardinality(S \cup {s}) = Cardinality(S) + 1
         /\ Cardinality(InPage(S \cup {s}, p)) =
              IF p = PageOf(s) THEN Cardinality(InPage(S, p)) + 1
                               ELSE Cardinality(InPage(S, p))
<1>1. IsFiniteSet(S) /\ InPage(S, p) \subseteq S
  BY SiteFinite, FS_Subset DEF InPage
<1>2. IsFiniteSet(InPage(S, p))
  BY <1>1, FS_Subset
<1>3. InPage(S \cup {s}, p) = IF p = PageOf(s) THEN InPage(S, p) \cup {s} ELSE InPage(S, p)
  BY DEF InPage
<1>4. s \notin InPage(S, p)
  BY DEF InPage
<1> QED
  BY <1>1, <1>2, <1>3, <1>4, FS_AddElement

LEMMA RemoveInPage ==
  ASSUME NEW S \in SUBSET Site, NEW s \in S, NEW p
  PROVE  /\ IsFiniteSet(S) /\ IsFiniteSet(InPage(S, p))
         /\ Cardinality(S \ {s}) = Cardinality(S) - 1
         /\ Cardinality(InPage(S \ {s}, p)) =
              IF p = PageOf(s) THEN Cardinality(InPage(S, p)) - 1
                               ELSE Cardinality(InPage(S, p))
<1>1. IsFiniteSet(S) /\ InPage(S, p) \subseteq S
  BY SiteFinite, FS_Subset DEF InPage
<1>2. IsFiniteSet(InPage(S, p))
  BY <1>1, FS_Subset
<1>3. InPage(S \ {s}, p) = IF p = PageOf(s) THEN InPage(S, p) \ {s} ELSE InPage(S, p)
  BY DEF InPage
<1>4. p = PageOf(s) => s \in InPage(S, p)
  BY DEF InPage
<1> QED
  BY <1>1, <1>2, <1>3, <1>4, FS_RemoveElement

-----------------------------------------------------------------------------
(* Consequences of the invariant in one state *)

LEMMA TableFacts ==
  ASSUME TypeOK
  PROVE  BpSet = SetOf(breakpoints) /\ BpSet \subseteq Site /\ IsFiniteSet(BpSet)
<1>1. BpSet = SetOf(breakpoints) /\ BpSet \subseteq Site
  BY DEF TypeOK, SoftTypeOK, BpSet, SetOf
<1> QED
  BY <1>1, SiteFinite, FS_Subset

\* A page that counts no breakpoints has none.
LEMMA NoneInPage ==
  ASSUME TypeOK, CountsMatchTable, LayoutInPage,
         NEW c \in Cell, break_map[PageOf(c)] = 0,
         NEW s \in BpSet
  PROVE  PageOf(s) # PageOf(c) /\ c \notin Span(s, SizeOf[s])
<1>1. s \in Site /\ IsFiniteSet(BpSet)
  BY TableFacts
<1>2. IsFiniteSet(BpsIn(PageOf(c)))
  BY <1>1, FS_Subset DEF BpsIn
<1>3. BpsIn(PageOf(c)) = {}
  BY <1>2, CellPage, FS_EmptySet DEF CountsMatchTable
<1>4. PageOf(s) # PageOf(c)
  BY <1>3 DEF BpsIn
<1> QED
  BY <1>1, <1>4 DEF LayoutInPage

\* While the target is halted, or a page has no breakpoints, the device holds
\* the program there.
LEMMA CleanPage ==
  ASSUME TypeOK, CountsMatchTable, LayoutInPage, PatchedWhileRunning, CleanWhileHalted,
         NEW c \in Cell, halted \/ break_map[PageOf(c)] = 0
  PROVE  flash[c] = prog[PageOf(c)]
<1>1. CASE halted
  BY <1>1 DEF CleanWhileHalted
<1>2. CASE ~halted /\ break_map[PageOf(c)] = 0
  BY <1>2, NoneInPage DEF PatchedWhileRunning, PatchedAt
<1> QED
  BY <1>1, <1>2, CellPage DEF TypeOK, SoftTypeOK

-----------------------------------------------------------------------------
(* Halting *)

\* What any step that keeps the table, the host and the program keeps of the
\* parts that mention nothing else.
TableUnchanged == UNCHANGED <<tableVars, break_map, flash_clean, flash_dirty, prog>>

LEMMA TableStays ==
  ASSUME CountsMatchTable, TableUnchanged
  PROVE  CountsMatchTable' /\ BpSet' = BpSet
BY DEF CountsMatchTable, TableUnchanged, tableVars, BpSet, BpsIn

LEMMA HaltKeepsFlash ==
  ASSUME IInv, LayoutInPage, HaltAndUnpatch, UNCHANGED prog
  PROVE  /\ CopiesMatchProgram' /\ CleanWhileHalted' /\ PatchedWhileRunning'
         /\ CountsMatchTable' /\ BpSet' = BpSet
         /\ TargetTypeOK' /\ SoftTypeOK'
<1> DEFINE patched == {p \in Page : flash_map[p] # 0}
<1>0. USE DEF IInv
<1>1. TableUnchanged
  BY DEF HaltAndUnpatch, TableUnchanged, mapVars
<1>2. CountsMatchTable' /\ BpSet' = BpSet
  BY <1>1, TableStays
<1>3. \A c \in Cell : flash'[c] = IF PageOf(c) \in patched THEN flash_clean[c] ELSE flash[c]
  BY DEF HaltAndUnpatch, UnpatchFlash, WritePages
<1>4. \A p \in Page : /\ flash_map'[p] = 0
                      /\ dirty_map'[p] = IF p \in patched THEN 1 ELSE dirty_map[p]
  BY DEF HaltAndUnpatch, UnpatchFlash
<1>5. \A p \in Page : flash_map[p] = break_map[p] /\ dirty_map[p] = 0
  BY DEF HaltAndUnpatch, PatchedWhileRunning
<1>6. ASSUME NEW c \in Cell PROVE flash'[c] = prog[PageOf(c)]
  <2>1. CASE PageOf(c) \in patched
    BY <1>3, <2>1 DEF CopiesMatchProgram, Captured
  <2>2. CASE PageOf(c) \notin patched
    BY <1>3, <1>5, <2>2, CellPage, CleanPage
  <2> QED
    BY <2>1, <2>2
<1>7. CleanWhileHalted' /\ PatchedWhileRunning'
  BY <1>1, <1>4, <1>5, <1>6, CellPage
  DEF CleanWhileHalted, PatchedWhileRunning, HaltAndUnpatch, TableUnchanged
<1>8. CopiesMatchProgram'
  <2>1. ASSUME NEW c \in Cell, Captured(PageOf(c))' PROVE Captured(PageOf(c))
    BY <1>1, <1>4, <1>5, <2>1, CellPage DEF Captured, TableUnchanged
  <2> QED
    BY <1>1, <1>2, <2>1 DEF CopiesMatchProgram, PatchedAt, TableUnchanged
<1>9. TargetTypeOK' /\ SoftTypeOK'
  BY DEF TypeOK, TargetTypeOK, SoftTypeOK, HaltAndUnpatch, UnpatchFlash, WritePages, RvdHalt,
         tableVars
<1> QED
  BY <1>2, <1>7, <1>8, <1>9

-----------------------------------------------------------------------------
(* Resuming *)

LEMMA StepStaysOnSites ==
  ASSUME TypeOK, NEW STATE from, from \in Site
  PROVE  StepTargets(from) \subseteq Site
BY DEF StepTargets

\* The disjunct of resume() that patches flash and lets the hart go.
PatchAndRun(from, S) ==
  /\ halted
  /\ pc' \in StepTargets(from) \ S
  /\ PatchFlash
  /\ halted' = FALSE
  /\ RvdResume
  /\ UNCHANGED <<ebreakm, havereset, flash_clean, flash_dirty, break_map>>

LEMMA ResumeKeepsFlash ==
  ASSUME IInv, LayoutInPage, NEW STATE from, from \in Site, NEW STATE S, PatchAndRun(from, S),
         UNCHANGED <<tableVars, prog>>
  PROVE  /\ CopiesMatchProgram' /\ CleanWhileHalted' /\ PatchedWhileRunning'
         /\ CountsMatchTable' /\ BpSet' = BpSet
         /\ TargetTypeOK' /\ SoftTypeOK'
<1> DEFINE stale == {p \in Page : dirty_map[p] # 0}
<1>0. USE DEF IInv
<1>1. TableUnchanged
  BY DEF PatchAndRun, TableUnchanged
<1>2. CountsMatchTable' /\ BpSet' = BpSet
  BY <1>1, TableStays
<1>3. \A c \in Cell : flash'[c] = IF PageOf(c) \in stale THEN flash_dirty[c] ELSE flash[c]
  BY DEF PatchAndRun, PatchFlash, WritePages
<1>4. \A p \in Page : /\ flash_map'[p] = IF p \in stale THEN break_map[p] ELSE flash_map[p]
                      /\ dirty_map'[p] = 0
  BY DEF PatchAndRun, PatchFlash
<1>5. \A p \in Page : flash_map[p] = 0 /\ (break_map[p] # 0 => dirty_map[p] # 0)
  BY DEF PatchAndRun, CleanWhileHalted
<1>6. ASSUME NEW c \in Cell PROVE PatchedAt(flash', BpSet, c)
  <2>1. CASE PageOf(c) \in stale
    <3>1. PatchedAt(flash_dirty, BpSet, c) /\ flash'[c] = flash_dirty[c]
      BY <1>3, <2>1 DEF CopiesMatchProgram, Captured
    <3> QED
      BY <3>1 DEF PatchedAt
  <2>2. CASE PageOf(c) \notin stale
    <3>1. break_map[PageOf(c)] = 0
      BY <1>5, <2>2, CellPage DEF TypeOK, SoftTypeOK
    <3>2. flash'[c] = prog[PageOf(c)]
      BY <1>3, <2>2, <3>1, CleanPage
    <3> QED
      BY <3>1, <3>2, NoneInPage DEF PatchedAt
  <2> QED
    BY <2>1, <2>2
<1>7. CleanWhileHalted'
  BY DEF PatchAndRun, CleanWhileHalted
<1>8. PatchedWhileRunning'
  <2>1. \A c \in Cell : PatchedAt(flash, BpSet, c)'
    BY <1>1, <1>2, <1>6 DEF PatchedAt, TableUnchanged
  <2>2. \A p \in Page : flash_map'[p] = break_map'[p] /\ dirty_map'[p] = 0
    BY <1>1, <1>4, <1>5 DEF TableUnchanged, TypeOK, SoftTypeOK
  <2> QED
    BY <2>1, <2>2 DEF PatchedWhileRunning
<1>9. CopiesMatchProgram'
  <2>1. ASSUME NEW c \in Cell, Captured(PageOf(c))' PROVE Captured(PageOf(c))
    BY <1>1, <1>4, <1>5, <2>1, CellPage DEF Captured, TableUnchanged
  <2> QED
    BY <1>1, <1>2, <2>1 DEF CopiesMatchProgram, PatchedAt, TableUnchanged
<1>10. TargetTypeOK' /\ SoftTypeOK'
  <2>1. flash' \in [Cell -> Word] /\ flash_map' \in [Page -> 0..255] /\ dirty_map' \in [Page -> 0..255]
    BY DEF TypeOK, TargetTypeOK, SoftTypeOK, PatchAndRun, PatchFlash, WritePages
  <2>2. pc' \in Site
    BY StepStaysOnSites DEF PatchAndRun
  <2>3. hart' \in {"running", "halted"}
    BY DEF TypeOK, TargetTypeOK, PatchAndRun, RvdResume
  <2> QED
    BY <2>1, <2>2, <2>3 DEF TypeOK, TargetTypeOK, SoftTypeOK, PatchAndRun, tableVars
<1> QED
  BY <1>2, <1>7, <1>8, <1>9, <1>10

-----------------------------------------------------------------------------
(* Inserting and removing a breakpoint *)

\* Counting up or down by one does not wrap in the range the host stays in.
LEMMA IncExact ==
  ASSUME NEW map \in [Page -> 0..255], NEW p \in Page, map[p] < 255
  PROVE  /\ Inc(map, p) \in [Page -> 0..255]
         /\ Inc(map, p)[p] = map[p] + 1
         /\ \A q \in Page : q # p => Inc(map, p)[q] = map[q]
BY DEF Inc

LEMMA DecExact ==
  ASSUME NEW map \in [Page -> 0..255], NEW p \in Page, map[p] > 0
  PROVE  /\ Dec(map, p) \in [Page -> 0..255]
         /\ Dec(map, p)[p] = map[p] - 1
         /\ \A q \in Page : q # p => Dec(map, p)[q] = map[q]
BY DEF Dec

\* With distinct slots, a table holding fewer breakpoints than it has slots has
\* a free one.
LEMMA FreeSlot ==
  ASSUME TypeOK, CountsMatchTable, Cardinality(BpSet) < BreakpointMax
  PROVE  \E i \in Slot : breakpoints[i] = EMPTY
<1>1. SUFFICES ASSUME \A i \in Slot : breakpoints[i] # EMPTY PROVE FALSE
  OBVIOUS
<1>2. breakpoints \in [Slot -> BpSet]
  BY <1>1 DEF TypeOK, SoftTypeOK, BpSet
<1>3. IsFiniteSet(BpSet)
  BY TableFacts
<1>4. \E i, j \in Slot : i # j /\ breakpoints[i] = breakpoints[j]
  BY <1>2, <1>3, SlotFinite, FS_PigeonHole
<1> QED
  BY <1>1, <1>4 DEF CountsMatchTable


LEMMA InsertKeepsFlash ==
  ASSUME IInv, Discipline, NEW s \in Site, s \notin BpSet, halted,
         dirty_map[PageOf(s)] < DirtyMax, Cardinality(BpSet) < BreakpointMax,
         AcceptSet(s, SizeOf[s]), UNCHANGED prog
  PROVE  /\ CopiesMatchProgram' /\ CleanWhileHalted' /\ PatchedWhileRunning'
         /\ CountsMatchTable' /\ BpSet' = BpSet \cup {s}
         /\ TargetTypeOK' /\ SoftTypeOK'
<1> DEFINE p == PageOf(s)
           first == break_map'[p] = 1
           base == IF first THEN CapturePage(p, flash_dirty) ELSE flash_dirty
<1> TypeOK /\ CopiesMatchProgram /\ CleanWhileHalted /\ PatchedWhileRunning /\ CountsMatchTable
  BY DEF IInv
<1>1. p \in Page /\ LayoutInPage /\ BreakpointMax <= 255 /\ DirtyMax <= 255
  BY SiteIsCell, BreakpointMaxAssumption DEF Discipline
<1>0. \A q \in Page : break_map[q] \in 0..255 /\ dirty_map[q] \in 0..255
  BY DEF TypeOK, SoftTypeOK
<1>2. PICK i \in Slot : /\ breakpoints[i] = EMPTY
                        /\ breakpoints' = [breakpoints EXCEPT ![i] = s]
  BY DEF AcceptSet, IsFirstFree
<1>3. /\ BpSet \subseteq Site /\ IsFiniteSet(BpSet)
      /\ BpSet' = BpSet \cup {s}
      /\ breakpoints' \in [Slot -> Site \cup {EMPTY}]
  <2>1. BpSet \subseteq Site /\ IsFiniteSet(BpSet) /\ BpSet = SetOf(breakpoints)
    BY TableFacts
  <2>2. BpSet' = SetOf(breakpoints')
    BY DEF BpSet, SetOf
  <2> QED
    BY <1>2, <2>1, <2>2, InsertSlot DEF TypeOK, SoftTypeOK
<1>4. /\ break_map[p] < 255
      /\ \A q \in Page : break_map[q] = Cardinality(InPage(BpSet, q))
  <2>1. InPage(BpSet, p) \subseteq BpSet /\ \A q : InPage(BpSet, q) = BpsIn(q)
    BY DEF InPage, BpsIn
  <2>2. Cardinality(InPage(BpSet, p)) <= Cardinality(BpSet)
    BY <1>3, <2>1, FS_Subset
  <2>3. Cardinality(BpSet) \in Nat
    BY <1>3, FS_CardinalityType
  <2>4. \A q \in Page : break_map[q] = Cardinality(InPage(BpSet, q))
    BY <2>1 DEF CountsMatchTable
  <2>5. break_map[p] <= Cardinality(BpSet) /\ break_map[p] \in Nat
    BY <1>0, <1>1, <2>2, <2>4
  <2> QED
    BY <1>1, <2>3, <2>4, <2>5, BreakpointMaxAssumption
<1>5. /\ break_map' \in [Page -> 0..255]
      /\ break_map'[p] = break_map[p] + 1
      /\ \A q \in Page : q # p => break_map'[q] = break_map[q]
  BY <1>1, <1>4, IncExact DEF AcceptSet, TypeOK, SoftTypeOK
<1>6. /\ dirty_map' \in [Page -> 0..255]
      /\ dirty_map'[p] = dirty_map[p] + 1
      /\ \A q \in Page : q # p => dirty_map'[q] = dirty_map[q]
  <2>1. dirty_map[p] < 255
    BY <1>0, <1>1, HostAssumption
  <2> QED
    BY <1>1, <2>1, IncExact DEF AcceptSet, TypeOK, SoftTypeOK
<1>7. CountsMatchTable'
  <2>1. ASSUME NEW j \in Slot, NEW k \in Slot,
               breakpoints'[j] = breakpoints'[k], breakpoints'[j] # EMPTY
        PROVE  j = k
    <3>1. \A m \in Slot : breakpoints[m] # s
      BY EmptyIsNoSite DEF BpSet
    <3> QED
      BY <1>2, <2>1, <3>1 DEF CountsMatchTable, TypeOK, SoftTypeOK
  <2>2. ASSUME NEW q \in Page PROVE break_map'[q] = Cardinality(BpsIn(q)')
    <3>1. BpsIn(q)' = InPage(BpSet \cup {s}, q)
      BY <1>3 DEF BpsIn, InPage
    <3>2. Cardinality(InPage(BpSet \cup {s}, q)) =
             IF q = p THEN Cardinality(InPage(BpSet, q)) + 1 ELSE Cardinality(InPage(BpSet, q))
      <4>1. BpSet \in SUBSET Site
        BY <1>3
      <4>2. Cardinality(InPage(BpSet \cup {s}, q)) =
               IF q = PageOf(s) THEN Cardinality(InPage(BpSet, q)) + 1
                                ELSE Cardinality(InPage(BpSet, q))
        BY ONLY <4>1, s \in Site, s \notin BpSet, InsertInPage
      <4> QED
        BY <4>2
    <3> QED
      BY <1>1, <1>4, <1>5, <3>1, <3>2
  <2>3. breakpoint_count' = Cardinality(BpSet')
    BY <1>1, <1>3, InsertInPage DEF AcceptSet, CountsMatchTable
  <2> QED
    BY <2>1, <2>2, <2>3 DEF CountsMatchTable
<1>8. CleanWhileHalted' /\ PatchedWhileRunning'
  <2>1. halted' /\ flash' = flash /\ flash_map' = flash_map
    BY DEF AcceptSet, targetVars
  <2>2. \A q \in Page : break_map'[q] # 0 => dirty_map'[q] # 0
    <3>1. \A q \in Page : break_map[q] # 0 => dirty_map[q] # 0
      BY DEF CleanWhileHalted
    <3>2. dirty_map'[p] # 0
      BY <1>0, <1>1, <1>6
    <3> QED
      BY <1>5, <1>6, <3>1, <3>2
  <2> QED
    BY <2>1, <2>2 DEF CleanWhileHalted, PatchedWhileRunning
<1>9. ASSUME NEW c \in Cell, PageOf(c) = p
      PROVE  /\ flash_clean'[c] = prog[p]
             /\ PatchedAt(base, BpSet, c)
  <2>1. CASE first
    <3>1. break_map[p] = 0
      BY <1>0, <1>1, <1>5, <2>1
    <3>2. flash[c] = prog[p]
      BY <1>1, <1>9, CleanPage
    <3>3. \A t \in BpSet : c \notin Span(t, SizeOf[t])
      BY <1>1, <1>9, <3>1, NoneInPage
    <3>4. flash_clean'[c] = flash[c] /\ base[c] = flash[c]
      BY <1>9, <2>1 DEF AcceptSet, CapturePage
    <3> QED
      BY <1>9, <3>2, <3>3, <3>4 DEF PatchedAt
  <2>2. CASE ~first
    <3>1. break_map[p] # 0
      BY <1>0, <1>1, <1>5, <2>2
    <3>2. flash_clean' = flash_clean /\ base = flash_dirty
      BY <2>2 DEF AcceptSet
    <3> QED
      BY <1>9, <3>1, <3>2 DEF CopiesMatchProgram, Captured
  <2> QED
    BY <2>1, <2>2
<1>10. flash_dirty' = PutEbreak(base, s, SizeOf[s])
  BY DEF AcceptSet
<1>11. ASSUME NEW c \in Cell, Captured(PageOf(c))'
       PROVE  flash_clean'[c] = prog'[PageOf(c)] /\ PatchedAt(flash_dirty, BpSet, c)'
  <2>1. CASE PageOf(c) = p
    <3>1. flash_clean'[c] = prog[PageOf(c)] /\ PatchedAt(base, BpSet, c)
      BY <1>9, <2>1
    <3>2. CASE c \in Span(s, SizeOf[s])
      <4>1. flash_dirty'[c] = EbreakAt(s, SizeOf[s], c)
        BY <1>10, <3>2 DEF PutEbreak
      <4>2. \A t \in BpSet : c \notin Span(t, SizeOf[t])
        BY <1>1, <1>3, <3>2 DEF LayoutInPage
      <4> QED
        BY <1>3, <3>1, <3>2, <4>1, <4>2 DEF PatchedAt
    <3>3. CASE c \notin Span(s, SizeOf[s])
      <4>1. flash_dirty'[c] = base[c]
        BY <1>10, <3>3 DEF PutEbreak
      <4> QED
        BY <1>3, <3>1, <3>3, <4>1 DEF PatchedAt
    <3> QED
      BY <3>2, <3>3
  <2>2. CASE PageOf(c) # p
    <3>1. c \notin Span(s, SizeOf[s])
      BY <1>1, <2>2 DEF LayoutInPage
    <3>2. flash_clean'[c] = flash_clean[c] /\ flash_dirty'[c] = flash_dirty[c]
      BY <1>10, <2>2, <3>1 DEF AcceptSet, CapturePage, PutEbreak
    <3>3. Captured(PageOf(c))
      BY <1>5, <1>6, <1>11, <2>2, CellPage DEF Captured, AcceptSet
    <3> QED
      BY <1>3, <3>1, <3>2, <3>3 DEF CopiesMatchProgram, PatchedAt
  <2> QED
    BY <2>1, <2>2
<1>12. CopiesMatchProgram'
  BY <1>11 DEF CopiesMatchProgram
<1>13. TargetTypeOK' /\ SoftTypeOK'
  <2>1. flash_clean' \in [Cell -> Word] /\ base \in [Cell -> Word]
    BY DEF AcceptSet, CapturePage, TypeOK, TargetTypeOK, SoftTypeOK
  <2>2. \A c \in Cell : EbreakAt(s, SizeOf[s], c) \in Word
    BY DEF EbreakAt, Word, EbreakWord
  <2>3. flash_dirty' \in [Cell -> Word]
    BY <1>10, <2>1, <2>2 DEF PutEbreak
  <2>4. breakpoint_count' \in Int /\ UNCHANGED <<targetVars, halted, flash_map>>
    BY DEF AcceptSet, TypeOK, SoftTypeOK
  <2> QED
    BY <1>3, <1>5, <1>6, <2>1, <2>3, <2>4 DEF TypeOK, TargetTypeOK, SoftTypeOK, targetVars
<1> QED
  BY <1>3, <1>7, <1>8, <1>12, <1>13


LEMMA RemoveKeepsFlash ==
  ASSUME IInv, Discipline, NEW s \in BpSet, halted,
         dirty_map[PageOf(s)] < DirtyMax,
         AcceptClear(s, SizeOf[s]), UNCHANGED prog
  PROVE  /\ CopiesMatchProgram' /\ CleanWhileHalted' /\ PatchedWhileRunning'
         /\ CountsMatchTable' /\ BpSet' = BpSet \ {s}
         /\ TargetTypeOK' /\ SoftTypeOK'
<1> DEFINE p == PageOf(s)
<1> TypeOK /\ CopiesMatchProgram /\ CleanWhileHalted /\ PatchedWhileRunning /\ CountsMatchTable
  BY DEF IInv
<1>0. \A q \in Page : break_map[q] \in 0..255 /\ dirty_map[q] \in 0..255
  BY DEF TypeOK, SoftTypeOK
<1>1. /\ BpSet \subseteq Site /\ IsFiniteSet(BpSet) /\ BpSet = SetOf(breakpoints)
      /\ s \in Site /\ p \in Page /\ LayoutInPage /\ DirtyMax <= 255
  BY TableFacts, SiteIsCell DEF Discipline
<1>2. PICK i \in Slot : /\ breakpoints[i] = s
                        /\ breakpoints' = [breakpoints EXCEPT ![i] = EMPTY]
  BY DEF AcceptClear
<1>3. BpSet' = BpSet \ {s} /\ breakpoints' \in [Slot -> Site \cup {EMPTY}]
  <2>1. BpSet' = SetOf(breakpoints')
    BY DEF BpSet, SetOf
  <2> QED
    BY <1>1, <1>2, <2>1, RemoveSlot DEF TypeOK, SoftTypeOK, CountsMatchTable
<1>4. /\ break_map[p] > 0
      /\ \A q \in Page : break_map[q] = Cardinality(InPage(BpSet, q))
  <2>1. \A q \in Page : break_map[q] = Cardinality(InPage(BpSet, q))
    BY DEF CountsMatchTable, InPage, BpsIn
  <2>2. IsFiniteSet(InPage(BpSet, p)) /\ s \in InPage(BpSet, p)
    BY <1>1, RemoveInPage DEF InPage
  <2>3. Cardinality(InPage(BpSet, p)) # 0
    BY <2>2, FS_EmptySet
  <2> QED
    BY <1>0, <1>1, <2>1, <2>3
<1>5. /\ break_map' \in [Page -> 0..255]
      /\ break_map'[p] = break_map[p] - 1
      /\ \A q \in Page : q # p => break_map'[q] = break_map[q]
  BY <1>1, <1>4, DecExact DEF AcceptClear, TypeOK, SoftTypeOK
<1>6. /\ dirty_map' \in [Page -> 0..255]
      /\ dirty_map'[p] = dirty_map[p] + 1
      /\ \A q \in Page : q # p => dirty_map'[q] = dirty_map[q]
  <2>1. dirty_map[p] < 255
    BY <1>0, <1>1, HostAssumption
  <2> QED
    BY <1>1, <2>1, IncExact DEF AcceptClear, TypeOK, SoftTypeOK
<1>7. CountsMatchTable'
  <2>1. \A j, k \in Slot : breakpoints'[j] = breakpoints'[k] /\ breakpoints'[j] # EMPTY => j = k
    BY <1>2 DEF CountsMatchTable, TypeOK, SoftTypeOK
  <2>2. ASSUME NEW q \in Page PROVE break_map'[q] = Cardinality(BpsIn(q)')
    <3>1. BpsIn(q)' = InPage(BpSet \ {s}, q)
      BY <1>3 DEF BpsIn, InPage
    <3>2. Cardinality(InPage(BpSet \ {s}, q)) =
             IF q = p THEN Cardinality(InPage(BpSet, q)) - 1 ELSE Cardinality(InPage(BpSet, q))
      BY <1>1, RemoveInPage
    <3> QED
      BY <1>1, <1>4, <1>5, <3>1, <3>2
  <2>3. breakpoint_count' = Cardinality(BpSet')
    BY <1>1, <1>3, RemoveInPage DEF AcceptClear, CountsMatchTable
  <2> QED
    BY <2>1, <2>2, <2>3 DEF CountsMatchTable
<1>8. CleanWhileHalted' /\ PatchedWhileRunning'
  <2>1. halted' /\ flash' = flash /\ flash_map' = flash_map
    BY DEF AcceptClear, targetVars
  <2>2. \A q \in Page : break_map'[q] # 0 => dirty_map'[q] # 0
    <3>1. \A q \in Page : break_map[q] # 0 => dirty_map[q] # 0
      BY DEF CleanWhileHalted
    <3>2. dirty_map'[p] # 0
      BY <1>0, <1>1, <1>6
    <3> QED
      BY <1>5, <1>6, <3>1, <3>2
  <2> QED
    BY <2>1, <2>2 DEF CleanWhileHalted, PatchedWhileRunning
<1>9. \A c \in Cell : /\ flash_clean'[c] = flash_clean[c]
                      /\ flash_dirty'[c] = IF c \in Span(s, SizeOf[s]) THEN flash_clean[c]
                                           ELSE flash_dirty[c]
  BY DEF AcceptClear, RestoreSpan
<1>10. ASSUME NEW c \in Cell, Captured(PageOf(c))'
       PROVE  flash_clean'[c] = prog'[PageOf(c)] /\ PatchedAt(flash_dirty, BpSet, c)'
  <2>1. Captured(PageOf(c))
    <3>1. PageOf(c) # p => break_map'[PageOf(c)] = break_map[PageOf(c)]
                           /\ dirty_map'[PageOf(c)] = dirty_map[PageOf(c)]
      BY <1>5, <1>6, CellPage
    <3>2. break_map[p] # 0
      BY <1>0, <1>1, <1>4
    <3> QED
      BY <1>10, <3>1, <3>2 DEF Captured, AcceptClear
  <2>2. flash_clean[c] = prog[PageOf(c)] /\ PatchedAt(flash_dirty, BpSet, c)
    BY <2>1 DEF CopiesMatchProgram
  <2>3. CASE c \in Span(s, SizeOf[s])
    <3>1. \A t \in BpSet : t # s => c \notin Span(t, SizeOf[t])
      BY <1>1, <2>3 DEF LayoutInPage
    <3> QED
      BY <1>3, <1>9, <2>2, <2>3, <3>1 DEF PatchedAt
  <2>4. CASE c \notin Span(s, SizeOf[s])
    BY <1>3, <1>9, <2>2, <2>4 DEF PatchedAt
  <2> QED
    BY <2>3, <2>4
<1>11. CopiesMatchProgram'
  BY <1>10 DEF CopiesMatchProgram
<1>12. TargetTypeOK' /\ SoftTypeOK'
  <2>1. flash_dirty' \in [Cell -> Word]
    BY DEF AcceptClear, RestoreSpan, TypeOK, SoftTypeOK
  <2>2. breakpoint_count' \in Int /\ UNCHANGED <<targetVars, halted, flash_clean, flash_map>>
    BY DEF AcceptClear, TypeOK, SoftTypeOK
  <2> QED
    BY <1>3, <1>5, <1>6, <2>1, <2>2 DEF TypeOK, TargetTypeOK, SoftTypeOK, targetVars
<1> QED
  BY <1>3, <1>7, <1>8, <1>11, <1>12

-----------------------------------------------------------------------------
(* Loading a page *)

LEMMA LoadKeepsFlash ==
  ASSUME IInv, Discipline, NEW p \in Page, NEW build \in Code, halted, LoadPage(p, build)
  PROVE  /\ CopiesMatchProgram' /\ CleanWhileHalted' /\ PatchedWhileRunning'
         /\ CountsMatchTable' /\ BpSet' = BpSet
         /\ TypeOK'
<1> TypeOK /\ CopiesMatchProgram /\ CleanWhileHalted /\ PatchedWhileRunning /\ CountsMatchTable
  BY DEF IInv
<1>1. /\ \A c \in Cell : flash'[c] = IF PageOf(c) = p THEN build ELSE flash[c]
      /\ \A q \in Page : prog'[q] = IF q = p THEN build ELSE prog[q]
      /\ UNCHANGED softVars
  BY DEF LoadPage, WritePage, WritePages, TypeOK
<1>2. CountsMatchTable' /\ BpSet' = BpSet
  <2>1. UNCHANGED <<breakpoints, breakpoint_count, break_map>>
    BY <1>1 DEF softVars, tableVars, mapVars
  <2>2. BpSet' = BpSet
    BY <2>1 DEF BpSet
  <2>3. \A q \in Page : BpsIn(q)' = BpsIn(q)
    BY <2>2 DEF BpsIn
  <2> QED
    BY <2>1, <2>2, <2>3 DEF CountsMatchTable
<1>3. CleanWhileHalted' /\ PatchedWhileRunning'
  BY <1>1, CellPage DEF CleanWhileHalted, PatchedWhileRunning, softVars, mapVars
<1>4. ASSUME NEW c \in Cell, Captured(PageOf(c))'
      PROVE  flash_clean'[c] = prog'[PageOf(c)] /\ PatchedAt(flash_dirty, BpSet, c)'
  <2>1. Captured(PageOf(c))
    BY <1>1, <1>4 DEF Captured, softVars, mapVars
  <2>2. PageOf(c) # p
    BY <2>1 DEF LoadPage, Captured, CleanWhileHalted
  <2> QED
    BY <1>1, <1>2, <2>1, <2>2, CellPage DEF CopiesMatchProgram, PatchedAt, softVars
<1>5. TypeOK'
  <2>1. flash' \in [Cell -> Word] /\ prog' \in [Page -> Code]
    BY ProgramIsNoEbreak DEF LoadPage, WritePage, WritePages, TypeOK, TargetTypeOK
  <2> QED
    BY <2>1 DEF LoadPage, WritePage, TypeOK, TargetTypeOK, SoftTypeOK, softVars, tableVars, mapVars
<1> QED
  BY <1>2, <1>3, <1>4, <1>5 DEF CopiesMatchProgram

-----------------------------------------------------------------------------
(* Steps that touch neither the flash nor SoftBreak *)

LEMMA SoftUnchanged ==
  ASSUME IInv, UNCHANGED <<flash, softVars, prog>>
  PROVE  /\ CopiesMatchProgram' /\ CleanWhileHalted' /\ PatchedWhileRunning'
         /\ CountsMatchTable' /\ BpSet' = BpSet
         /\ SoftTypeOK'
<1> TypeOK /\ CopiesMatchProgram /\ CleanWhileHalted /\ PatchedWhileRunning /\ CountsMatchTable
  BY DEF IInv
<1>1. UNCHANGED <<halted, breakpoints, breakpoint_count, flash_clean, flash_dirty,
                  break_map, flash_map, dirty_map>>
  BY DEF softVars, tableVars, mapVars
<1>2. BpSet' = BpSet
  BY <1>1 DEF BpSet
<1>3. CountsMatchTable'
  <2>1. \A q \in Page : BpsIn(q)' = BpsIn(q)
    BY <1>2 DEF BpsIn
  <2> QED
    BY <1>1, <1>2, <2>1 DEF CountsMatchTable
<1>4. CopiesMatchProgram'
  BY <1>1, <1>2 DEF CopiesMatchProgram, Captured, PatchedAt
<1>5. CleanWhileHalted' /\ PatchedWhileRunning'
  BY <1>1, <1>2 DEF CleanWhileHalted, PatchedWhileRunning, PatchedAt
<1>6. SoftTypeOK'
  BY <1>1 DEF TypeOK, SoftTypeOK
<1> QED
  BY <1>2, <1>3, <1>4, <1>5, <1>6

-----------------------------------------------------------------------------
(* The invariant is inductive: one lemma per action *)

\* The parts about the session, together.
SessionInv == HostAgrees /\ ModeMatchesHart /\ StopsOnlyAtBreakpoints

LEMMA InitInv == Init => IInv
<1> SUFFICES ASSUME Init PROVE IInv
  OBVIOUS
<1>1. BpSet = {} /\ \A p : BpsIn(p) = {}
  BY DEF Init, SoftInit, BpSet, BpsIn
<1>2. TypeOK
  <2>1. flash \in [Cell -> Word]
    BY CellPage, ProgramIsNoEbreak DEF Init
  <2>2. SoftTypeOK
    BY DEF Init, SoftInit, SoftTypeOK, Word
  <2> QED
    BY <2>1, <2>2 DEF Init, TypeOK, TargetTypeOK
<1>3. CopiesMatchProgram
  BY CellPage DEF Init, SoftInit, CopiesMatchProgram, Captured
<1>4. CleanWhileHalted /\ PatchedWhileRunning
  BY <1>1, CellPage DEF Init, SoftInit, CleanWhileHalted, PatchedWhileRunning, PatchedAt
<1>5. CountsMatchTable
  BY <1>1, FS_EmptySet DEF Init, SoftInit, CountsMatchTable
<1>6. HostAgrees /\ ModeMatchesHart /\ StopsOnlyAtBreakpoints
  BY <1>1 DEF Init, SoftInit, HostAgrees, ModeMatchesHart, StopsOnlyAtBreakpoints
<1> QED
  BY <1>2, <1>3, <1>4, <1>5, <1>6 DEF IInv

\* A halt from any mode, into "idle" or behind the session's back.
LEMMA HaltInv ==
  ASSUME IInv, LayoutInPage, Halt, mode' \in {mode, "idle"}, UNCHANGED <<prog, hostBps>>
  PROVE  IInv'
<1>1. CASE AlreadyHalted
  <2>1. UNCHANGED <<flash, hart, pc, ebreakm, havereset, softVars>>
    BY <1>1 DEF AlreadyHalted, targetVars
  <2>2. UNCHANGED halted /\ halted
    BY <1>1 DEF AlreadyHalted, softVars
  <2>3. TypeOK' /\ SessionInv'
    BY <2>1, <2>2, SoftUnchanged
    DEF IInv, TypeOK, TargetTypeOK, SessionInv, HostAgrees, ModeMatchesHart, StopsOnlyAtBreakpoints
  <2> QED
    BY <2>1, <2>3, SoftUnchanged DEF IInv, SessionInv
<1>2. CASE HaltAndUnpatch
  <2>1. halted' /\ hart' = "halted"
    BY <1>2 DEF HaltAndUnpatch, RvdHalt
  <2>2. SessionInv'
    BY <1>2, <2>1, HaltKeepsFlash
    DEF IInv, SessionInv, HostAgrees, ModeMatchesHart, StopsOnlyAtBreakpoints
  <2>3. TypeOK'
    BY <1>2, HaltKeepsFlash DEF IInv, TypeOK
  <2> QED
    BY <1>2, <2>2, <2>3, HaltKeepsFlash DEF IInv, SessionInv
<1> QED
  BY <1>1, <1>2 DEF Halt

LEMMA InsertInv ==
  ASSUME IInv, Discipline, NEW s \in Site, handle_Z0(s)
  PROVE  IInv'
<1> TypeOK /\ CountsMatchTable /\ SessionInv /\ halted
  BY DEF IInv, SessionInv, handle_Z0, ModeMatchesHart
<1>1. CASE s \in BpSet
  <2>1. UNCHANGED <<targetVars, softVars>> /\ hostBps' = hostBps
    BY <1>1 DEF handle_Z0, SetBreakpoint, RejectSet, SessionInv, HostAgrees
  <2>2. UNCHANGED <<flash, hart, pc, ebreakm, havereset, halted>>
    BY <2>1 DEF targetVars, softVars
  <2>3. TypeOK' /\ SessionInv'
    BY <2>1, <2>2, SoftUnchanged
    DEF handle_Z0, IInv, TypeOK, TargetTypeOK, SessionInv, HostAgrees, ModeMatchesHart,
        StopsOnlyAtBreakpoints
  <2> QED
    BY <2>1, <2>2, <2>3, SoftUnchanged DEF handle_Z0, IInv, SessionInv
<1>2. CASE s \notin BpSet
  <2>1. IsFiniteSet(BpSet) /\ BpSet = hostBps /\ Cardinality(BpSet) \in Nat
    BY TableFacts, FS_CardinalityType DEF SessionInv, HostAgrees
  <2>2. Cardinality(BpSet) < BreakpointMax
    <3>1. Cardinality(BpSet \cup {s}) = Cardinality(BpSet) + 1
      BY <1>2, <2>1, FS_AddElement
    <3> QED
      BY <2>1, <3>1, HostAssumption, BreakpointMaxAssumption DEF handle_Z0, Discipline
  <2>3. ~RejectSet(s, SizeOf[s])
    <3>1. \E i \in Slot : breakpoints[i] = EMPTY
      BY <2>2, FreeSlot
    <3>2. ~BadAddress(s, SizeOf[s])
      BY GoodAddress DEF Discipline
    <3> QED
      BY <1>2, <3>1, <3>2 DEF RejectSet
  <2>4. AcceptSet(s, SizeOf[s]) /\ dirty_map[PageOf(s)] < DirtyMax
    BY <1>2, <2>1, <2>3 DEF handle_Z0, SetBreakpoint
  <2>5. UNCHANGED <<hart, pc, ebreakm, havereset, halted>>
    BY <2>4 DEF AcceptSet, targetVars
  <2>6. /\ CopiesMatchProgram' /\ CleanWhileHalted' /\ PatchedWhileRunning'
        /\ CountsMatchTable' /\ BpSet' = BpSet \cup {s}
        /\ TargetTypeOK' /\ SoftTypeOK'
    BY <1>2, <2>2, <2>4, InsertKeepsFlash DEF handle_Z0
  <2>7. TypeOK' /\ SessionInv'
    BY <2>1, <2>5, <2>6
    DEF handle_Z0, TypeOK, SessionInv, HostAgrees, ModeMatchesHart, StopsOnlyAtBreakpoints
  <2> QED
    BY <2>6, <2>7 DEF IInv, SessionInv
<1> QED
  BY <1>1, <1>2

LEMMA RemoveInv ==
  ASSUME IInv, Discipline, NEW s \in Site, handle_z0(s)
  PROVE  IInv'
<1> TypeOK /\ CountsMatchTable /\ SessionInv /\ halted
  BY DEF IInv, SessionInv, handle_z0, ModeMatchesHart
<1>1. CASE s \notin BpSet
  <2>1. UNCHANGED <<targetVars, softVars>> /\ hostBps' = hostBps
    BY <1>1 DEF handle_z0, ClearBreakpoint, RejectClear, SessionInv, HostAgrees
  <2>2. UNCHANGED <<flash, hart, pc, ebreakm, havereset, halted>>
    BY <2>1 DEF targetVars, softVars
  <2>3. TypeOK' /\ SessionInv'
    BY <2>1, <2>2, SoftUnchanged
    DEF handle_z0, IInv, TypeOK, TargetTypeOK, SessionInv, HostAgrees, ModeMatchesHart,
        StopsOnlyAtBreakpoints
  <2> QED
    BY <2>1, <2>2, <2>3, SoftUnchanged DEF handle_z0, IInv, SessionInv
<1>2. CASE s \in BpSet
  <2>1. ~RejectClear(s, SizeOf[s])
    BY <1>2, GoodAddress DEF RejectClear, Discipline
  <2>2. AcceptClear(s, SizeOf[s]) /\ dirty_map[PageOf(s)] < DirtyMax
    BY <1>2, <2>1 DEF handle_z0, ClearBreakpoint, SessionInv, HostAgrees
  <2>3. UNCHANGED <<hart, pc, ebreakm, havereset, halted>>
    BY <2>2 DEF AcceptClear, targetVars
  <2>4. /\ CopiesMatchProgram' /\ CleanWhileHalted' /\ PatchedWhileRunning'
        /\ CountsMatchTable' /\ BpSet' = BpSet \ {s}
        /\ TargetTypeOK' /\ SoftTypeOK'
    BY <1>2, <2>2, RemoveKeepsFlash DEF handle_z0
  <2>5. TypeOK' /\ SessionInv'
    BY <2>3, <2>4
    DEF handle_z0, TypeOK, SessionInv, HostAgrees, ModeMatchesHart, StopsOnlyAtBreakpoints
  <2> QED
    BY <2>4, <2>5 DEF IInv, SessionInv
<1> QED
  BY <1>1, <1>2

\* A resume that leaves mode "running" or "disconnected", with the table as is.
LEMMA PatchAndRunInv ==
  ASSUME IInv, LayoutInPage, NEW STATE from, from \in Site, NEW STATE S, PatchAndRun(from, S),
         UNCHANGED <<tableVars, prog, hostBps>>,
         mode' = "running" \/ (mode' = "disconnected" /\ hostBps = {})
  PROVE  IInv'
<1>1. ~halted' /\ UNCHANGED <<ebreakm, havereset>> /\ (hart' = "halted" => havereset)
  BY DEF PatchAndRun, RvdResume
<1>2. SessionInv'
  BY <1>1, ResumeKeepsFlash
  DEF IInv, SessionInv, HostAgrees, ModeMatchesHart, StopsOnlyAtBreakpoints
<1>3. TypeOK'
  BY ResumeKeepsFlash DEF IInv, TypeOK
<1> QED
  BY <1>2, <1>3, ResumeKeepsFlash DEF IInv, SessionInv

\* A step that moves nothing but the pc, the session's mode and, if it is not
\* waiting on a breakpoint, the hart.
LEMMA PcInv ==
  ASSUME IInv, UNCHANGED <<flash, softVars, prog, hostBps>>,
         pc' \in Site, ebreakm' \in BOOLEAN, havereset' \in BOOLEAN,
         hart' \in {"running", "halted"}, mode' \in {"disconnected", "idle", "running", "killed"},
         ModeMatchesHart', StopsOnlyAtBreakpoints'
  PROVE  IInv'
<1>1. TypeOK' /\ HostAgrees'
  BY SoftUnchanged DEF IInv, TypeOK, TargetTypeOK, HostAgrees
<1> QED
  BY <1>1, SoftUnchanged DEF IInv

LEMMA ContinueInv ==
  ASSUME IInv, LayoutInPage, NEW from \in Site, handle_c(from)
  PROVE  IInv'
<1> TypeOK /\ ModeMatchesHart /\ halted
  BY DEF IInv, handle_c, ModeMatchesHart
<1>1. CASE PatchAndRun(from, BpSet)
  <2>1. mode' = "running"
    BY <1>1 DEF handle_c, PatchAndRun
  <2>2. UNCHANGED <<tableVars, prog, hostBps>>
    BY DEF handle_c
  <2> QED
    BY <1>1, <2>1, <2>2, PatchAndRunInv
<1>2. CASE /\ pc' \in StepTargets(from) \cap BpSet
           /\ UNCHANGED <<flash, hart, ebreakm, havereset, halted, flash_clean, flash_dirty, mapVars>>
  <2>1. UNCHANGED softVars /\ halted' /\ mode' = "idle"
    BY <1>2 DEF handle_c, softVars
  <2>2. pc' \in Site
    BY <1>2, StepStaysOnSites
  <2>3. ModeMatchesHart' /\ StopsOnlyAtBreakpoints'
    BY <1>2, <2>1 DEF ModeMatchesHart, StopsOnlyAtBreakpoints
  <2> QED
    BY <1>2, <2>1, <2>2, <2>3, PcInv DEF handle_c, TypeOK, TargetTypeOK
<1> QED
  BY <1>1, <1>2 DEF handle_c, Resume, PatchAndRun

LEMMA DisconnectInv ==
  ASSUME IInv, LayoutInPage, Disconnect
  PROVE  IInv'
<1> TypeOK /\ ModeMatchesHart /\ StopsOnlyAtBreakpoints /\ pc \in Site
  BY DEF IInv, TypeOK, TargetTypeOK
<1>1. BpSet = {} /\ hostBps = {} /\ hostBps' = {}
  BY DEF IInv, HostAgrees, Disconnect, DropConnection
<1>2. UNCHANGED tableVars
  <2>1. \A i \in Slot : breakpoints[i] = EMPTY
    BY <1>1 DEF BpSet
  <2>2. breakpoints' = breakpoints
    BY <2>1 DEF Disconnect, DropConnection, ClearAllBreakpoints, TypeOK, SoftTypeOK
  <2>3. breakpoint_count = 0
    BY <1>1, FS_EmptySet DEF IInv, CountsMatchTable
  <2> QED
    BY <2>2, <2>3 DEF tableVars, Disconnect, DropConnection, ClearAllBreakpoints
<1>3. CASE PatchAndRun(pc, {})
  BY <1>1, <1>2, <1>3, PatchAndRunInv DEF Disconnect, DropConnection
<1>4. CASE ~halted /\ UNCHANGED <<targetVars, halted, flash_clean, flash_dirty, mapVars>>
  <2>1. UNCHANGED <<flash, hart, pc, ebreakm, havereset, softVars>>
    BY <1>2, <1>4 DEF targetVars, softVars
  <2>2. mode' = "disconnected"
    BY DEF Disconnect, DropConnection
  <2>3. ModeMatchesHart' /\ StopsOnlyAtBreakpoints'
    BY <1>1, <1>4, <2>1, <2>2 DEF ModeMatchesHart, StopsOnlyAtBreakpoints
  <2> QED
    BY <1>1, <2>1, <2>2, <2>3, PcInv DEF Disconnect, DropConnection, TypeOK, TargetTypeOK
<1> QED
  BY <1>3, <1>4 DEF Disconnect, DropConnection, Resume, PatchAndRun

LEMMA LoadInv ==
  ASSUME IInv, Discipline, NEW p \in Page, NEW build \in Code, LoadPage(p, build)
  PROVE  IInv'
<1>1. halted /\ UNCHANGED <<hart, pc, ebreakm, havereset, halted, mode, hostBps>>
  BY DEF IInv, ModeMatchesHart, LoadPage, WritePage, softVars
<1>2. SessionInv'
  BY <1>1, LoadKeepsFlash
  DEF IInv, SessionInv, HostAgrees, ModeMatchesHart, StopsOnlyAtBreakpoints
<1> QED
  BY <1>1, <1>2, LoadKeepsFlash DEF IInv, SessionInv

\* The hart's own steps: it stops only in front of an ebreak, and an ebreak is
\* in the flash only where GDB put one.
LEMMA EbreakIsBreakpoint ==
  ASSUME IInv, LayoutInPage, ~halted
  PROVE  EbreakIn(pc) <=> pc \in BpSet
<1> TypeOK /\ PatchedWhileRunning /\ pc \in Site /\ pc \in Cell
  BY SiteIsCell DEF IInv, TypeOK, TargetTypeOK
<1>1. \A s \in Site : s \in Span(s, SizeOf[s]) /\ Span(s, SizeOf[s]) \subseteq Cell
  BY TargetAssumption DEF Span
<1>2. ASSUME pc \in BpSet PROVE EbreakIn(pc)
  <2>1. \A c \in Span(pc, SizeOf[pc]) : flash[c] = EbreakAt(pc, SizeOf[pc], c)
    BY <1>1, <1>2 DEF PatchedWhileRunning, PatchedAt
  <2>2. CASE SizeOf[pc] = 2
    BY <2>1, <2>2 DEF Span, EbreakAt, EbreakIn
  <2>3. CASE SizeOf[pc] # 2
    <3>1. pc + 2 # pc /\ pc + 2 \in Span(pc, SizeOf[pc])
      BY <2>3, TargetAssumption DEF Span
    <3>2. flash[pc] = "ebreak.lo" /\ flash[pc + 2] = "ebreak.hi"
      BY <1>1, <2>1, <2>3, <3>1 DEF EbreakAt
    <3> QED
      BY <3>2 DEF EbreakIn
  <2> QED
    BY <2>2, <2>3
<1>3. ASSUME pc \notin BpSet PROVE ~EbreakIn(pc)
  <2>1. \A s \in BpSet : s \in Site /\ pc \notin Span(s, SizeOf[s])
    BY <1>1, <1>3, TableFacts DEF LayoutInPage
  <2>2. flash[pc] = prog[PageOf(pc)]
    BY <2>1 DEF PatchedWhileRunning, PatchedAt
  <2>3. prog[PageOf(pc)] \in Code
    BY CellPage DEF TypeOK
  <2> QED
    BY <2>2, <2>3, TargetAssumption DEF EbreakIn, EbreakWord
<1> QED
  BY <1>2, <1>3

LEMMA HartInv ==
  ASSUME IInv, LayoutInPage, Hart
  PROVE  IInv'
<1> TypeOK /\ ModeMatchesHart /\ HostAgrees
  BY DEF IInv
<1>1. /\ hart = "running" /\ ~halted
      /\ UNCHANGED <<flash, ebreakm, havereset, softVars, mode, prog, hostBps, halted>>
  BY DEF Hart, HartStep, HartExecute, HartTrap, hostVars, softVars, ModeMatchesHart
<1>2. pc' \in Site /\ hart' \in {"running", "halted"}
  BY DEF Hart, HartStep, HartExecute, HartTrap, TypeOK, TargetTypeOK
<1>3. hart' = "halted" => ebreakm /\ pc \in BpSet /\ pc' = pc
  BY <1>1, EbreakIsBreakpoint DEF Hart, HartStep, HartExecute, HartTrap
<1>4. ModeMatchesHart' /\ StopsOnlyAtBreakpoints'
  BY <1>1, <1>3 DEF ModeMatchesHart, StopsOnlyAtBreakpoints, HostAgrees
<1> QED
  BY <1>1, <1>2, <1>4, PcInv DEF TypeOK, TargetTypeOK

LEMMA IdleInv ==
  ASSUME IInv, handle_s \/ MonitorReset \/ handle_k
  PROVE  IInv'
<1> TypeOK /\ ModeMatchesHart /\ halted /\ hart = "halted" /\ pc \in Site
  BY DEF IInv, ModeMatchesHart, handle_s, MonitorReset, handle_k, TypeOK, TargetTypeOK
<1>1. UNCHANGED <<flash, softVars, prog, hostBps>> /\ hart' = "halted" /\ halted'
  BY DEF handle_s, Step, MonitorReset, Reset, RvdReset, handle_k, targetVars, hostVars, softVars
<1>2. /\ pc' \in Site /\ ebreakm' \in BOOLEAN /\ havereset' \in BOOLEAN
      /\ mode' = "idle" \/ (mode' = "killed" /\ hostBps = {})
  BY StepStaysOnSites, TargetAssumption
  DEF handle_s, Step, MonitorReset, Reset, RvdReset, handle_k, targetVars, hostVars, TypeOK, TargetTypeOK
<1>3. ModeMatchesHart' /\ StopsOnlyAtBreakpoints'
  BY <1>1, <1>2 DEF ModeMatchesHart, StopsOnlyAtBreakpoints
<1> QED
  BY <1>1, <1>2, <1>3, PcInv

LEMMA ConsoleResumeInv ==
  ASSUME IInv, LayoutInPage, ConsoleResume
  PROVE  IInv'
<1> TypeOK /\ ModeMatchesHart /\ StopsOnlyAtBreakpoints /\ pc \in Site
  BY DEF IInv, TypeOK, TargetTypeOK
<1>1. /\ BpSet = {} /\ hostBps = {} /\ mode' = "disconnected"
      /\ UNCHANGED <<tableVars, mode, prog, hostBps>>
  BY DEF IInv, HostAgrees, ModeMatchesHart, ConsoleResume, hostVars
<1>2. CASE PatchAndRun(pc, BpSet)
  BY <1>1, <1>2, PatchAndRunInv
<1>3. CASE ~halted /\ UNCHANGED <<targetVars, halted, flash_clean, flash_dirty, mapVars>>
  <2>1. UNCHANGED <<flash, hart, pc, ebreakm, havereset, softVars>>
    BY <1>1, <1>3 DEF targetVars, softVars
  <2>2. ModeMatchesHart' /\ StopsOnlyAtBreakpoints'
    BY <1>1, <1>3, <2>1 DEF ModeMatchesHart, StopsOnlyAtBreakpoints
  <2> QED
    BY <1>1, <2>1, <2>2, PcInv DEF TypeOK, TargetTypeOK
<1> QED
  BY <1>1, <1>2, <1>3 DEF ConsoleResume, Resume, PatchAndRun

\* A restart the flash is ready for forgets nothing that matters.
LEMMA CleanForRestart ==
  ASSUME IInv, halted \/ hostBps = {}, NEW c \in Cell
  PROVE  flash[c] = prog[PageOf(c)]
<1>1. CASE halted
  BY <1>1 DEF IInv, CleanWhileHalted
<1>2. CASE ~halted /\ hostBps = {}
  BY <1>2 DEF IInv, HostAgrees, PatchedWhileRunning, PatchedAt
<1> QED
  BY <1>1, <1>2 DEF IInv, TypeOK, SoftTypeOK

LEMMA RestartInv ==
  ASSUME IInv, Restart
  PROVE  IInv'
<1> USE DEF Restart, PicoRestart, SoftRestart
<1>1. BpSet' = {} /\ \A p : BpsIn(p)' = {}
  BY DEF BpSet, BpsIn
<1>2. \A c \in Cell : flash'[c] = prog'[PageOf(c)]
  BY CleanForRestart
<1>3. TypeOK'
  BY DEF IInv, TypeOK, TargetTypeOK, SoftTypeOK, Word
<1>4. CopiesMatchProgram'
  BY CellPage DEF CopiesMatchProgram, Captured
<1>5. CleanWhileHalted' /\ PatchedWhileRunning'
  BY <1>1, <1>2, CellPage DEF CleanWhileHalted, PatchedWhileRunning, PatchedAt
<1>6. CountsMatchTable'
  BY <1>1, FS_EmptySet DEF CountsMatchTable
<1>7. HostAgrees' /\ ModeMatchesHart' /\ StopsOnlyAtBreakpoints'
  BY <1>1 DEF IInv, TypeOK, TargetTypeOK, HostAgrees, ModeMatchesHart, StopsOnlyAtBreakpoints
<1> QED
  BY <1>3, <1>4, <1>5, <1>6, <1>7 DEF IInv

LEMMA StepInv ==
  ASSUME IInv, Discipline, [Next]_vars
  PROVE  IInv'
<1> LayoutInPage
  BY DEF Discipline
<1>1. CASE Connect \/ Break \/ Poll \/ ConsoleHalt
  BY <1>1, HaltInv DEF Connect, Break, Poll, ConsoleHalt, hostVars
<1>2. CASE handle_s \/ MonitorReset \/ handle_k
  BY <1>2, IdleInv
<1>3. CASE Hart
  BY <1>3, HartInv
<1>4. CASE Disconnect
  BY <1>4, DisconnectInv
<1>5. CASE \E s \in Site : handle_Z0(s) \/ handle_z0(s) \/ handle_c(s)
  BY <1>5, InsertInv, RemoveInv, ContinueInv
<1>6. CASE \E p \in Page, build \in Code : LoadPage(p, build)
  BY <1>6, LoadInv
<1>7. CASE UNCHANGED vars
  <2>1. UNCHANGED <<flash, hart, pc, ebreakm, havereset, softVars, halted, mode, prog, hostBps>>
    BY <1>7 DEF vars, targetVars, hostVars, softVars
  <2> QED
    BY <2>1, PcInv DEF IInv, TypeOK, TargetTypeOK, ModeMatchesHart, StopsOnlyAtBreakpoints
<1>8. CASE Restart \/ ConsoleResume
  BY <1>8, RestartInv, ConsoleResumeInv
<1> QED
  BY <1>1, <1>2, <1>3, <1>4, <1>5, <1>6, <1>7, <1>8 DEF Next

-----------------------------------------------------------------------------
(* Theorems *)

\* The invariant holds in every state of every session whose host keeps the
\* discipline: SoftBreak's copies, maps and table, the device's flash and GDB's
\* view of its breakpoints agree.
THEOREM SessionInvariant == ASSUME Discipline PROVE Spec => []IInv
<1>1. Init => IInv
  BY InitInv
<1>2. IInv /\ [Next]_vars => IInv'
  BY StepInv
<1> QED
  BY <1>1, <1>2, PTL DEF Spec

\* Every variable keeps its type; in particular no uint8_t page counter wraps.
THEOREM TypeCorrect == ASSUME Discipline PROVE Spec => []TypeOK
<1>1. IInv => TypeOK
  BY DEF IInv
<1> QED
  BY <1>1, SessionInvariant, PTL

\* While the target runs, the device holds the program with exactly the
\* breakpoints GDB inserted, in every page.
THEOREM FlashPatchedExactly == ASSUME Discipline PROVE Spec => []PatchedWhileRunning
<1>1. IInv => PatchedWhileRunning
  BY DEF IInv
<1> QED
  BY <1>1, SessionInvariant, PTL

\* The copies SoftBreak may still write to the device are the program, and the
\* program with this page's breakpoints.
THEOREM CopiesNeverStale == ASSUME Discipline PROVE Spec => []CopiesMatchProgram
<1>1. IInv => CopiesMatchProgram
  BY DEF IInv
<1> QED
  BY <1>1, SessionInvariant, PTL

\* While SoftBreak is halted the device holds the program alone, and every page
\* with a breakpoint will be patched on resume.
THEOREM FlashCleanWhileHalted == ASSUME Discipline PROVE Spec => []CleanWhileHalted
<1>1. IInv => CleanWhileHalted
  BY DEF IInv
<1> QED
  BY <1>1, SessionInvariant, PTL

\* The page maps and the count are those of the breakpoint table.
THEOREM CountsAreExact == ASSUME Discipline PROVE Spec => []CountsMatchTable
<1>1. IInv => CountsMatchTable
  BY DEF IInv
<1> QED
  BY <1>1, SessionInvariant, PTL

\* The breakpoints GDB believes inserted are those in the table.
THEOREM HostIsRight == ASSUME Discipline PROVE Spec => []HostAgrees
<1>1. IInv => HostAgrees
  BY DEF IInv
<1> QED
  BY <1>1, SessionInvariant, PTL

\* Packets are handled only while the hart is halted, whatever the console did
\* and after a restart too.
THEOREM HaltedIsHalted == ASSUME Discipline PROVE Spec => []ModeMatchesHart
<1>1. IInv => ModeMatchesHart
  BY DEF IInv
<1> QED
  BY <1>1, SessionInvariant, PTL

\* A hart that stopped by itself stands on a breakpoint GDB inserted.
THEOREM StopsAreBreakpoints == ASSUME Discipline PROVE Spec => []StopsOnlyAtBreakpoints
<1>1. IInv => StopsOnlyAtBreakpoints
  BY DEF IInv
<1> QED
  BY <1>1, SessionInvariant, PTL

\* A finished session leaves the program in the flash and nothing else.
THEOREM SessionLeavesNothing == ASSUME Discipline PROVE Spec => []NothingLeftBehind
<1>1. IInv => NothingLeftBehind
  <2>1. SUFFICES ASSUME IInv, mode = "disconnected", NEW c \in Cell
                 PROVE  flash[c] = prog[PageOf(c)]
    BY DEF NothingLeftBehind
  <2>2. BpSet = {}
    BY <2>1 DEF IInv, HostAgrees, ModeMatchesHart
  <2>3. CASE halted
    BY <2>1, <2>3 DEF IInv, CleanWhileHalted
  <2>4. CASE ~halted
    BY <2>1, <2>2, <2>4 DEF IInv, PatchedWhileRunning, PatchedAt
  <2> QED
    BY <2>3, <2>4
<1> QED
  BY <1>1, SessionInvariant, PTL

\* A running hart never executes an instruction that carries an armed
\* breakpoint.
THEOREM BreakpointsHold == ASSUME Discipline PROVE Spec => NeverRunsOverBreakpoint
<1> DEFINE A == hart = "running" /\ mode = "running" /\ ebreakm /\ pc \in hostBps => pc' = pc
<1>1. IInv /\ [Next]_vars => [A]_vars
  <2> SUFFICES ASSUME IInv, Next, hart = "running", mode = "running", ebreakm, pc \in hostBps
               PROVE  pc' = pc
    OBVIOUS
  <2>1. ~halted /\ pc \in BpSet /\ hostBps # {}
    BY DEF IInv, ModeMatchesHart, HostAgrees
  <2>2. EbreakIn(pc)
    BY <2>1, EbreakIsBreakpoint DEF Discipline
  <2>3. CASE Hart
    BY <2>2, <2>3 DEF Hart, HartStep, HartExecute, HartTrap
  <2>4. CASE Break \/ Poll \/ ConsoleHalt
    BY <2>1, <2>4 DEF Break, Poll, ConsoleHalt, Halt, AlreadyHalted, HaltAndUnpatch, RvdHalt
  <2>5. CASE Disconnect
    BY <2>1, <2>5 DEF Disconnect, DropConnection, Resume, targetVars
  <2> QED
    BY <2>3, <2>4, <2>5
    DEF Next, Connect, handle_s, MonitorReset, handle_k, handle_Z0, handle_z0, handle_c,
        LoadPage, WritePage, ConsoleResume, Restart, PicoRestart
<1> QED
  BY <1>1, SessionInvariant, PTL DEF Spec, NeverRunsOverBreakpoint

\* Flash changes with SoftBreak's halted flag and with loads, never otherwise:
\* a halt leaves the whole program, and nothing done while halted but a load of
\* other code changes a halfword.
THEOREM FlashIsUnpatchedOnHalt == ASSUME Discipline PROVE Spec => FlashFollowsHalted
<1> DEFINE A == /\ ~halted /\ halted' => flash' = [c \in Cell |-> prog[PageOf(c)]]
                /\ halted /\ halted' /\ prog' = prog => flash' = flash
<1>1. IInv /\ IInv' /\ [Next]_vars => [A]_vars
  <2> SUFFICES ASSUME IInv, IInv', Next PROVE A
    OBVIOUS
  <2>1. halted => flash = [c \in Cell |-> prog[PageOf(c)]]
    BY DEF IInv, TypeOK, TargetTypeOK, CleanWhileHalted
  <2>2. halted' => flash' = [c \in Cell |-> prog'[PageOf(c)]]
    BY DEF IInv, TypeOK, TargetTypeOK, CleanWhileHalted
  <2>3. ~halted => prog' = prog
    BY DEF Next, Connect, handle_s, MonitorReset, handle_k, Break, Poll, Hart, Disconnect,
           DropConnection, handle_Z0, handle_z0, handle_c, LoadPage, WritePage, hostVars,
           ConsoleHalt, ConsoleResume, Restart, PicoRestart, IInv, ModeMatchesHart
  <2> QED
    BY <2>1, <2>2, <2>3
<1> QED
  BY <1>1, SessionInvariant, PTL DEF Spec, FlashFollowsHalted

-----------------------------------------------------------------------------
(* The refinement *)

\* What the contract calls memory is the program, whichever side of a halt.
Program == [c \in Cell |-> prog[PageOf(c)]]
SeenMemory == IF halted THEN flash ELSE Program
RunState == IF halted THEN "halted" ELSE IF hart = "running" THEN "running" ELSE "stopped"

LEMMA SeenIsProgram ==
  ASSUME IInv, IInv'
  PROVE  /\ SeenMemory = Program /\ SeenMemory' = Program'
         /\ UNCHANGED prog => SeenMemory' = SeenMemory
<1>1. SeenMemory = Program
  BY DEF SeenMemory, Program, IInv, TypeOK, TargetTypeOK, CleanWhileHalted
<1>2. SeenMemory' = Program'
  BY DEF SeenMemory, Program, IInv, TypeOK, TargetTypeOK, CleanWhileHalted
<1>3. UNCHANGED prog => Program' = Program
  BY DEF Program
<1> QED
  BY <1>1, <1>2, <1>3

\* A halted hart can step anywhere: the flash holds no ebreak to stop it.
LEMMA StepIsMove ==
  ASSUME IInv, LayoutInPage, halted, NEW STATE from, from \in Site
  PROVE  StepTargets(from) = IF havereset THEN {from} ELSE Site
<1>1. flash[from] \in Code
  BY SiteIsCell DEF IInv, TypeOK, CleanWhileHalted
<1>2. ~EbreakIn(from)
  BY <1>1, TargetAssumption DEF EbreakIn, EbreakWord
<1> QED
  BY <1>2 DEF StepTargets

LEMMA InitRefines == Init => Contract!ContractInit
<1> SUFFICES ASSUME Init PROVE Contract!ContractInit
  OBVIOUS
<1>1. BpSet = {}
  BY DEF Init, SoftInit, BpSet
<1>2. SeenMemory \in [Cell -> Code]
  BY CellPage DEF Init, SeenMemory, Program
<1> QED
  BY <1>1, <1>2 DEF Contract!ContractInit, Init, SoftInit, SeenMemory, Program

LEMMA HaltRefines ==
  ASSUME IInv, LayoutInPage, IInv', Halt, UNCHANGED prog
  PROVE  Contract!Interrupt \/ UNCHANGED Contract!contractVars
<1>1. CASE AlreadyHalted
  <2>1. UNCHANGED <<flash, hart, pc, ebreakm, havereset, halted, breakpoints>>
    BY <1>1 DEF AlreadyHalted, targetVars, softVars, tableVars
  <2> QED
    BY <2>1 DEF Contract!contractVars, BpSet
<1>2. CASE HaltAndUnpatch
  <2>1. ~halted /\ halted' /\ UNCHANGED <<pc, ebreakm, havereset>> /\ BpSet' = BpSet
    BY <1>2, HaltKeepsFlash DEF HaltAndUnpatch, RvdHalt
  <2>2. SeenMemory' = SeenMemory
    BY SeenIsProgram
  <2> QED
    BY <2>1, <2>2 DEF Contract!Interrupt, SeenMemory, Program
<1> QED
  BY <1>1, <1>2 DEF Halt

LEMMA ResumeRefines ==
  ASSUME IInv, LayoutInPage, IInv', halted, NEW STATE from, from \in Site,
         PatchAndRun(from, BpSet), UNCHANGED <<prog, tableVars>>
  PROVE  Contract!Go(from)
<1>1. BpSet' = BpSet /\ SeenMemory' = SeenMemory
  BY SeenIsProgram DEF BpSet, tableVars
<1>2. pc' \in Contract!Moves(from) /\ pc' \notin BpSet
  BY StepIsMove DEF Contract!Moves, PatchAndRun
<1>3. RunState = "halted" /\ RunState' = IF havereset THEN "stopped" ELSE "running"
  BY DEF RunState, PatchAndRun, RvdResume, IInv, ModeMatchesHart
<1>4. UNCHANGED <<ebreakm, havereset>>
  BY DEF PatchAndRun
<1> QED
  BY <1>1, <1>2, <1>3, <1>4 DEF Contract!Go, RunState, SeenMemory, Program

LEMMA ContinueRefines ==
  ASSUME IInv, LayoutInPage, IInv', NEW s \in Site, handle_c(s)
  PROVE  Contract!Go(s)
<1>1. halted
  BY DEF IInv, ModeMatchesHart, handle_c
<1>2. CASE PatchAndRun(s, BpSet)
  BY <1>1, <1>2, ResumeRefines DEF handle_c
<1>3. CASE /\ pc' \in StepTargets(s) \cap BpSet
           /\ UNCHANGED <<flash, hart, ebreakm, havereset, halted, flash_clean, flash_dirty, mapVars>>
  <2>1. BpSet' = BpSet /\ SeenMemory' = SeenMemory
    BY SeenIsProgram DEF BpSet, tableVars, handle_c
  <2>2. pc' \in Contract!Moves(s) /\ pc' \in BpSet
    BY <1>1, <1>3, StepIsMove DEF Contract!Moves
  <2>3. RunState = "halted" /\ RunState' = "halted" /\ UNCHANGED <<ebreakm, havereset>>
    BY <1>1, <1>3 DEF RunState
  <2> QED
    BY <2>1, <2>2, <2>3 DEF Contract!Go, RunState, SeenMemory, Program
<1> QED
  BY <1>1, <1>2, <1>3 DEF handle_c, Resume, PatchAndRun

LEMMA InsertRefines ==
  ASSUME IInv, IInv', NEW s \in Site, handle_Z0(s)
  PROVE  Contract!Insert(s)
<1>1. halted /\ halted' /\ UNCHANGED <<prog, hart, pc, ebreakm, havereset>>
  BY DEF IInv, ModeMatchesHart, handle_Z0, SetBreakpoint, AcceptSet, targetVars, softVars
<1>2. BpSet' = BpSet \cup {s} /\ SeenMemory' = SeenMemory
  BY <1>1, SeenIsProgram DEF IInv, HostAgrees, handle_Z0
<1> QED
  BY <1>1, <1>2 DEF Contract!Insert, SeenMemory, Program

LEMMA RemoveRefines ==
  ASSUME IInv, IInv', NEW s \in Site, handle_z0(s)
  PROVE  Contract!Remove(s)
<1>1. halted /\ halted' /\ UNCHANGED <<prog, hart, pc, ebreakm, havereset>>
  BY DEF IInv, ModeMatchesHart, handle_z0, ClearBreakpoint, AcceptClear, targetVars, softVars
<1>2. BpSet' = BpSet \ {s} /\ SeenMemory' = SeenMemory
  BY <1>1, SeenIsProgram DEF IInv, HostAgrees, handle_z0
<1> QED
  BY <1>1, <1>2 DEF Contract!Remove, SeenMemory, Program

LEMMA IdleRefines ==
  ASSUME IInv, LayoutInPage, IInv', handle_s \/ MonitorReset \/ handle_k
  PROVE  Contract!StepOne \/ Contract!ResetHart \/ UNCHANGED Contract!contractVars
<1>1. /\ halted /\ halted' /\ pc \in Site
      /\ UNCHANGED <<prog, breakpoints, hart>> \/ MonitorReset
      /\ UNCHANGED <<prog, breakpoints>>
  BY DEF IInv, ModeMatchesHart, handle_s, MonitorReset, handle_k, Step, Reset,
         hostVars, targetVars, softVars, tableVars, TypeOK, TargetTypeOK
<1>2. BpSet' = BpSet /\ SeenMemory' = SeenMemory
  BY <1>1, SeenIsProgram DEF BpSet
<1>3. CASE handle_s
  <2>1. pc' \in Contract!Moves(pc) /\ UNCHANGED <<ebreakm, havereset>>
    BY <1>1, <1>3, StepIsMove DEF handle_s, Step, Contract!Moves
  <2> QED
    BY <1>1, <1>2, <2>1 DEF Contract!StepOne, SeenMemory, Program
<1>4. CASE MonitorReset
  <2>1. pc' = ResetPc /\ ebreakm' = TRUE /\ havereset' = FALSE
    BY <1>4 DEF MonitorReset, Reset, RvdReset
  <2> QED
    BY <1>1, <1>2, <2>1 DEF Contract!ResetHart, SeenMemory, Program
<1>5. CASE handle_k
  <2>1. UNCHANGED <<pc, ebreakm, havereset>>
    BY <1>5 DEF handle_k, targetVars
  <2> QED
    BY <1>1, <1>2, <2>1 DEF Contract!contractVars, SeenMemory, Program
<1> QED
  BY <1>3, <1>4, <1>5

LEMMA HartRefines ==
  ASSUME IInv, LayoutInPage, IInv', Hart
  PROVE  Contract!Execute \/ Contract!Trap
<1>1. /\ ~halted /\ ~halted' /\ hart = "running"
      /\ UNCHANGED <<prog, breakpoints, ebreakm, havereset>>
  BY DEF Hart, HartStep, HartExecute, HartTrap, hostVars, softVars, tableVars, IInv, ModeMatchesHart
<1>2. BpSet' = BpSet /\ SeenMemory' = SeenMemory /\ (EbreakIn(pc) <=> pc \in BpSet)
  BY <1>1, SeenIsProgram, EbreakIsBreakpoint DEF BpSet
<1>3. CASE HartExecute
  BY <1>1, <1>2, <1>3 DEF HartExecute, Contract!Execute, SeenMemory, Program
<1>4. CASE HartTrap
  BY <1>1, <1>2, <1>4 DEF HartTrap, Contract!Trap, SeenMemory, Program
<1> QED
  BY <1>3, <1>4 DEF Hart, HartStep

LEMMA DisconnectRefines ==
  ASSUME IInv, LayoutInPage, IInv', Disconnect
  PROVE  (\E s \in Site : Contract!Go(s)) \/ UNCHANGED Contract!contractVars
<1>1. BpSet = {} /\ BpSet' = {} /\ UNCHANGED prog /\ SeenMemory' = SeenMemory /\ pc \in Site
  BY SeenIsProgram DEF IInv, HostAgrees, Disconnect, DropConnection, TypeOK, TargetTypeOK
<1>2. CASE PatchAndRun(pc, {})
  <2>1. halted
    BY <1>2 DEF PatchAndRun
  <2>2. pc' \in Contract!Moves(pc) /\ pc' \notin BpSet
    BY <1>1, <1>2, <2>1, StepIsMove DEF Contract!Moves, PatchAndRun
  <2>3. RunState = "halted" /\ RunState' = IF havereset THEN "stopped" ELSE "running"
    BY <1>2, <2>1 DEF RunState, PatchAndRun, RvdResume, IInv, ModeMatchesHart
  <2>4. UNCHANGED <<ebreakm, havereset>>
    BY <1>2 DEF PatchAndRun
  <2>5. Contract!Go(pc)
    BY <1>1, <2>2, <2>3, <2>4 DEF Contract!Go, RunState, SeenMemory, Program
  <2> QED
    BY <1>1, <2>5
<1>3. CASE ~halted /\ UNCHANGED <<targetVars, halted, flash_clean, flash_dirty, mapVars>>
  <2>1. UNCHANGED <<hart, pc, ebreakm, havereset, halted>>
    BY <1>3 DEF targetVars
  <2> QED
    BY <1>1, <2>1 DEF Contract!contractVars, SeenMemory, Program
<1> QED
  BY <1>2, <1>3 DEF Disconnect, DropConnection, Resume, PatchAndRun

LEMMA LoadRefines ==
  ASSUME IInv, IInv', NEW p \in Page, NEW build \in Code, LoadPage(p, build)
  PROVE  \E c \in Cell : Contract!Load(PageOf(c), build)
<1>1. /\ halted /\ halted' /\ UNCHANGED <<hart, pc, ebreakm, havereset, breakpoints>>
      /\ prog' = [prog EXCEPT ![p] = build] /\ prog \in [Page -> Code]
  BY DEF IInv, ModeMatchesHart, LoadPage, WritePage, softVars, tableVars, TypeOK
<1>2. PICK c \in Cell : PageOf(c) = p
  BY DEF Page
<1>3. Program' = [d \in Cell |-> IF PageOf(d) = p THEN build ELSE Program[d]]
  BY <1>1, CellPage DEF Program
<1>4. SeenMemory' = [d \in Cell |-> IF PageOf(d) = PageOf(c) THEN build ELSE SeenMemory[d]]
  BY <1>2, <1>3, SeenIsProgram
<1>5. BpSet' = BpSet
  BY <1>1 DEF BpSet
<1> QED
  BY <1>1, <1>4, <1>5 DEF Contract!Load, SeenMemory, Program

LEMMA ConsoleResumeRefines ==
  ASSUME IInv, LayoutInPage, IInv', ConsoleResume
  PROVE  (\E s \in Site : Contract!Go(s)) \/ UNCHANGED Contract!contractVars
<1>1. /\ BpSet = {} /\ BpSet' = {} /\ UNCHANGED <<prog, tableVars>>
      /\ SeenMemory' = SeenMemory /\ pc \in Site
  <2>1. BpSet = {} /\ UNCHANGED <<prog, tableVars, breakpoints>> /\ pc \in Site
    BY DEF IInv, HostAgrees, ModeMatchesHart, ConsoleResume, hostVars, tableVars, TypeOK, TargetTypeOK
  <2> QED
    BY <2>1, SeenIsProgram DEF BpSet
<1>2. CASE PatchAndRun(pc, BpSet)
  <2>1. halted
    BY <1>2 DEF PatchAndRun
  <2> QED
    BY <1>1, <1>2, <2>1, ResumeRefines
<1>3. CASE ~halted /\ UNCHANGED <<targetVars, halted, flash_clean, flash_dirty, mapVars>>
  <2>1. UNCHANGED <<hart, pc, ebreakm, havereset, halted>>
    BY <1>3 DEF targetVars
  <2> QED
    BY <1>1, <2>1 DEF Contract!contractVars, SeenMemory, Program
<1> QED
  BY <1>1, <1>2, <1>3 DEF ConsoleResume, Resume, PatchAndRun

LEMMA RestartRefines ==
  ASSUME IInv, IInv', Restart
  PROVE  Contract!StartOver
<1>1. BpSet' = {} /\ SeenMemory' = SeenMemory
  BY SeenIsProgram DEF Restart, PicoRestart, SoftRestart, BpSet
<1>2. RunState' \in IF RunState = "running" THEN {"running"} ELSE {"halted", "running"}
  BY DEF RunState, Restart, PicoRestart, SoftRestart, IInv, TypeOK, TargetTypeOK, ModeMatchesHart
<1>3. ebreakm' \in BOOLEAN /\ UNCHANGED <<pc, havereset>>
  BY DEF Restart, PicoRestart
<1> QED
  BY <1>1, <1>2, <1>3 DEF Contract!StartOver, RunState, SeenMemory, Program

LEMMA StepRefines ==
  ASSUME IInv, Discipline, IInv', [Next]_vars
  PROVE  [Contract!ContractNext]_(Contract!contractVars)
<1> LayoutInPage
  BY DEF Discipline
<1>1. CASE Connect \/ Break \/ Poll \/ ConsoleHalt
  BY <1>1, HaltRefines DEF Connect, Break, Poll, ConsoleHalt, hostVars, Contract!ContractNext
<1>2. CASE handle_s \/ MonitorReset \/ handle_k
  BY <1>2, IdleRefines DEF Contract!ContractNext
<1>3. CASE Hart
  BY <1>3, HartRefines DEF Contract!ContractNext
<1>4. CASE Disconnect
  BY <1>4, DisconnectRefines DEF Contract!ContractNext
<1>5. CASE \E s \in Site : handle_Z0(s) \/ handle_z0(s) \/ handle_c(s)
  BY <1>5, InsertRefines, RemoveRefines, ContinueRefines DEF Contract!ContractNext
<1>6. CASE \E p \in Page, build \in Code : LoadPage(p, build)
  BY <1>6, LoadRefines DEF Contract!ContractNext
<1>7. CASE UNCHANGED vars
  BY <1>7 DEF vars, targetVars, softVars, tableVars, hostVars, BpSet, Contract!contractVars
<1>8. CASE Restart \/ ConsoleResume
  BY <1>8, RestartRefines, ConsoleResumeRefines DEF Contract!ContractNext
<1> QED
  BY <1>1, <1>2, <1>3, <1>4, <1>5, <1>6, <1>7, <1>8 DEF Next

\* SoftBreak under a disciplined host implements the target with breakpoints
\* that GDB is promised: patching and unpatching never show.
THEOREM SoftBreakImplementsContract == ASSUME Discipline PROVE Spec => ImplementsContract
<1>1. Init => Contract!ContractInit
  BY InitRefines
<1>2. IInv /\ IInv' /\ [Next]_vars => [Contract!ContractNext]_(Contract!contractVars)
  BY StepRefines
<1> QED
  BY <1>1, <1>2, SessionInvariant, PTL DEF Spec, ImplementsContract, Contract!ContractSpec

=============================================================================
