-------------------------- MODULE FlashStreamProofs ---------------------------
(***************************************************************************)
(* A blob that is streamed to the target is in its pages word for word,    *)
(* for any number of pages and any requests, wherever the Pico starts over *)
(* and however fast either side is.                                        *)
(***************************************************************************)
EXTENDS FlashStream, TLAPS

-----------------------------------------------------------------------------
(* The inductive invariant *)

Pages == PagesOf(asked.words)
Start == First(asked.page)
InRange(c, from, to) == from <= PageOf(c) /\ PageOf(c) < to

\* The request's pages below p are wiped, the others as before.
WipedTo(p) ==
  \A c \in Cell : flash[c] = IF InRange(c, asked.page, asked.page + p) THEN Blank ELSE before[c]

\* The request's pages below p are written, its others wiped.
WrittenTo(p) ==
  \A c \in Cell :
    IF InRange(c, asked.page, asked.page + p) THEN flash[c] \in Leaves(c)
    ELSE flash[c] = IF InRange(c, asked.page + p, asked.page + Pages) THEN Blank ELSE before[c]

\* The d first words of page p are in the buffer.
Filled(p, d) ==
  \A s \in Slot : IF s < d THEN buffer[s] \in Leaves(First(asked.page + p) + s)
                   ELSE buffer[s] = Blank

\* The program has taken p pages and d words.
Taken(p, d) ==
  /\ WrittenTo(p) /\ Filled(p, d)
  /\ addr = First(asked.page + p) /\ a2 = First(asked.page + p) + d

\* Where the program stands in its run for the word the Pico has put into DATA0.
Running ==
  CASE hart = "copy" -> Taken(page, dword) /\ data0 = Wanted(First(asked.page + page) + dword)
    [] hart = "advance" ->
         /\ WrittenTo(page) /\ Filled(page, dword + 1)
         /\ addr = First(asked.page + page) /\ a2 = First(asked.page + page) + dword
    [] hart = "start" -> Taken(page, dword + 1) /\ dword + 1 = PageWords
    [] hart = "next" ->
         /\ WrittenTo(page + 1) /\ dword + 1 = PageWords
         /\ a2 = First(asked.page + page) + dword + 1
    [] hart = "ebreak" ->
         IF dword + 1 < PageWords THEN Taken(page, dword + 1) ELSE Taken(page + 1, 0)
    [] OTHER -> FALSE

\* What the Pico may count on at each of its steps.
StepInv ==
  /\ step \in {"idle", "done"} => hart = "ebreak" /\ ~autoexec
  /\ step \notin {"idle", "done"} => page \in 0..Pages
  /\ step = "wipe" => page < Pages /\ dword = 0 /\ hart = "ebreak" /\ ~autoexec /\ WipedTo(page)
  /\ step = "wiping" =>
       /\ page < Pages /\ dword = 0 /\ ~autoexec /\ ~locked
       /\ \/ hart = "erase" /\ addr = First(asked.page + page) /\ WipedTo(page)
          \/ hart = "ebreak" /\ WipedTo(page + 1)
  /\ step = "setup" => page = 0 /\ dword = 0 /\ hart = "ebreak" /\ ~autoexec /\ WipedTo(Pages)
  /\ step = "regs" =>
       /\ page = 0 /\ dword = 0 /\ hart = "ebreak" /\ ~autoexec /\ ~locked /\ WipedTo(Pages)
       /\ buffer = EmptyBuffer /\ addr = First(asked.page) /\ (gpr > 12 => a2 = First(asked.page))
  /\ step = "feed" => page < Pages /\ hart = "ebreak" /\ Taken(page, dword) /\ ~locked
  /\ step = "feed" /\ ~autoexec => page = 0 /\ dword = 0
  /\ step = "run" =>
       /\ page = 0 /\ dword = 0 /\ hart = "ebreak" /\ ~autoexec /\ ~locked
       /\ Taken(0, 0) /\ data0 = Wanted(Start)
  /\ step = "auto" => page = 0 /\ dword = 0 /\ ~autoexec /\ ~locked /\ Running
  /\ step = "wait" => page < Pages /\ autoexec /\ ~locked /\ Running
  /\ step = "finish" => hart = "ebreak" /\ WrittenTo(Pages)
  /\ step = "done" => WrittenTo(Pages)

CountInv == (step # "idle" => count > 0) /\ (count > 0 => Padded(asked))

\* Until the first word is moved, the write is the first since the Pico started.
FreshInv ==
  fresh => /\ step \notin {"idle", "done"} => first
           /\ ~autoexec /\ (step = "auto" => hart = "copy")

IInv == TypeOK /\ PagesWhole /\ CountInv /\ StepInv /\ FreshInv
-----------------------------------------------------------------------------
(* Arithmetic *)

LEMMA PageNumbers ==
  ASSUME NEW c \in Nat
  PROVE  PageOf(c) \in Nat /\ c % 16 \in 0..15 /\ c = First(PageOf(c)) + (c % 16)
BY DEF PageOf, First, PageWords

LEMMA WordNumbers ==
  ASSUME NEW p \in Nat, NEW s \in 0..15
  PROVE  First(p) + s \in Nat /\ PageOf(First(p) + s) = p /\ (First(p) + s) % 16 = s
BY DEF PageOf, First, PageWords

LEMMA FirstOfPage ==
  ASSUME NEW p \in Nat
  PROVE  /\ First(p) \in Nat /\ PageOf(First(p)) = p /\ First(p) % 16 = 0
         /\ First(p + 1) = First(p) + 16
BY DEF PageOf, First, PageWords

LEMMA PagesOfWords ==
  ASSUME NEW w \in Nat \ {0}
  PROVE  /\ PagesOf(w) \in Nat \ {0} /\ w <= PagesOf(w) * 16
         /\ w % 16 = 0 => PagesOf(w) * 16 = w
         /\ w < 16 => PagesOf(w) = 1
BY DEF PagesOf, PageWords

LEMMA RequestFacts ==
  ASSUME NEW r \in Request
  PROVE  /\ r.page \in Nat /\ r.words \in Nat \ {0} /\ PagesOf(r.words) \in Nat \ {0}
         /\ r.page + PagesOf(r.words) <= PageCount /\ PageCount \in Nat
         /\ r.words <= PageCount * 16
<1>1. r.page \in Nat /\ r.words \in Nat \ {0} /\ r.page + PagesOf(r.words) <= PageCount
      /\ PageCount \in Nat
  BY FlashStreamAssumption DEF Page
<1>2. PagesOf(r.words) \in Nat \ {0} /\ r.words <= PagesOf(r.words) * 16
  BY <1>1, PagesOfWords
<1> QED
  BY <1>1, <1>2

\* The word the Pico puts into DATA0 is the one that is wanted in its cell.
LEMMA SourceIsWanted ==
  ASSUME asked \in Request, Padded(asked), page \in Nat, page < Pages, dword \in 0..15
  PROVE  Source = Wanted(First(asked.page + page) + dword)
<1>1. asked.page \in Nat /\ asked.words \in Nat \ {0}
  BY RequestFacts
<1> DEFINE i == page * 16 + dword
           cell == First(asked.page + page) + dword
<1>2. cell - First(asked.page) = i /\ i \in Nat
  BY <1>1 DEF First, PageWords
<1>3. Wanted(cell) = IF i < asked.words THEN <<count, i>> ELSE Filler
  BY <1>2 DEF Wanted
<1>4. Source = IF dword >= asked.words THEN Filler ELSE IF i < asked.words THEN <<count, i>> ELSE Behind
  BY DEF Source, PageWords
<1> HIDE DEF cell
<1>5. CASE asked.words % 16 = 0
  <2>1. Pages * 16 = asked.words /\ Pages \in Nat
    BY <1>1, <1>5, PagesOfWords DEF Pages
  <2>2. i < asked.words /\ ~(dword >= asked.words)
    BY <2>1, <1>1
  <2> QED
    BY <1>3, <1>4, <2>2 DEF cell
<1>6. CASE asked.words < 16
  <2>1. page = 0 /\ i = dword
    BY <1>1, <1>6, PagesOfWords DEF Pages
  <2>2. i < asked.words <=> ~(dword >= asked.words)
    BY <1>1, <2>1
  <2> HIDE DEF i
  <2> QED
    BY <1>3, <1>4, <2>2 DEF cell
<1> QED
  BY <1>5, <1>6 DEF Padded, PageWords

LEMMA WantedIsWord ==
  ASSUME asked \in Request, count \in 1..MaxWrites, NEW c \in Nat, First(asked.page) <= c
  PROVE  Wanted(c) \in Word /\ Wanted(c) # Blank
<1> DEFINE i == c - First(asked.page)
<1>1. asked.page \in Nat /\ asked.words \in Nat \ {0} /\ asked.words <= PageCount * 16 /\ PageCount \in Nat
  BY RequestFacts
<1>2. i \in Nat
  BY <1>1 DEF First, PageWords
<1>3. CASE i < asked.words
  <2>1. i \in Cell
    BY <1>1, <1>2, <1>3 DEF Cell, PageWords
  <2> QED
    BY <1>3, <2>1 DEF Wanted, Word, Blank
<1>4. CASE ~(i < asked.words)
  BY <1>4 DEF Wanted, Word, Blank, Filler
<1> QED
  BY <1>3, <1>4

\* A step that leaves flash and the history alone leaves what is said of them.
LEMMA WipedIsWhole == TypeOK /\ (\E p \in 0..Pages : WipedTo(p)) => PagesWhole
<1> SUFFICES ASSUME TypeOK, NEW p \in 0..Pages, WipedTo(p), NEW q \in Page
             PROVE  Kept(q) \/ (Asked(q) /\ (Erased(q) \/ Written(q)))
  BY DEF PagesWhole
<1>1. asked.page \in Nat /\ Pages \in Nat /\ q \in Nat
  BY RequestFacts DEF TypeOK, Pages, Page
<1>2. CASE asked.page <= q /\ q < asked.page + p
  <2>1. Asked(q) /\ Erased(q)
    BY <1>1, <1>2 DEF Asked, Erased, WipedTo, InRange, Pages
  <2> QED
    BY <2>1
<1>3. CASE ~(asked.page <= q /\ q < asked.page + p)
  <2>1. Kept(q)
    BY <1>1, <1>3 DEF Kept, WipedTo, InRange
  <2> QED
    BY <2>1
<1> QED
  BY <1>2, <1>3

LEMMA WrittenIsWhole == TypeOK /\ (\E p \in 0..Pages : WrittenTo(p)) => PagesWhole
<1> SUFFICES ASSUME TypeOK, NEW p \in 0..Pages, WrittenTo(p), NEW q \in Page
             PROVE  Kept(q) \/ (Asked(q) /\ (Erased(q) \/ Written(q)))
  BY DEF PagesWhole
<1>1. asked.page \in Nat /\ Pages \in Nat /\ q \in Nat
  BY RequestFacts DEF TypeOK, Pages, Page
<1>2. CASE asked.page <= q /\ q < asked.page + p
  <2>1. Asked(q)
    BY <1>1, <1>2 DEF Asked, Pages
  <2>2. Written(q)
    BY <1>1, <1>2 DEF Written, WrittenTo, InRange
  <2> QED
    BY <2>1, <2>2
<1>3. CASE asked.page + p <= q /\ q < asked.page + Pages
  <2>1. Asked(q)
    BY <1>1, <1>3 DEF Asked, Pages
  <2>2. Erased(q)
    BY <1>1, <1>3 DEF Erased, WrittenTo, InRange
  <2> QED
    BY <2>1, <2>2
<1>4. CASE ~(asked.page <= q /\ q < asked.page + p) /\ ~(asked.page + p <= q /\ q < asked.page + Pages)
  <2>1. Kept(q)
    BY <1>1, <1>4 DEF Kept, WrittenTo, InRange
  <2> QED
    BY <2>1
<1> QED
  BY <1>2, <1>3, <1>4

-----------------------------------------------------------------------------
(* Types *)

LEMMA BlankIsWord == {Blank, Filler, Behind, Garbled, Other, BadWord} \subseteq Word
<1>1. BadWord = GprWord(14) /\ 14 \in Argument
  BY DEF BadWord, Argument
<1> QED
  BY <1>1 DEF Word

LEMMA InitInv == Init => IInv
<1> SUFFICES ASSUME Init PROVE IInv
  OBVIOUS
<1>1. TypeOK
  <2>1. 0 \in 0..PageCount /\ 0 \in Slot /\ 0 \in 0..MaxWrites /\ 10 \in Argument
    BY FlashStreamAssumption DEF Slot, PageWords, Argument
  <2>2. Other \in Word /\ Blank \in Word
    BY BlankIsWord
  <2> QED
    BY <2>1, <2>2 DEF Init, TypeOK, EmptyBuffer
<1> QED
  BY <1>1 DEF IInv, Init, PagesWhole, CountInv, StepInv, FreshInv

LEMMA TypeStep ==
  ASSUME IInv, [Next]_vars
  PROVE  TypeOK'
<1> USE DEF vars, flashVars, hartVars, picoVars, histVars
<1>1. TypeOK /\ CountInv /\ StepInv
  BY DEF IInv
<1>2. /\ asked \in Request /\ asked.page \in Nat /\ asked.words \in Nat \ {0}
      /\ Pages \in Nat \ {0} /\ asked.page + Pages <= PageCount /\ PageCount \in Nat
  BY <1>1, RequestFacts DEF TypeOK, Pages
<1>3. CASE ErasePage
  BY <1>1, <1>3, BlankIsWord DEF ErasePage, TypeOK
<1>4. CASE CopyWord
  <2>1. PICK w \in Moved : buffer' = [buffer EXCEPT ![a2 % PageWords] = w]
    BY <1>4 DEF CopyWord
  <2>2. w \in Word
    BY <1>1, BlankIsWord DEF Moved, TypeOK
  <2> QED
    BY <1>1, <1>4, <2>1, <2>2 DEF CopyWord, TypeOK
<1>5. CASE Advance
  BY <1>1, <1>5 DEF Advance, TypeOK
<1>6. CASE StartPage
  <2>1. ASSUME NEW c \in Cell PROVE Program(flash[c], buffer[c % PageWords]) \in Word
    <3>1. c \in Nat
      BY <1>2 DEF Cell
    <3>2. c % PageWords \in Slot
      BY <3>1 DEF Slot, PageWords
    <3> QED
      BY <1>1, <3>2, BlankIsWord DEF TypeOK, Program
  <2> QED
    BY <1>1, <1>6, <2>1 DEF StartPage, TypeOK
<1>7. CASE NextPage
  BY <1>1, <1>7, BlankIsWord DEF NextPage, TypeOK, EmptyBuffer
<1>8. ASSUME NEW r \in Request, Begin(r) PROVE TypeOK'
  <2>1. count' \in 0..MaxWrites
    BY <1>1, <1>8, FlashStreamAssumption DEF Begin, TypeOK
  <2> QED
    BY <1>1, <1>2, <1>8, <2>1 DEF Begin, TypeOK, Slot, PageWords
<1>9. CASE Wipe
  <2>1. page \in Nat
    BY <1>1 DEF TypeOK
  <2>2. First(asked.page + page) \in Nat
    BY <1>2, <2>1 DEF First, PageWords
  <2> QED
    BY <1>1, <1>9, <2>2 DEF Wipe, At, TypeOK
<1>10. CASE Wiped
  BY <1>1, <1>2, <1>10 DEF Wiped, TypeOK, Pages
<1>11. CASE Setup
  <2>1. First(asked.page) \in Nat /\ 10 \in Argument
    BY <1>2 DEF First, PageWords, Argument
  <2> QED
    BY <1>1, <1>11, <2>1, BlankIsWord DEF Setup, At, TypeOK, EmptyBuffer
<1>21. CASE SetGpr
  <2>1. First(asked.page) \in Nat
    BY <1>2 DEF First, PageWords
  <2>2. GprWord(gpr) \in Word
    BY <1>1 DEF TypeOK, Word
  <2>3. a2' \in Nat /\ gpr' \in Argument /\ step' \in {"regs", "feed"}
    BY <1>1, <1>21, <2>1 DEF SetGpr, TypeOK
  <2> QED
    BY <1>1, <1>21, <2>2, <2>3 DEF SetGpr, TypeOK
<1>12. CASE Feed
  <2>1. page \in Nat /\ dword \in 0..15 /\ page < Pages /\ Padded(asked) /\ count \in 1..MaxWrites
    BY <1>1, <1>12 DEF Feed, At, TypeOK, StepInv, CountInv, Slot, PageWords
  <2>2. First(asked.page + page) + dword \in Nat /\ First(asked.page) <= First(asked.page + page) + dword
    BY <1>2, <2>1 DEF First, PageWords
  <2>3. Source \in Word
    BY <1>2, <2>1, <2>2, SourceIsWanted, WantedIsWord
  <2> QED
    BY <1>1, <1>12, <2>3 DEF Feed, At, TypeOK
<1>13. CASE RunFirst
  BY <1>1, <1>13 DEF RunFirst, At, TypeOK
<1>14. ASSUME NextWord, step \in {"auto", "wait"}
       PROVE  /\ page' \in 0..PageCount /\ dword' \in Slot
              /\ step' \in {"feed", "finish"}
  <2>1. page < Pages
    BY <1>1, <1>2, <1>14 DEF StepInv
  <2> QED
    BY <1>1, <1>2, <1>14, <2>1 DEF NextWord, TypeOK, Slot, PageWords
<1>15. CASE AutoOn
  <2>1. NextWord /\ step = "auto"
    BY <1>15 DEF AutoOn
  <2> QED
    BY <1>1, <1>14, <1>15, <2>1 DEF AutoOn, TypeOK
<1>16. CASE Wait
  <2>1. NextWord /\ step = "wait"
    BY <1>16 DEF Wait
  <2> QED
    BY <1>1, <1>14, <1>16, <2>1 DEF Wait, TypeOK
<1>17. CASE Finish
  BY <1>1, <1>17, BlankIsWord DEF Finish, At, TypeOK
<1>18. CASE Restart
  <2>1. 0 \in 0..PageCount /\ 0 \in Slot /\ 10 \in Argument
    BY <1>2 DEF Slot, PageWords, Argument
  <2>2. Other \in Word
    BY BlankIsWord
  <2>3. /\ flash' = flash /\ before' = before /\ buffer' = buffer /\ addr' = addr /\ locked' = locked
        /\ a2' = a2 /\ asked' = asked /\ count' = count /\ first' = first /\ fresh' = TRUE
        /\ hart' = "ebreak" /\ data0' = Other /\ autoexec' = FALSE /\ step' = "idle"
        /\ page' = 0 /\ dword' = 0 /\ gpr' = 10
    BY <1>18 DEF Restart
  <2> QED
    BY <1>1, <2>1, <2>2, <2>3 DEF TypeOK
<1>19. CASE Lock
  BY <1>1, <1>19 DEF Lock, TypeOK
<1>20. CASE UNCHANGED vars
  BY <1>1, <1>20 DEF TypeOK
<1> QED
  BY <1>3, <1>4, <1>5, <1>6, <1>7, <1>8, <1>9, <1>10, <1>11, <1>12, <1>13, <1>15, <1>16, <1>17,
     <1>18, <1>19, <1>20, <1>21 DEF Next, Hart, Pico

-----------------------------------------------------------------------------
(* The steps of the target *)

Same == asked' = asked /\ count' = count /\ before' = before /\ first' = first

LEMMA WholeSame ==
  ASSUME IInv, Same, flash' = flash
  PROVE  PagesWhole'
<1>1. PagesWhole
  BY DEF IInv
<1> QED
  BY <1>1 DEF Same, PagesWhole, Asked, Erased, Written, Kept, Leaves, Wanted

LEMMA Unpack ==
  ASSUME IInv
  PROVE  /\ TypeOK /\ PagesWhole /\ CountInv /\ StepInv /\ FreshInv
         /\ asked \in Request /\ asked.page \in Nat /\ asked.words \in Nat \ {0}
         /\ Pages \in Nat \ {0} /\ asked.page + Pages <= PageCount /\ PageCount \in Nat
         /\ page \in Nat /\ dword \in 0..15
<1>1. TypeOK /\ PagesWhole /\ CountInv /\ StepInv /\ FreshInv
  BY DEF IInv
<1> QED
  BY <1>1, RequestFacts DEF TypeOK, Pages, Slot, PageWords

LEMMA Here ==
  ASSUME IInv
  PROVE  /\ asked.page + page \in Nat /\ page \in Nat /\ dword \in 0..15
         /\ First(asked.page + page) \in Nat /\ PageOf(First(asked.page + page)) = asked.page + page
         /\ First(asked.page + (page + 1)) = First(asked.page + page) + 16
         /\ First(asked.page + (page + 1)) % 16 = 0
         /\ (First(asked.page + page) + dword) % 16 = dword
         /\ dword + 1 < 16 => (First(asked.page + page) + (dword + 1)) % 16 = dword + 1
<1> DEFINE p == asked.page + page
<1>1. p \in Nat /\ page \in Nat /\ dword \in 0..15 /\ asked.page + (page + 1) = p + 1 /\ p + 1 \in Nat
  BY Unpack
<1> HIDE DEF p
<1>2. /\ First(p) \in Nat /\ PageOf(First(p)) = p /\ First(p + 1) = First(p) + 16
      /\ First(p + 1) % 16 = 0
  BY <1>1, FirstOfPage
<1>3. (First(p) + dword) % 16 = dword
  BY <1>1, WordNumbers
<1>4. dword + 1 < 16 => (First(p) + (dword + 1)) % 16 = dword + 1
  <2>1. dword + 1 < 16 => dword + 1 \in 0..15
    BY <1>1
  <2> QED
    BY <1>1, <2>1, WordNumbers
<1> QED
  BY <1>1, <1>2, <1>3, <1>4 DEF p

LEMMA AtStart ==
  ASSUME IInv
  PROVE  asked.page + 0 = asked.page /\ First(asked.page) + 0 = First(asked.page)
<1>1. asked.page \in Nat
  BY Unpack
<1>2. First(asked.page) \in Nat
  BY <1>1, FirstOfPage
<1> QED
  BY <1>1, <1>2

LEMMA HartPlace ==
  ASSUME IInv
  PROVE  /\ hart = "erase" =>
              /\ step = "wiping" /\ page < Pages /\ dword = 0 /\ ~autoexec /\ ~locked
              /\ addr = First(asked.page + page) /\ WipedTo(page)
         /\ hart \in {"copy", "advance", "start", "next"} =>
              /\ step \in {"auto", "wait"} /\ page < Pages /\ ~locked /\ Running
              /\ step = "auto" => page = 0 /\ dword = 0 /\ ~autoexec
              /\ step = "wait" => autoexec
         /\ step # "idle" => count > 0 /\ count \in 1..MaxWrites /\ Padded(asked)
<1>1. step \in {"idle", "wipe", "wiping", "setup", "regs", "feed", "run", "auto", "wait", "finish", "done"}
      /\ count \in 0..MaxWrites
  BY Unpack DEF TypeOK
<1>2. hart = "erase" => step = "wiping"
  <2>1. hart = "erase" => ~Running
    BY DEF Running
  <2> QED
    BY <1>1, <2>1, Unpack DEF StepInv
<1>3. hart \in {"copy", "advance", "start", "next"} => step \in {"auto", "wait"}
  BY <1>1, Unpack DEF StepInv
<1>4. hart = "erase" =>
        /\ page < Pages /\ dword = 0 /\ ~autoexec /\ ~locked
        /\ addr = First(asked.page + page) /\ WipedTo(page)
  BY <1>2, Unpack DEF StepInv
<1>5. hart \in {"copy", "advance", "start", "next"} =>
        /\ page < Pages /\ ~locked /\ Running
        /\ step = "auto" => page = 0 /\ dword = 0 /\ ~autoexec
        /\ step = "wait" => autoexec
  BY <1>3, Unpack DEF StepInv
<1>6. step # "idle" => count > 0 /\ count \in 1..MaxWrites /\ Padded(asked)
  BY <1>1, Unpack DEF CountInv
<1> QED
  BY <1>2, <1>3, <1>4, <1>5, <1>6

\* A step of the program within the run for one word.
LEMMA WithinRun ==
  ASSUME IInv, Same, hart \in {"copy", "advance", "start", "next"}, Running',
         step' = step, page' = page, dword' = dword, autoexec' = autoexec, locked' = locked
  PROVE  CountInv' /\ StepInv'
<1>1. /\ step \in {"auto", "wait"} /\ page < Pages /\ ~locked
      /\ step = "auto" => page = 0 /\ dword = 0 /\ ~autoexec
      /\ step = "wait" => autoexec
  BY HartPlace
<1>2. Pages' = Pages
  BY DEF Same, Pages
<1>3. CountInv'
  BY Unpack DEF CountInv, Same, Padded
<1>4. page' \in 0..Pages'
  BY <1>1, <1>2, Unpack
<1> QED
  BY <1>1, <1>2, <1>3, <1>4 DEF StepInv

LEMMA ErasePageInv ==
  ASSUME IInv, ErasePage, TypeOK'
  PROVE  PagesWhole' /\ CountInv' /\ StepInv'
<1>1. /\ hart = "erase" /\ hart' = "ebreak" /\ step' = step /\ page' = page /\ dword' = dword
      /\ autoexec' = autoexec /\ locked' = locked /\ Same
      /\ flash' = [c \in Cell |-> IF PageOf(c) = PageOf(addr) /\ ~locked THEN Blank ELSE flash[c]]
  BY DEF ErasePage, picoVars, histVars, Same
<1>2. /\ step = "wiping" /\ page < Pages /\ dword = 0 /\ ~autoexec /\ ~locked
      /\ addr = First(asked.page + page) /\ WipedTo(page)
  BY <1>1, HartPlace
<1>3. PageOf(addr) = asked.page + page
  <2>1. asked.page + page \in Nat
    BY Unpack
  <2> QED
    BY <1>2, <2>1, FirstOfPage
<1>4. WipedTo(page + 1)'
  <2> SUFFICES ASSUME NEW c \in Cell
               PROVE  flash'[c] = IF InRange(c, asked.page, asked.page + (page + 1)) THEN Blank ELSE before[c]
    BY <1>1 DEF WipedTo, InRange, Same
  <2>1. PageOf(c) \in Nat
    BY PageNumbers, Unpack DEF Cell
  <2>2. flash[c] = IF InRange(c, asked.page, asked.page + page) THEN Blank ELSE before[c]
    BY <1>2 DEF WipedTo
  <2>3. flash'[c] = IF PageOf(c) = asked.page + page THEN Blank ELSE flash[c]
    BY <1>1, <1>2, <1>3
  <2>4. InRange(c, asked.page, asked.page + (page + 1)) <=>
          InRange(c, asked.page, asked.page + page) \/ PageOf(c) = asked.page + page
    BY <2>1, Unpack DEF InRange
  <2> QED
    BY <2>2, <2>3, <2>4
<1>5. Pages' = Pages
  BY <1>1 DEF Same, Pages
<1>6. PagesWhole'
  <2>1. page + 1 \in 0..Pages'
    BY <1>2, <1>5, Unpack
  <2>2. (\E p \in 0..Pages : WipedTo(p))'
    BY <1>1, <1>4, <2>1
  <2> QED
    BY <2>2, WipedIsWhole, PTL
<1>7. CountInv'
  BY <1>1, Unpack DEF CountInv, Same, Padded
<1>8. StepInv'
  BY <1>1, <1>2, <1>4, <1>5, Unpack DEF StepInv
<1> QED
  BY <1>6, <1>7, <1>8

LEMMA WrittenSame ==
  ASSUME Same, flash' = flash, NEW p, WrittenTo(p)
  PROVE  \A c \in Cell :
           IF InRange(c, asked'.page, asked'.page + p) THEN flash'[c] \in Leaves(c)'
           ELSE flash'[c] = IF InRange(c, asked'.page + p, asked'.page + Pages') THEN Blank ELSE before'[c]
BY DEF WrittenTo, Same, Leaves, Wanted, Pages

LEMMA CopyWordInv ==
  ASSUME IInv, CopyWord
  PROVE  PagesWhole' /\ CountInv' /\ StepInv'
<1>1. /\ hart = "copy" /\ hart' = "advance" /\ step' = step /\ page' = page /\ dword' = dword
      /\ autoexec' = autoexec /\ locked' = locked /\ Same /\ flash' = flash
      /\ addr' = addr /\ a2' = a2 /\ \E w \in Moved : buffer' = [buffer EXCEPT ![a2 % 16] = w]
  BY DEF CopyWord, picoVars, histVars, Same, PageWords
<1>2. /\ WrittenTo(page) /\ Filled(page, dword)
      /\ addr = First(asked.page + page) /\ a2 = First(asked.page + page) + dword
      /\ data0 = Wanted(First(asked.page + page) + dword)
  BY <1>1, HartPlace DEF Running, Taken
<1>3. asked.page + page \in Nat /\ dword \in 0..15 /\ page \in Nat /\ buffer \in [Slot -> Word]
  BY Unpack DEF TypeOK
<1>4. a2 % 16 = dword
  BY <1>2, Here
<1>10. PICK w \in Moved : buffer' = [buffer EXCEPT ![a2 % 16] = w]
  BY <1>1
<1>11. w \in Leaves(First(asked.page + page) + dword)
  <2>1. CASE w = data0
    BY <1>2, <2>1 DEF Leaves
  <2>2. CASE w # data0
    <3>1. fresh /\ w = BadWord
      BY <1>10, <2>2 DEF Moved
    <3>2. first /\ page = 0 /\ dword = 0
      BY <1>1, <3>1, HartPlace, Unpack DEF FreshInv
    <3>3. First(asked.page + page) + dword = First(asked.page)
      BY <3>2, AtStart
    <3> QED
      BY <3>1, <3>2, <3>3 DEF Leaves
  <2> QED
    BY <2>1, <2>2
<1>5. Filled(page, dword + 1)'
  <2> SUFFICES ASSUME NEW s \in Slot
               PROVE  IF s < dword + 1 THEN buffer'[s] \in Leaves(First(asked.page + page) + s)
                      ELSE buffer'[s] = Blank
    BY <1>1 DEF Filled, Same, Leaves, Wanted
  <2>1. IF s < dword THEN buffer[s] \in Leaves(First(asked.page + page) + s) ELSE buffer[s] = Blank
    BY <1>2 DEF Filled
  <2>2. buffer'[s] = IF s = dword THEN w ELSE buffer[s]
    BY <1>3, <1>4, <1>10
  <2> QED
    BY <1>3, <1>11, <2>1, <2>2 DEF Slot, PageWords
<1>6. WrittenTo(page)'
  BY <1>1, <1>2, WrittenSame DEF WrittenTo
<1>7. Running'
  BY <1>1, <1>2, <1>5, <1>6 DEF Running, Same
<1> QED
  BY <1>1, <1>7, WithinRun, WholeSame

LEMMA AdvanceInv ==
  ASSUME IInv, Advance
  PROVE  PagesWhole' /\ CountInv' /\ StepInv'
<1>1. /\ hart = "advance" /\ step' = step /\ page' = page /\ dword' = dword
      /\ autoexec' = autoexec /\ locked' = locked /\ Same /\ flash' = flash /\ buffer' = buffer
      /\ addr' = addr /\ a2' = a2 + 1 /\ hart' = IF a2' % 16 = 0 THEN "start" ELSE "ebreak"
  BY DEF Advance, picoVars, histVars, flashVars, Same, PageWords
<1>2. /\ WrittenTo(page) /\ Filled(page, dword + 1)
      /\ addr = First(asked.page + page) /\ a2 = First(asked.page + page) + dword
  BY <1>1, HartPlace DEF Running
<1>3. asked.page + page \in Nat /\ dword \in 0..15 /\ First(asked.page + page) \in Nat
  BY Here
<1>4. a2' = First(asked.page + page) + (dword + 1)
  BY <1>1, <1>2, <1>3
<1>5. a2' % 16 = 0 <=> dword + 1 = 16
  <2>1. CASE dword + 1 < 16
    BY <1>3, <1>4, <2>1, Here
  <2>2. CASE dword + 1 = 16
    BY <1>4, <2>2, Here
  <2> QED
    BY <1>3, <2>1, <2>2
<1>6. Filled(page, dword + 1)'
  BY <1>1, <1>2 DEF Filled, Same, Leaves, Wanted
<1>7. WrittenTo(page)'
  BY <1>1, <1>2, WrittenSame DEF WrittenTo
<1>8. Taken(page, dword + 1)'
  BY <1>1, <1>2, <1>4, <1>6, <1>7 DEF Taken, Same
<1>9. dword + 1 < 16 <=> ~(dword + 1 = 16)
  BY <1>3
<1>10. Running'
  BY <1>1, <1>5, <1>8, <1>9 DEF Running, PageWords
<1> QED
  BY <1>1, <1>10, WithinRun, WholeSame

LEMMA StartPageInv ==
  ASSUME IInv, StartPage, TypeOK'
  PROVE  PagesWhole' /\ CountInv' /\ StepInv'
<1>1. /\ hart = "start" /\ hart' = "next" /\ step' = step /\ page' = page /\ dword' = dword
      /\ autoexec' = autoexec /\ locked' = locked /\ Same /\ buffer' = buffer
      /\ addr' = addr /\ a2' = a2
      /\ flash' = [c \in Cell |-> IF PageOf(c) = PageOf(addr) /\ ~locked
                                  THEN Program(flash[c], buffer[c % 16]) ELSE flash[c]]
  BY DEF StartPage, picoVars, histVars, Same, PageWords
<1>2. /\ WrittenTo(page) /\ Filled(page, dword + 1) /\ dword + 1 = 16
      /\ addr = First(asked.page + page) /\ a2 = First(asked.page + page) + (dword + 1)
  BY <1>1, HartPlace DEF Running, Taken, PageWords
<1>3. asked.page + page \in Nat /\ dword \in 0..15 /\ PageOf(addr) = asked.page + page
      /\ ~locked /\ page < Pages
  BY <1>1, <1>2, Here, HartPlace
<1>4. WrittenTo(page + 1)'
  <2> SUFFICES ASSUME NEW c \in Cell
               PROVE
                 IF InRange(c, asked.page, asked.page + (page + 1)) THEN flash'[c] \in Leaves(c)
                 ELSE flash'[c] = IF InRange(c, asked.page + (page + 1), asked.page + Pages) THEN Blank ELSE before[c]
    BY <1>1 DEF WrittenTo, Same, Leaves, Wanted, Pages
  <2>1. c \in Nat /\ PageOf(c) \in Nat /\ c % 16 \in Slot /\ c = First(PageOf(c)) + (c % 16)
    BY PageNumbers, Unpack DEF Cell, Slot, PageWords
  <2>2. IF InRange(c, asked.page, asked.page + page) THEN flash[c] \in Leaves(c)
        ELSE flash[c] = IF InRange(c, asked.page + page, asked.page + Pages) THEN Blank ELSE before[c]
    BY <1>2 DEF WrittenTo
  <2>3. CASE PageOf(c) = asked.page + page
    <3>1. buffer[c % 16] \in Leaves(c)
      BY <1>2, <2>1, <2>3 DEF Filled, Slot, PageWords
    <3>2. flash[c] = Blank
      BY <1>3, <2>2, <2>3, Unpack DEF InRange
    <3>3. flash'[c] \in Leaves(c)
      BY <1>1, <1>3, <2>3, <3>1, <3>2 DEF Program
    <3>4. InRange(c, asked.page, asked.page + (page + 1))
      BY <2>3, Unpack DEF InRange
    <3> QED
      BY <3>3, <3>4
  <2>4. CASE PageOf(c) # asked.page + page
    <3>1. flash'[c] = flash[c]
      BY <1>1, <1>3, <2>4
    <3>2. /\ InRange(c, asked.page, asked.page + (page + 1)) <=> InRange(c, asked.page, asked.page + page)
          /\ InRange(c, asked.page + (page + 1), asked.page + Pages) <=>
               InRange(c, asked.page + page, asked.page + Pages)
      BY <2>1, <2>4, Unpack DEF InRange
    <3> QED
      BY <2>2, <3>1, <3>2
  <2> QED
    BY <2>3, <2>4
<1>5. PagesWhole'
  <2>1. page + 1 \in 0..Pages'
    BY <1>1, <1>3, Unpack DEF Same, Pages
  <2>2. (\E p \in 0..Pages : WrittenTo(p))'
    BY <1>1, <1>4, <2>1
  <2> QED
    BY <2>2, WrittenIsWhole, PTL
<1>6. Running'
  BY <1>1, <1>2, <1>3, <1>4, Unpack, FirstOfPage DEF Running, Same, PageWords
<1> QED
  BY <1>1, <1>5, <1>6, WithinRun

LEMMA NextPageInv ==
  ASSUME IInv, NextPage
  PROVE  PagesWhole' /\ CountInv' /\ StepInv'
<1>1. /\ hart = "next" /\ hart' = "ebreak" /\ step' = step /\ page' = page /\ dword' = dword
      /\ autoexec' = autoexec /\ locked' = locked /\ Same /\ flash' = flash
      /\ addr' = a2 /\ a2' = a2 /\ buffer' = EmptyBuffer
  BY DEF NextPage, picoVars, histVars, Same
<1>2. WrittenTo(page + 1) /\ dword + 1 = 16 /\ a2 = First(asked.page + page) + dword + 1
  BY <1>1, HartPlace DEF Running, PageWords
<1>3. First(asked.page + page) \in Nat /\ dword \in 0..15
  BY Here
<1>4. a2 = First(asked.page + (page + 1)) /\ a2 \in Nat
  BY <1>2, <1>3, Here
<1>9. a2 = First(asked.page + (page + 1)) + 0
  BY <1>4
<1>5. WrittenTo(page + 1)'
  BY <1>1, <1>2, WrittenSame DEF WrittenTo
<1>6. Filled(page + 1, 0)'
  BY <1>1 DEF Filled, EmptyBuffer, Slot, PageWords
<1>7. Taken(page + 1, 0)'
  BY <1>1, <1>4, <1>5, <1>6, <1>9 DEF Taken, Same
<1>8. Running'
  BY <1>1, <1>2, <1>7 DEF Running, PageWords
<1> QED
  BY <1>1, <1>8, WithinRun, WholeSame

-----------------------------------------------------------------------------
(* The steps of the Pico *)

LEMMA CountSame ==
  ASSUME IInv, Same, step = "idle" => step' = "idle"
  PROVE  CountInv' /\ Pages' = Pages
BY Unpack DEF CountInv, Same, Padded, Pages

LEMMA BeginInv ==
  ASSUME IInv, NEW r \in Request, Padded(r), Begin(r)
  PROVE  PagesWhole' /\ CountInv' /\ StepInv'
<1>1. /\ step \in {"idle", "done"} /\ step' = "wipe" /\ asked' = r /\ before' = flash
      /\ count' = (count % MaxWrites) + 1 /\ page' = 0 /\ dword' = 0 /\ flash' = flash
      /\ hart' = hart /\ autoexec' = autoexec
  BY DEF Begin, flashVars, hartVars
<1>2. hart = "ebreak" /\ ~autoexec
  BY <1>1, Unpack DEF StepInv
<1>3. count' > 0
  <2>1. count \in Nat /\ MaxWrites \in Nat \ {0}
    BY FlashStreamAssumption, Unpack DEF TypeOK
  <2> QED
    BY <1>1, <2>1
<1>4. PagesWhole'
  BY <1>1 DEF PagesWhole, Kept
<1>5. CountInv'
  BY <1>1, <1>3 DEF CountInv, Padded
<1>6. WipedTo(page)'
  <2> SUFFICES ASSUME NEW c \in Cell
               PROVE  ~(r.page <= PageOf(c) /\ PageOf(c) < r.page + 0)
    BY <1>1 DEF WipedTo, InRange
  <2>1. PageOf(c) \in Nat /\ r.page \in Nat
    BY PageNumbers, RequestFacts, Unpack DEF Cell
  <2> QED
    BY <2>1
<1>7. Pages' \in Nat \ {0}
  BY <1>1, RequestFacts DEF Pages
<1>8. StepInv'
  BY <1>1, <1>2, <1>6, <1>7 DEF StepInv
<1> QED
  BY <1>4, <1>5, <1>8

LEMMA WipeInv ==
  ASSUME IInv, Wipe
  PROVE  PagesWhole' /\ CountInv' /\ StepInv'
<1>1. /\ step = "wipe" /\ step' = "wiping" /\ Same /\ flash' = flash /\ page' = page /\ dword' = dword
      /\ autoexec' = autoexec /\ ~locked' /\ addr' = First(asked.page + page) /\ hart' = "erase"
  BY DEF Wipe, At, histVars, Same
<1>2. page < Pages /\ dword = 0 /\ ~autoexec /\ WipedTo(page)
  BY <1>1, Unpack DEF StepInv
<1>3. WipedTo(page)'
  BY <1>1, <1>2 DEF WipedTo, InRange, Same
<1>4. CountInv' /\ Pages' = Pages
  BY <1>1, CountSame
<1>5. StepInv'
  BY <1>1, <1>2, <1>3, <1>4, Unpack DEF StepInv, Same
<1> QED
  BY <1>1, <1>4, <1>5, WholeSame

LEMMA WipedInv ==
  ASSUME IInv, Wiped
  PROVE  PagesWhole' /\ CountInv' /\ StepInv'
<1>1. /\ step = "wiping" /\ Same /\ flash' = flash /\ dword' = dword /\ hart = "ebreak" /\ hart' = "ebreak"
      /\ autoexec' = autoexec /\ step' # "idle"
      /\ IF page + 1 < Pages THEN step' = "wipe" /\ page' = page + 1 ELSE step' = "setup" /\ page' = 0
  BY DEF Wiped, Busy, flashVars, hartVars, histVars, Same, Pages
<1>2. page < Pages /\ dword = 0 /\ ~autoexec /\ WipedTo(page + 1)
  BY <1>1, Unpack DEF StepInv
<1>3. CountInv' /\ Pages' = Pages
  BY <1>1, CountSame
<1>4. CASE page + 1 < Pages
  <2>1. WipedTo(page)'
    BY <1>1, <1>2, <1>4 DEF WipedTo, InRange, Same
  <2> QED
    BY <1>1, <1>2, <1>3, <1>4, <2>1, WholeSame, Unpack DEF StepInv
<1>5. CASE ~(page + 1 < Pages)
  <2>1. page + 1 = Pages
    BY <1>2, <1>5, Unpack
  <2>2. WipedTo(Pages)'
    BY <1>1, <1>2, <1>3, <2>1 DEF WipedTo, InRange, Same
  <2> QED
    BY <1>1, <1>2, <1>3, <1>5, <2>2, WholeSame, Unpack DEF StepInv
<1> QED
  BY <1>4, <1>5

LEMMA SetupInv ==
  ASSUME IInv, Setup
  PROVE  PagesWhole' /\ CountInv' /\ StepInv'
<1>1. /\ step = "setup" /\ step' = "regs" /\ Same /\ flash' = flash /\ page' = page /\ dword' = dword
      /\ hart' = hart /\ autoexec' = autoexec /\ ~locked' /\ addr' = First(asked.page)
      /\ gpr' = 10 /\ buffer' = EmptyBuffer
  BY DEF Setup, At, hartVars, histVars, Same
<1>2. page = 0 /\ dword = 0 /\ hart = "ebreak" /\ ~autoexec /\ WipedTo(Pages)
  BY <1>1, Unpack DEF StepInv
<1>3. CountInv' /\ Pages' = Pages
  BY <1>1, CountSame
<1>4. WipedTo(Pages)'
  BY <1>1, <1>2, <1>3 DEF WipedTo, InRange, Same
<1>5. StepInv'
  <2>1. ~(gpr' > 12) /\ addr' = First(asked'.page) /\ page' \in 0..Pages'
    BY <1>1, <1>2, <1>3, Unpack DEF Same
  <2>2. EmptyBuffer' = EmptyBuffer
    BY DEF EmptyBuffer
  <2> QED
    BY <1>1, <1>2, <1>4, <2>1, <2>2 DEF StepInv
<1> QED
  BY <1>1, <1>3, <1>5, WholeSame

LEMMA SetGprInv ==
  ASSUME IInv, SetGpr
  PROVE  PagesWhole' /\ CountInv' /\ StepInv'
<1>1. /\ step = "regs" /\ Same /\ flash' = flash /\ page' = page /\ dword' = dword
      /\ hart' = hart /\ autoexec' = autoexec /\ locked' = locked /\ addr' = addr /\ buffer' = buffer
      /\ a2' = IF gpr = 12 THEN First(asked.page) ELSE a2
      /\ IF gpr + 1 \in Argument THEN gpr' = gpr + 1 /\ step' = "regs" ELSE step' = "feed" /\ gpr' = gpr
  BY DEF SetGpr, flashVars, histVars, Same
<1>2. /\ page = 0 /\ dword = 0 /\ hart = "ebreak" /\ ~autoexec /\ ~locked /\ WipedTo(Pages)
      /\ buffer = EmptyBuffer /\ addr = First(asked.page) /\ (gpr > 12 => a2 = First(asked.page))
  BY <1>1, Unpack DEF StepInv
<1>3. CountInv' /\ Pages' = Pages
  BY <1>1, CountSame
<1>4. gpr \in 10..15
  BY Unpack DEF TypeOK, Argument
<1>5. CASE gpr + 1 \in Argument
  <2>1. WipedTo(Pages)' /\ EmptyBuffer' = EmptyBuffer
    BY <1>1, <1>2, <1>3 DEF WipedTo, InRange, Same, EmptyBuffer
  <2>2. gpr' > 12 => a2' = First(asked.page)
    BY <1>1, <1>2, <1>4, <1>5
  <2>3. step' = "regs" /\ page' \in 0..Pages' /\ asked' = asked
    BY <1>1, <1>2, <1>3, <1>5, Unpack DEF Same
  <2>4. StepInv'
    BY <1>1, <1>2, <2>1, <2>2, <2>3 DEF StepInv
  <2> QED
    BY <1>1, <1>3, <2>4, WholeSame
<1>6. CASE ~(gpr + 1 \in Argument)
  <2>1. step' = "feed" /\ a2' = First(asked.page)
    BY <1>1, <1>2, <1>4, <1>6 DEF Argument
  <2>2. WrittenTo(0)'
    <3> SUFFICES ASSUME NEW c \in Cell
                 PROVE  IF InRange(c, asked.page, asked.page + 0) THEN flash[c] \in Leaves(c)
                        ELSE flash[c] = IF InRange(c, asked.page + 0, asked.page + Pages) THEN Blank ELSE before[c]
      BY <1>1, <1>3 DEF WrittenTo, Same, Leaves, Wanted, InRange
    <3>1. PageOf(c) \in Nat /\ asked.page + 0 = asked.page
      BY PageNumbers, Unpack DEF Cell
    <3>2. ~InRange(c, asked.page, asked.page)
      BY <3>1, Unpack DEF InRange
    <3> QED
      BY <1>2, <3>1, <3>2 DEF WipedTo
  <2>3. Taken(0, 0)'
    <3>1. asked.page + 0 = asked.page /\ First(asked.page) + 0 = First(asked.page)
      BY AtStart
    <3>2. Filled(0, 0)'
      BY <1>1, <1>2 DEF Filled, EmptyBuffer, Slot, PageWords
    <3> QED
      BY <1>1, <1>2, <2>1, <2>2, <3>1, <3>2 DEF Taken, Same
  <2>4. StepInv'
    BY <1>1, <1>2, <1>3, <2>1, <2>3, Unpack DEF StepInv
  <2> QED
    BY <1>1, <1>3, <2>1, <2>4, WholeSame
<1> QED
  BY <1>5, <1>6

LEMMA TakenSame ==
  ASSUME Same, flash' = flash, buffer' = buffer, addr' = addr, a2' = a2, page' = page, dword' = dword
  PROVE  Taken(page, dword) => Taken(page, dword)'
BY WrittenSame DEF Taken, WrittenTo, Filled, Same, Leaves, Wanted

LEMMA FeedInv ==
  ASSUME IInv, Feed
  PROVE  PagesWhole' /\ CountInv' /\ StepInv'
<1>1. /\ step = "feed" /\ step' = (IF autoexec THEN "wait" ELSE "run") /\ Same /\ flash' = flash
      /\ page' = page /\ dword' = dword /\ data0' = Source /\ buffer' = buffer /\ addr' = addr /\ a2' = a2
      /\ locked' = locked /\ autoexec' = autoexec
      /\ hart' = IF autoexec /\ ~Busy THEN "copy" ELSE hart
  BY DEF Feed, At, flashVars, histVars, Same
<1>2. /\ page < Pages /\ hart = "ebreak" /\ Taken(page, dword) /\ ~locked
      /\ ~autoexec => page = 0 /\ dword = 0
  BY <1>1, Unpack DEF StepInv
<1>3. CountInv' /\ Pages' = Pages
  BY <1>1, CountSame
<1>4. data0' = Wanted(First(asked.page + page) + dword)'
  <2>1. Source = Wanted(First(asked.page + page) + dword)
    BY <1>1, <1>2, Unpack, HartPlace, SourceIsWanted
  <2> QED
    BY <1>1, <2>1 DEF Same, Wanted
<1>5. Taken(page, dword)'
  BY <1>1, <1>2, TakenSame
<1>6. CASE autoexec
  <2>1. hart' = "copy"
    BY <1>1, <1>2, <1>6 DEF Busy
  <2>2. Running'
    BY <1>4, <1>5, <2>1 DEF Running
  <2> QED
    BY <1>1, <1>2, <1>3, <1>6, <2>2, WholeSame, Unpack DEF StepInv
<1>7. CASE ~autoexec
  <2>1. page' = 0 /\ dword' = 0 /\ asked'.page + 0 = asked'.page /\ First(asked'.page) + 0 = First(asked'.page)
    BY <1>1, <1>2, <1>7, AtStart DEF Same
  <2>2. Taken(0, 0)' /\ data0' = Wanted(Start)'
    BY <1>1, <1>4, <1>5, <2>1 DEF Taken, WrittenTo, Filled, Start
  <2> QED
    BY <1>1, <1>2, <1>3, <1>7, <2>1, <2>2, WholeSame, Unpack DEF StepInv
<1> QED
  BY <1>6, <1>7

LEMMA RunFirstInv ==
  ASSUME IInv, RunFirst
  PROVE  PagesWhole' /\ CountInv' /\ StepInv'
<1>1. /\ step = "run" /\ step' = "auto" /\ Same /\ flash' = flash /\ hart' = "copy"
      /\ page' = page /\ dword' = dword /\ data0' = data0 /\ buffer' = buffer /\ addr' = addr /\ a2' = a2
      /\ locked' = locked /\ autoexec' = autoexec
  BY DEF RunFirst, At, flashVars, histVars, Same
<1>2. /\ page = 0 /\ dword = 0 /\ ~autoexec /\ ~locked /\ Taken(0, 0) /\ data0 = Wanted(Start)
  BY <1>1, Unpack DEF StepInv
<1>3. CountInv' /\ Pages' = Pages
  BY <1>1, CountSame
<1>4. Taken(page, dword)'
  BY <1>1, <1>2, TakenSame
<1>5. data0' = Wanted(First(asked.page + page) + dword)'
  <2>1. First(asked.page + page) + dword = Start
    BY <1>2, AtStart DEF Start
  <2> QED
    BY <1>1, <1>2, <2>1 DEF Same, Wanted
<1>6. Running'
  BY <1>1, <1>4, <1>5 DEF Running
<1> QED
  BY <1>1, <1>2, <1>3, <1>6, WholeSame, Unpack DEF StepInv

\* Both waits end with the program done, and the Pico goes on to the next word.
LEMMA WordDone ==
  ASSUME IInv, Same, NextWord, step \in {"auto", "wait"}, hart = "ebreak", hart' = "ebreak",
         flash' = flash, buffer' = buffer, addr' = addr, a2' = a2, locked' = locked, autoexec'
  PROVE  PagesWhole' /\ CountInv' /\ StepInv'
<1>1. page < Pages /\ ~locked /\ Running
  BY Unpack DEF StepInv
<1>2. CountInv' /\ Pages' = Pages /\ step' # "idle"
  BY CountSame DEF NextWord
<1>3. CASE dword + 1 < 16
  <2>1. step' = "feed" /\ dword' = dword + 1 /\ page' = page
    BY <1>3 DEF NextWord, PageWords
  <2>2. Taken(page, dword + 1)
    BY <1>1, <1>3 DEF Running, PageWords
  <2>3. Taken(page, dword)'
    BY <2>1, <2>2, WrittenSame DEF Taken, WrittenTo, Filled, Same, Leaves, Wanted
  <2> QED
    BY <1>1, <1>2, <2>1, <2>3, WholeSame, Unpack DEF StepInv
<1>4. CASE ~(dword + 1 < 16)
  <2>1. dword' = 0 /\ page' = page + 1 /\ step' = IF page + 1 < Pages THEN "feed" ELSE "finish"
    BY <1>4 DEF NextWord, PageWords, Pages
  <2>2. Taken(page + 1, 0)
    BY <1>1, <1>4 DEF Running, PageWords
  <2>3. Taken(page, dword)'
    BY <2>1, <2>2, WrittenSame DEF Taken, WrittenTo, Filled, Same, Leaves, Wanted
  <2>4. CASE page + 1 < Pages
    BY <1>1, <1>2, <2>1, <2>3, <2>4, WholeSame, Unpack DEF StepInv
  <2>5. CASE ~(page + 1 < Pages)
    <3>1. page' = Pages'
      BY <1>1, <1>2, <2>1, <2>5, Unpack
    <3>2. WrittenTo(Pages)'
      BY <2>3, <3>1 DEF Taken, WrittenTo
    <3> QED
      BY <1>2, <2>1, <2>5, <3>1, <3>2, WholeSame, Unpack DEF StepInv
  <2> QED
    BY <2>4, <2>5
<1> QED
  BY <1>3, <1>4

LEMMA AutoOnInv ==
  ASSUME IInv, AutoOn
  PROVE  PagesWhole' /\ CountInv' /\ StepInv'
BY WordDone DEF AutoOn, Busy, flashVars, hartVars, histVars, Same

LEMMA WaitInv ==
  ASSUME IInv, Wait
  PROVE  PagesWhole' /\ CountInv' /\ StepInv'
<1>1. autoexec
  BY Unpack DEF Wait, StepInv
<1> QED
  BY <1>1, WordDone DEF Wait, Busy, flashVars, hartVars, histVars, Same

LEMMA FinishInv ==
  ASSUME IInv, Finish
  PROVE  PagesWhole' /\ CountInv' /\ StepInv'
<1>1. /\ step = "finish" /\ step' = "done" /\ Same /\ flash' = flash /\ hart' = hart /\ ~autoexec'
  BY DEF Finish, At, flashVars, hartVars, histVars, Same
<1>2. hart = "ebreak" /\ WrittenTo(Pages)
  BY <1>1, Unpack DEF StepInv
<1>3. CountInv' /\ Pages' = Pages
  BY <1>1, CountSame
<1>4. WrittenTo(Pages)'
  BY <1>1, <1>2, <1>3, WrittenSame DEF WrittenTo
<1> QED
  BY <1>1, <1>2, <1>3, <1>4, WholeSame DEF StepInv

\* What is left of a write that is cut short is whole pages.
LEMMA RestartInv ==
  ASSUME IInv, Restart
  PROVE  PagesWhole' /\ CountInv' /\ StepInv'
<1>1. step' = "idle" /\ Same /\ flash' = flash /\ hart' = "ebreak" /\ ~autoexec'
  BY DEF Restart, flashVars, histVars, Same
<1> QED
  BY <1>1, CountSame, WholeSame DEF StepInv

LEMMA LockInv ==
  ASSUME IInv, Lock
  PROVE  PagesWhole' /\ CountInv' /\ StepInv'
<1>1. /\ step \in {"idle", "done"} /\ step' = step /\ Same /\ flash' = flash /\ hart' = hart
      /\ autoexec' = autoexec
  BY DEF Lock, hartVars, picoVars, histVars, Same
<1>2. hart = "ebreak" /\ ~autoexec /\ (step = "done" => WrittenTo(Pages))
  BY <1>1, Unpack DEF StepInv
<1>3. CountInv' /\ Pages' = Pages
  BY <1>1, CountSame
<1>4. step = "done" => WrittenTo(Pages)'
  BY <1>1, <1>2, <1>3, WrittenSame DEF WrittenTo
<1> QED
  BY <1>1, <1>2, <1>3, <1>4, WholeSame DEF StepInv

LEMMA StutterInv ==
  ASSUME IInv, UNCHANGED vars
  PROVE  PagesWhole' /\ CountInv' /\ StepInv'
<1> USE DEF vars, flashVars, hartVars, picoVars, histVars
<1>1. PagesWhole'
  BY WholeSame DEF Same
<1>2. CountInv'
  BY Unpack DEF CountInv, Padded
<1>3. Running' = Running
  BY DEF Running, Taken, Filled, WrittenTo, InRange, Leaves, Wanted, Pages
<1>4. StepInv'
  BY <1>3, Unpack DEF StepInv, Taken, Filled, WrittenTo, WipedTo, InRange, Leaves, Wanted, Pages, Start
<1> QED
  BY <1>1, <1>2, <1>4

\* `fresh` lasts until the first word is moved, and autoexec is on only after that.
LEMMA FreshStep ==
  ASSUME IInv, [Next]_vars
  PROVE  FreshInv'
<1> USE DEF FreshInv, vars, flashVars, hartVars, picoVars, histVars
<1>1. FreshInv /\ StepInv
  BY Unpack
<1>2. hart \in {"advance", "start", "next"} => ~fresh
  BY <1>1, HartPlace
<1>3. CASE ErasePage
  BY <1>1, <1>3, HartPlace DEF ErasePage
<1>4. CASE CopyWord
  BY <1>4 DEF CopyWord
<1>5. CASE Advance \/ StartPage \/ NextPage
  BY <1>2, <1>5 DEF Advance, StartPage, NextPage
<1>6. ASSUME NEW r \in Request, Begin(r) PROVE FreshInv'
  BY <1>1, <1>6 DEF Begin
<1>7. CASE Wipe \/ Wiped \/ Setup \/ SetGpr
  BY <1>1, <1>7 DEF Wipe, Wiped, Setup, SetGpr, At
<1>8. CASE Feed
  BY <1>1, <1>8 DEF Feed, At
<1>9. CASE RunFirst
  BY <1>1, <1>9 DEF RunFirst, At
<1>10. CASE AutoOn \/ Wait
  <2>1. ~fresh
    BY <1>1, <1>10 DEF AutoOn, Wait, Busy, StepInv
  <2> QED
    BY <1>10, <2>1 DEF AutoOn, Wait
<1>11. CASE Finish
  BY <1>1, <1>11 DEF Finish, At
<1>12. CASE Restart
  BY <1>12 DEF Restart
<1>13. CASE Lock
  BY <1>1, <1>13 DEF Lock
<1>14. CASE UNCHANGED vars
  BY <1>1, <1>14
<1> QED
  BY <1>3, <1>4, <1>5, <1>6, <1>7, <1>8, <1>9, <1>10, <1>11, <1>12, <1>13, <1>14
     DEF Next, Hart, Pico

LEMMA NextInv == IInv /\ [Next]_vars => IInv'
<1> SUFFICES ASSUME IInv, [Next]_vars PROVE IInv'
  OBVIOUS
<1>1. TypeOK'
  BY TypeStep
<1>2. PagesWhole' /\ CountInv' /\ StepInv'
  BY <1>1, ErasePageInv, CopyWordInv, AdvanceInv, StartPageInv, NextPageInv, BeginInv, WipeInv,
     WipedInv, SetupInv, SetGprInv, FeedInv, RunFirstInv, AutoOnInv, WaitInv, FinishInv, RestartInv, LockInv,
     StutterInv
  DEF Next, Hart, Pico
<1>3. FreshInv'
  BY FreshStep
<1> QED
  BY <1>1, <1>2, <1>3 DEF IInv

-----------------------------------------------------------------------------
(* Theorems *)

\* The Pico and the program on the target stay in step: what one of them has sent is
\* what the other has taken, at every point of wipe_page and write_flash.
THEOREM StreamInvariant == Spec => []IInv
BY InitInv, NextInv, PTL DEF Spec

\* TypeOK: no page is counted past the last and no word is out of its page.
THEOREM StreamTypeCorrect == Spec => []TypeOK
<1>1. IInv => TypeOK
  BY DEF IInv
<1> QED
  BY <1>1, StreamInvariant, PTL

\* PagesWhole: write_flash and a restart in it leave each page as it was, wiped or
\* written.
THEOREM PagesNeverMixed == Spec => []PagesWhole
<1>1. IInv => PagesWhole
  BY DEF IInv
<1> QED
  BY <1>1, StreamInvariant, PTL

\* WrittenExactly: a write_flash that has returned left the blob in its pages.
THEOREM BlobIsWritten == Spec => []WrittenExactly
<1>1. IInv => WrittenExactly
  <2> SUFFICES ASSUME IInv, step = "done", NEW p \in Page, Asked(p), NEW c \in Cell, PageOf(c) = p
               PROVE  flash[c] \in Leaves(c)
    BY DEF WrittenExactly, Written
  <2>1. WrittenTo(Pages)
    BY Unpack DEF StepInv
  <2>2. InRange(c, asked.page, asked.page + Pages)
    BY Unpack DEF Asked, InRange, Pages, Page
  <2> QED
    BY <2>1, <2>2 DEF WrittenTo
<1> QED
  BY <1>1, StreamInvariant, PTL

\* NoWordOverrun: write_flash puts no word into DATA0 before the program has taken
\* the last one.
THEOREM WordsAreTaken == Spec => NoWordOverrun
<1> DEFINE Taking == hart = "copy" /\ step' # "idle" => data0' = data0 /\ hart' \in {"copy", "advance"}
<1>1. IInv /\ [Next]_vars => [Taking]_vars
  <2> SUFFICES ASSUME IInv, Next, hart = "copy", step' # "idle"
               PROVE  data0' = data0 /\ hart' \in {"copy", "advance"}
    OBVIOUS
  <2>1. step \in {"auto", "wait"} /\ Busy
    BY HartPlace DEF Busy
  <2>2. ~ErasePage /\ ~Advance /\ ~StartPage /\ ~NextPage
    BY DEF ErasePage, Advance, StartPage, NextPage
  <2>3. ~Pico
    BY <2>1 DEF Pico, Wipe, Wiped, Setup, SetGpr, Feed, RunFirst, AutoOn, Wait, Finish, At
  <2>4. ~Restart /\ ~Lock /\ \A r \in Request : ~Begin(r)
    BY <2>1 DEF Restart, Lock, Begin
  <2>5. CopyWord
    BY <2>2, <2>3, <2>4 DEF Next, Hart
  <2> QED
    BY <2>5 DEF CopyWord
<1> QED
  BY <1>1, StreamInvariant, PTL DEF Spec, NoWordOverrun
=============================================================================
