----------------------------- MODULE FlashStream ------------------------------
(***************************************************************************)
(* Writing pages of flash: the Pico wipes them, then feeds a blob word by  *)
(* word into DATA0 while a program on the target moves each word from      *)
(* DATA0 into the flash controller's page buffer and starts a page write   *)
(* whenever the buffer is full. The two sides share DATA0, the pointer in  *)
(* the program's a2 and the busy bit; after the first word nothing but the *)
(* write of DATA0 itself starts the program.                               *)
(*                                                                         *)
(* A comment above write_flash reports a fault: "somehow the first write   *)
(* after debugger restart fails on the first word", with 0x00010040 in its *)
(* place, which is what set_gpr(14) has sent through DATA0. Nothing in the *)
(* order of the code's steps lets that word through, so the fault is taken *)
(* as one of the hardware's (Moved), and the properties bound what it does.*)
(*                                                                         *)
(* Addresses are in words. The i-th word of the n-th blob is <<n, i>>.     *)
(***************************************************************************)
EXTENDS Integers

CONSTANTS
  PageCount,     \* pages that are tracked
  Request,       \* [page, words]: where to and how much, from the start of a page
  MaxWrites      \* blobs are numbered 1..MaxWrites, and from 1 again

PageWords == 16
Page == 0..(PageCount - 1)
Cell == 0..(PageCount * PageWords - 1)   \* a word of flash, by its number
Slot == 0..(PageWords - 1)

Blank == <<0, 0>>      \* erased
Filler == <<0, 1>>     \* 0xDEADBEEF
Behind == <<0, 2>>     \* what lies behind the blob
Garbled == <<0, 3>>    \* a word programmed over another
Other == <<0, 4>>      \* in DATA0: after a reset, a saved register, a controller value
GprWord(g) == <<0, g>> \* what write_flash puts into register x<g>
BadWord == GprWord(14) \* FTPG and STRT, "bad - 0x00010040"
Argument == 10..15     \* the registers it sets
Word == ((1..MaxWrites) \X Cell) \cup {Blank, Filler, Behind, Garbled, Other}
        \cup {GprWord(g) : g \in Argument}

\* (size_dwords + 15) / 16
PagesOf(words) == (words + PageWords - 1) \div PageWords

ASSUME FlashStreamAssumption ==
  /\ PageCount \in Nat /\ MaxWrites \in Nat \ {0}
  /\ \A r \in Request : /\ r.page \in Page /\ r.words \in Nat \ {0}
                        /\ r.page + PagesOf(r.words) <= PageCount

VARIABLES
  flash, buffer, addr, locked,   \* the cells, the page buffer, FLASH_ADDR, LOCK
  hart,                     \* where the program in the buffer is, "ebreak" when it is done
  a2,                       \* its destination pointer
  fresh,                    \* no word has been moved since the Pico started
  data0, autoexec,          \* the debug module
  step, page, dword, gpr,   \* the Pico: where it is in wipe_page or write_flash
  asked, count, before,     \* history: the request, its number, flash at its start,
  first                     \* and whether it is the first since the Pico started

flashVars == <<flash, buffer, addr, locked>>
hartVars == <<hart, a2, fresh>>
picoVars == <<step, page, dword, gpr>>
histVars == <<asked, count, before, first>>
vars == <<flashVars, hartVars, data0, autoexec, picoVars, histVars>>

EmptyBuffer == [s \in Slot |-> Blank]
PageOf(c) == c \div PageWords
First(p) == p * PageWords
Busy == hart # "ebreak"

Init ==
  /\ flash = [c \in Cell |-> Blank] /\ before = flash
  /\ buffer = EmptyBuffer /\ addr = 0 /\ locked = TRUE
  /\ hart = "ebreak" /\ a2 = 0 /\ fresh = TRUE
  /\ data0 = Other /\ autoexec = FALSE
  /\ step = "idle" /\ page = 0 /\ dword = 0 /\ gpr = 10
  /\ asked \in Request /\ count = 0 /\ first = FALSE

-----------------------------------------------------------------------------
(* The target: prog_flash_command and prog_write_flash, up to their busywaits *)

\* Programming clears bits.
Program(old, new) ==
  IF new = Blank \/ new = old THEN old ELSE IF old = Blank THEN new ELSE Garbled

\* FTER and STRT, with the page in a1 put into FLASH_ADDR first.
ErasePage ==
  /\ hart = "erase" /\ hart' = "ebreak"
  /\ flash' = [c \in Cell |-> IF PageOf(c) = PageOf(addr) /\ ~locked THEN Blank ELSE flash[c]]
  /\ UNCHANGED <<buffer, addr, locked, a2, fresh, data0, autoexec, picoVars, histVars>>

\* The word that lw finds in DATA0: what is there, or once after a start the bad word.
Moved == IF fresh THEN {data0, BadWord} ELSE {data0}

\* lw from DATA0, sw to the destination, BUFLOAD.
CopyWord ==
  /\ hart = "copy" /\ hart' = "advance"
  /\ \E w \in Moved : buffer' = [buffer EXCEPT ![a2 % PageWords] = w]
  /\ fresh' = FALSE
  /\ UNCHANGED <<flash, addr, locked, a2, data0, autoexec, picoVars, histVars>>

Advance ==
  /\ hart = "advance"
  /\ a2' = a2 + 1
  /\ hart' = IF a2' % PageWords = 0 THEN "start" ELSE "ebreak"
  /\ UNCHANGED <<flashVars, fresh, data0, autoexec, picoVars, histVars>>

\* STRT, at the end of a page: the buffer is programmed at FLASH_ADDR.
StartPage ==
  /\ hart = "start" /\ hart' = "next"
  /\ flash' = [c \in Cell |-> IF PageOf(c) = PageOf(addr) /\ ~locked
                              THEN Program(flash[c], buffer[c % PageWords]) ELSE flash[c]]
  /\ UNCHANGED <<buffer, addr, locked, a2, fresh, data0, autoexec, picoVars, histVars>>

\* Mutant: FLASH_ADDR stays at the first page.
NextPageSame ==
  /\ hart = "next" /\ hart' = "ebreak"
  /\ buffer' = EmptyBuffer
  /\ UNCHANGED <<flash, addr, locked, a2, fresh, data0, autoexec, picoVars, histVars>>
\* BUFRST, and FLASH_ADDR moves on.
NextPage ==
  /\ hart = "next" /\ hart' = "ebreak"
  /\ buffer' = EmptyBuffer /\ addr' = a2
  /\ UNCHANGED <<flash, locked, a2, fresh, data0, autoexec, picoVars, histVars>>

Hart == ErasePage \/ CopyWord \/ Advance \/ StartPage \/ NextPage

-----------------------------------------------------------------------------
(* The Pico *)

At(from, to) == step = from /\ step' = to

\* A caller: SoftBreak and the erase before a load.
Begin(r) ==
  /\ step \in {"idle", "done"} /\ step' = "wipe"
  /\ asked' = r /\ count' = (count % MaxWrites) + 1 /\ before' = flash
  /\ first' = fresh
  /\ page' = 0 /\ dword' = 0
  /\ UNCHANGED <<flashVars, hartVars, data0, autoexec, gpr>>

\* wipe_page, which unlocks the flash; run_prog_slow waits.
Wipe ==
  /\ At("wipe", "wiping")
  /\ locked' = FALSE /\ addr' = First(asked.page + page) /\ hart' = "erase"
  /\ UNCHANGED <<flash, buffer, a2, fresh, data0, autoexec, page, dword, gpr, histVars>>
Wiped ==
  /\ step = "wiping" /\ ~Busy
  /\ IF page + 1 < PagesOf(asked.words)
     THEN step' = "wipe" /\ page' = page + 1
     ELSE step' = "setup" /\ page' = 0
  /\ UNCHANGED <<flashVars, hartVars, data0, autoexec, dword, gpr, histVars>>

\* write_flash: unlock, FLASH_ADDR, BUFRST, load_prog, all of it through DATA0.
Setup ==
  /\ At("setup", "regs")
  /\ locked' = FALSE /\ addr' = First(asked.page) /\ buffer' = EmptyBuffer
  /\ data0' = Other /\ gpr' = 10
  /\ UNCHANGED <<flash, hartVars, autoexec, page, dword, histVars>>

\* set_gpr, for the program's registers one by one: DATA0, then the command that
\* moves it. x12 is a2.
SetGpr ==
  /\ step = "regs"
  /\ data0' = GprWord(gpr)
  /\ a2' = IF gpr = 12 THEN First(asked.page) ELSE a2
  /\ IF gpr + 1 \in Argument THEN gpr' = gpr + 1 /\ UNCHANGED step
     ELSE step' = "feed" /\ UNCHANGED gpr
  /\ UNCHANGED <<flashVars, hart, fresh, autoexec, page, dword, histVars>>

\* `dword_idx < size_dwords ? *src : 0xDEADBEEF`: dword_idx counts within the page,
\* size_dwords in the blob.
Source ==
  LET i == page * PageWords + dword
  IN  IF dword >= asked.words THEN Filler ELSE IF i < asked.words THEN <<count, i>> ELSE Behind

\* set_data0: with autoexec on it runs the program.
Feed ==
  /\ At("feed", IF autoexec THEN "wait" ELSE "run")
  /\ data0' = Source
  /\ hart' = IF autoexec /\ ~Busy THEN "copy" ELSE hart
  /\ UNCHANGED <<flashVars, a2, fresh, autoexec, page, dword, gpr, histVars>>

\* The first word: run_prog_slow, then autoexec.
RunFirst ==
  /\ At("run", "auto")
  /\ hart' = "copy"
  /\ UNCHANGED <<flashVars, a2, fresh, data0, autoexec, page, dword, gpr, histVars>>

\* Mutant: the page ends a word late.
NextWordLate ==
  IF dword < PageWords THEN step' = "feed" /\ dword' = dword + 1 /\ UNCHANGED page
  ELSE /\ dword' = 0 /\ page' = page + 1
       /\ step' = IF page + 1 < PagesOf(asked.words) THEN "feed" ELSE "finish"
NextWord ==
  IF dword + 1 < PageWords THEN step' = "feed" /\ dword' = dword + 1 /\ UNCHANGED page
  ELSE /\ dword' = 0 /\ page' = page + 1
       /\ step' = IF page + 1 < PagesOf(asked.words) THEN "feed" ELSE "finish"

\* Mutant: run_prog_fast, which does not wait.
AutoOnEarly ==
  /\ step = "auto"
  /\ autoexec' = TRUE /\ NextWord
  /\ UNCHANGED <<flashVars, hartVars, data0, gpr, histVars>>
AutoOn ==
  /\ step = "auto" /\ ~Busy
  /\ autoexec' = TRUE /\ NextWord
  /\ UNCHANGED <<flashVars, hartVars, data0, gpr, histVars>>

\* Mutant: the wait is only for the end of a page ("slightly faster").
WaitAtPageEnd ==
  /\ step = "wait" /\ (dword + 1 = PageWords => ~Busy)
  /\ NextWord
  /\ UNCHANGED <<flashVars, hartVars, data0, autoexec, gpr, histVars>>
\* Mutant: it waits to see the program run.
WaitForStart ==
  /\ step = "wait" /\ Busy
  /\ NextWord
  /\ UNCHANGED <<flashVars, hartVars, data0, autoexec, gpr, histVars>>
\* while (get_abstractcs().BUSY)
Wait ==
  /\ step = "wait" /\ ~Busy
  /\ NextWord
  /\ UNCHANGED <<flashVars, hartVars, data0, autoexec, gpr, histVars>>

\* Autoexec off, then CTLR and EOP are cleared through DATA0.
Finish ==
  /\ At("finish", "done")
  /\ autoexec' = FALSE /\ data0' = Other
  /\ UNCHANGED <<flashVars, hartVars, page, dword, gpr, histVars>>

\* The Pico starts over. PicoSWIO::reset resets the debug module; the program stops
\* where it is or has run to its end before. The flash controller keeps its buffer
\* and its address.
Restart ==
  /\ step' = "idle"
  /\ autoexec' = FALSE /\ data0' = Other /\ hart' = "ebreak" /\ fresh' = TRUE
  /\ page' = 0 /\ dword' = 0 /\ gpr' = 10
  /\ UNCHANGED <<flashVars, a2, histVars>>

\* The console's lock_flash, between two writes.
Lock ==
  /\ step \in {"idle", "done"} /\ locked' = TRUE
  /\ UNCHANGED <<flash, buffer, addr, hartVars, data0, autoexec, picoVars, histVars>>

Pico == Wipe \/ Wiped \/ Setup \/ SetGpr \/ Feed \/ RunFirst \/ AutoOn \/ Wait \/ Finish

\* Discipline: a blob is whole pages, or a part of one.
Padded(r) == r.words % PageWords = 0 \/ r.words < PageWords

Next == Hart \/ Pico \/ Restart \/ Lock \/ \E r \in Request : Padded(r) /\ Begin(r)

Spec == Init /\ [][Next]_vars

\* The Pico's code runs and so does the program on the target.
FairSpec == Spec /\ WF_vars(Pico) /\ WF_vars(Hart)

-----------------------------------------------------------------------------
TypeOK ==
  /\ flash \in [Cell -> Word] /\ before \in [Cell -> Word]
  /\ buffer \in [Slot -> Word] /\ addr \in Nat /\ locked \in BOOLEAN
  /\ hart \in {"ebreak", "erase", "copy", "advance", "start", "next"} /\ a2 \in Nat
  /\ fresh \in BOOLEAN /\ first \in BOOLEAN
  /\ data0 \in Word /\ autoexec \in BOOLEAN
  /\ step \in {"idle", "wipe", "wiping", "setup", "regs", "feed", "run", "auto", "wait",
              "finish", "done"}
  /\ page \in 0..PageCount /\ dword \in Slot /\ gpr \in Argument
  /\ asked \in Request /\ count \in 0..MaxWrites

\* What the request is to leave in a cell of its pages, and what it may leave: the
\* first word of the first write after a start is the one the comment reports lost.
Wanted(c) ==
  LET i == c - First(asked.page)
  IN  IF i < asked.words THEN <<count, i>> ELSE Filler
Leaves(c) == {Wanted(c)} \cup (IF first /\ c = First(asked.page) THEN {BadWord} ELSE {})

Asked(p) == p \in asked.page..(asked.page + PagesOf(asked.words) - 1)
Kept(p) == \A c \in Cell : PageOf(c) = p => flash[c] = before[c]
Erased(p) == \A c \in Cell : PageOf(c) = p => flash[c] = Blank
Written(p) == \A c \in Cell : PageOf(c) = p => flash[c] \in Leaves(c)

\* A write that has returned left the blob in its pages, word for word, and filled
\* up the last ("if we run out of source data we write 0xDEADBEEF in the empty
\* space"), though nothing counts the words but the two sides each for itself. The
\* fault of the first write after a start costs its first word and no other, and the
\* next write is whole.
WrittenExactly == step = "done" => \A p \in Page : Asked(p) => Written(p)

\* At every moment, and wherever the Pico starts over, a page is what it was, or one
\* of the request's and erased, or finished: never a mix of two blobs, never a part
\* of one, never another page's words. No register that went through DATA0 gets into
\* one, but for the word that write_flash's comment reports.
PagesWhole ==
  count > 0 => \A p \in Page : Kept(p) \/ (Asked(p) /\ (Erased(p) \/ Written(p)))

\* A word in DATA0 is taken before the next one is put there.
NoWordOverrun ==
  [][hart = "copy" /\ step' # "idle" => data0' = data0 /\ hart' \in {"copy", "advance"}]_vars

\* A write returns, or is cut short by a restart: the Pico never waits for a program
\* that has nothing to do.
WriteEnds == step = "wipe" ~> step \in {"idle", "done"}
=============================================================================
