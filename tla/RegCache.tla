------------------------------ MODULE RegCache -------------------------------
(***************************************************************************)
(* RVDebug's cached target state ("must stay in sync"): the program buffer *)
(* and the registers that debug programs clobber. Every memory access and  *)
(* flash operation runs a small program on the halted hart, which destroys *)
(* some of the application's registers; RVDebug saves those first, and     *)
(* puts them back when the hart is resumed.                                *)
(*                                                                         *)
(* CHECK is an empty macro (utils.h): where the code says a copy is        *)
(* missing, it carries on without one, and so does the model.              *)
(***************************************************************************)
EXTENDS Integers

CONSTANTS
  RegCount,   \* reg_count, 16 in the code
  Value,      \* register contents
  ProgWord,   \* the words of the program buffer
  Prog,       \* the debug programs
  WordOf,     \* [Prog -> [ProgWord -> instruction word]]
  ClobberOf,  \* [Prog -> SUBSET Reg]: the clobber mask given to load_prog
  NoWord,     \* 0xDEADBEEF in prog_cache: not known
  Junk        \* 0xDEADBEEF in reg_cache

Reg == 0..(RegCount - 1)
AnyWord == {WordOf[p][i] : p \in Prog, i \in ProgWord}

ASSUME RegCacheAssumption ==
  /\ RegCount \in Nat \ {0}
  /\ ClobberOf \in [Prog -> SUBSET Reg]
  /\ \A p \in Prog : WordOf[p] \in [ProgWord -> AnyWord]
  /\ \A p, q \in Prog : WordOf[p] = WordOf[q] => ClobberOf[p] = ClobberOf[q]
  /\ NoWord \notin AnyWord
  /\ Value # {} /\ Prog # {}

VARIABLES
  hart,         \* "running" or "halted"
  havereset,    \* dmstatus.ALLHAVERESET
  gpr,          \* the registers in the hart
  progbuf,      \* the program buffer in the debug module
  prog_cache,   \* what RVDebug believes progbuf holds
  reg_cache,    \* saved registers
  cached_regs,  \* reg_cache is valid
  dirty_regs,   \* a debug program has overwritten the register
  app           \* history: the registers the application should have

deviceVars == <<hart, havereset, gpr, progbuf>>
cacheVars == <<prog_cache, reg_cache, cached_regs, dirty_regs>>
vars == <<deviceVars, cacheVars, app>>

\* Mutant: one cell too few.
EmptyRegCacheShort == [r \in 0..(RegCount - 2) |-> Junk]
EmptyRegCache == [r \in Reg |-> Junk]

\* RVDebug::init and the constructor, on a target in any state.
Init ==
  /\ hart \in {"running", "halted"}
  /\ havereset \in BOOLEAN
  /\ gpr \in [Reg -> Value]
  /\ progbuf \in [ProgWord -> AnyWord]
  /\ prog_cache = [i \in ProgWord |-> NoWord]
  /\ reg_cache = EmptyRegCache
  /\ cached_regs = {} /\ dirty_regs = {}
  /\ app = gpr

-----------------------------------------------------------------------------
(* Debug programs: load_prog and run_prog, which every caller pairs *)

\* Mutant: the upload stops at the first word that differs.
UploadedFirst(p) ==
  [i \in ProgWord |-> IF /\ prog_cache[i] # WordOf[p][i]
                         /\ \A j \in ProgWord : j < i => prog_cache[j] = WordOf[p][j]
                      THEN WordOf[p][i] ELSE progbuf[i]]
\* Only the words that changed are sent.
Uploaded(p) ==
  [i \in ProgWord |-> IF prog_cache[i] # WordOf[p][i] THEN WordOf[p][i] ELSE progbuf[i]]

\* Mutant: a register already saved is saved again.
SavedNowAgain(p) == ClobberOf[p]
\* The registers load_prog saves: not yet saved, and still the application's.
SavedNow(p) == (ClobberOf[p] \ cached_regs) \ dirty_regs

\* What the program in the buffer may overwrite; an unknown mix, everything.
Overwrites(words) ==
  {r \in Reg : \A p \in Prog : WordOf[p] = words => r \in ClobberOf[p]}

\* A memory access or flash command. The caller also sets up argument registers
\* with set_gpr between load_prog and run_prog; those are in the clobber mask.
RunProgram(p) ==
  /\ hart = "halted"
  /\ progbuf' = Uploaded(p)
  /\ prog_cache' = WordOf[p]
  /\ reg_cache' = [r \in Reg |-> IF r \in SavedNow(p) THEN gpr[r] ELSE reg_cache[r]]
  /\ cached_regs' = cached_regs \cup SavedNow(p)
  /\ dirty_regs' = dirty_regs \cup ClobberOf[p]
  /\ gpr' \in [Reg -> Value]
  /\ \A r \in Reg \ Overwrites(progbuf') : gpr'[r] = gpr[r]
  /\ UNCHANGED <<hart, havereset, app>>

-----------------------------------------------------------------------------
(* Registers and run control *)

\* set_gpr (packets P and G): straight to the hart, whatever is saved.
SetGpr(r, v) ==
  /\ hart = "halted"
  /\ gpr' = [gpr EXCEPT ![r] = v]
  /\ app' = [app EXCEPT ![r] = v]
  /\ UNCHANGED <<hart, havereset, progbuf, cacheVars>>

\* reload_regs: the registers after the saved ones are put back.
Reloaded == [r \in Reg |-> IF r \in dirty_regs \cap cached_regs THEN reg_cache[r] ELSE gpr[r]]

\* Mutant: the copies stay valid across a run.
ForgetDirtyOnly == dirty_regs' = {} /\ UNCHANGED <<prog_cache, reg_cache, cached_regs>>
ForgetRegs == dirty_regs' = {} /\ cached_regs' = {} /\ UNCHANGED <<prog_cache, reg_cache>>

\* resume and step do nothing while ALLHAVERESET is set.
Resume ==
  /\ hart = "halted" /\ ~havereset
  /\ gpr' = Reloaded
  /\ hart' = "running"
  /\ ForgetRegs
  /\ UNCHANGED <<havereset, progbuf, app>>

\* step: resume for one instruction, which may write one register.
Step ==
  /\ hart = "halted" /\ ~havereset
  /\ ForgetRegs
  /\ \/ gpr' = Reloaded /\ UNCHANGED app
     \/ \E r \in Reg, v \in Value : /\ gpr' = [Reloaded EXCEPT ![r] = v]
                                    /\ app' = [app EXCEPT ![r] = v]
  /\ UNCHANGED <<hart, havereset, progbuf>>

\* reset: the application starts over with whatever the registers then hold.
Reset ==
  /\ hart' = "halted"
  /\ havereset' = FALSE
  /\ gpr' \in [Reg -> Value]
  /\ app' = gpr'
  /\ prog_cache' = [i \in ProgWord |-> NoWord]
  /\ reg_cache' = EmptyRegCache
  /\ cached_regs' = {} /\ dirty_regs' = {}
  /\ UNCHANGED progbuf

\* halt, or a trap into debug mode.
HartStops ==
  /\ hart = "running"
  /\ hart' = "halted"
  /\ UNCHANGED <<havereset, gpr, progbuf, cacheVars, app>>

HartExecutes ==
  /\ hart = "running"
  /\ \E r \in Reg, v \in Value : /\ gpr' = [gpr EXCEPT ![r] = v]
                                 /\ app' = [app EXCEPT ![r] = v]
  /\ UNCHANGED <<hart, havereset, progbuf, cacheVars>>

\* The Pico starts over: RVDebug::init forgets what was saved. The reset of the debug
\* module may leave the hart running, and anything in the program buffer.
PicoRestart ==
  /\ hart' \in {hart, "running"}
  /\ progbuf' \in [ProgWord -> AnyWord]
  /\ prog_cache' = [i \in ProgWord |-> NoWord]
  /\ reg_cache' = EmptyRegCache
  /\ cached_regs' = {} /\ dirty_regs' = {}
  /\ UNCHANGED <<havereset, gpr, app>>

-----------------------------------------------------------------------------
\* Discipline: the Pico restarts while the registers are the application's. The
\* copies are in its own memory, and no record of them survives.
Restart == dirty_regs = {} /\ PicoRestart

\* Discipline: the host writes a register only before a debug program has
\* overwritten it during this stop.
WriteReg == \E r \in Reg \ dirty_regs, v \in Value : SetGpr(r, v)

Next ==
  \/ \E p \in Prog : RunProgram(p)
  \/ WriteReg \/ Resume \/ Step \/ Reset \/ HartStops \/ HartExecutes \/ Restart

Spec == Init /\ [][Next]_vars

-----------------------------------------------------------------------------
TypeOK ==
  /\ hart \in {"running", "halted"}
  /\ havereset \in BOOLEAN
  /\ gpr \in [Reg -> Value]
  /\ progbuf \in [ProgWord -> AnyWord]
  /\ prog_cache \in [ProgWord -> AnyWord \cup {NoWord}]
  /\ reg_cache \in [Reg -> Value \cup {Junk}]
  /\ cached_regs \subseteq Reg
  /\ dirty_regs \subseteq Reg
  /\ app \in [Reg -> Value]

\* Skipping a word in load_prog is right: a word RVDebug remembers is in the
\* program buffer, however programs and resets alternate.
CacheTellsProgbuf == \A i \in ProgWord : prog_cache[i] \in {NoWord, progbuf[i]}

\* The application's registers can always be rebuilt: one a program overwrote
\* has a valid copy from before the first overwrite, and no other was touched, however
\* programs, stops, steps, resets and restarts follow each other.
\* (So the two CHECKs for a missing copy can never fail.)
RestoreReady ==
  \A r \in Reg : IF r \in dirty_regs THEN r \in cached_regs /\ reg_cache[r] = app[r]
                                     ELSE r \notin cached_regs /\ gpr[r] = app[r]

\* The hart runs with the application's registers: no run starts with an
\* argument of a debug program in one, and none with a copy from an earlier stop.
RunsWithOwnRegisters == hart = "running" => gpr = app

\* The inductive invariant; RunsWithOwnRegisters follows from it.
IInv ==
  /\ TypeOK
  /\ CacheTellsProgbuf
  /\ RestoreReady
  /\ hart = "running" => dirty_regs = {}

\* What the packets g and p need: while the hart is stopped its registers are
\* the application's ("Cached target state, must stay in sync"). The code does
\* not provide it: get_gpr never looks in reg_cache.
RegistersReadable == hart = "halted" => gpr = app
=============================================================================
