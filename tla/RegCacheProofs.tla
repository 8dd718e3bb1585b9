--------------------------- MODULE RegCacheProofs ----------------------------
(***************************************************************************)
(* RVDebug always can, and does, give the application its registers back.  *)
(* The invariant has no history of what ran: only that a register a debug  *)
(* program overwrote has its copy, and that every other is untouched.      *)
(***************************************************************************)
EXTENDS RegCache, TLAPS

\* When the program buffer holds a program, that program's mask bounds what
\* it overwrites.
LEMMA OverwritesMask ==
  ASSUME NEW p \in Prog
  PROVE  Overwrites(WordOf[p]) \subseteq ClobberOf[p]
BY RegCacheAssumption DEF Overwrites

LEMMA InitEstablishes == Init => IInv
BY RegCacheAssumption
   DEF Init, IInv, TypeOK, CacheTellsProgbuf, RestoreReady, EmptyRegCache

\* Uploading only the words that differ leaves the whole program in the buffer.
LEMMA UploadWhole ==
  ASSUME TypeOK, CacheTellsProgbuf, NEW p \in Prog
  PROVE  Uploaded(p) = WordOf[p]
<1>1. /\ WordOf[p] \in [ProgWord -> AnyWord]
      /\ \A i \in ProgWord : WordOf[p][i] # NoWord
  BY RegCacheAssumption
<1>2. \A i \in ProgWord : prog_cache[i] = WordOf[p][i] => progbuf[i] = WordOf[p][i]
  BY <1>1 DEF CacheTellsProgbuf
<1>3. Uploaded(p) = [i \in ProgWord |-> WordOf[p][i]]
  BY <1>2 DEF Uploaded
<1> QED BY <1>1, <1>3

LEMMA RunProgramKeeps ==
  ASSUME IInv, NEW p \in Prog, RunProgram(p)
  PROVE  IInv'
<1> USE DEF IInv
<1>0. WordOf[p] \in [ProgWord -> AnyWord] /\ ClobberOf[p] \subseteq Reg
  BY RegCacheAssumption
<1>1. progbuf' = WordOf[p]
  BY UploadWhole DEF RunProgram
<1>2. TypeOK'
  BY <1>0, <1>1 DEF TypeOK, RunProgram, SavedNow
<1>3. CacheTellsProgbuf'
  BY <1>1 DEF CacheTellsProgbuf, RunProgram
<1>4. \A r \in Reg \ ClobberOf[p] : gpr'[r] = gpr[r]
  BY <1>1, OverwritesMask DEF RunProgram
<1>5. RestoreReady'
  <2> SUFFICES ASSUME NEW r \in Reg
               PROVE  IF r \in dirty_regs'
                      THEN r \in cached_regs' /\ reg_cache'[r] = app'[r]
                      ELSE r \notin cached_regs' /\ gpr'[r] = app'[r]
    BY DEF RestoreReady
  <2>1. /\ app' = app
        /\ dirty_regs' = dirty_regs \cup ClobberOf[p]
        /\ cached_regs' = cached_regs \cup SavedNow(p)
        /\ reg_cache'[r] = IF r \in SavedNow(p) THEN gpr[r] ELSE reg_cache[r]
    BY DEF RunProgram
  <2>2. CASE r \in dirty_regs
    BY <2>1, <2>2 DEF RestoreReady, SavedNow
  <2>3. CASE r \notin dirty_regs /\ r \in ClobberOf[p]
    BY <2>1, <2>3 DEF RestoreReady, SavedNow
  <2>4. CASE r \notin dirty_regs /\ r \notin ClobberOf[p]
    BY <1>4, <2>1, <2>4 DEF RestoreReady, SavedNow
  <2> QED BY <2>2, <2>3, <2>4
<1>6. hart' = "halted"
  BY DEF RunProgram
<1> QED BY <1>2, <1>3, <1>5, <1>6

\* Before any resume, the registers put back are the application's.
LEMMA ReloadedIsApp ==
  ASSUME TypeOK, RestoreReady
  PROVE  Reloaded = app
<1>1. \A r \in Reg : Reloaded[r] = app[r]
  BY DEF Reloaded, RestoreReady
<1> QED BY <1>1 DEF Reloaded, TypeOK

LEMMA ResumeKeeps == IInv /\ Resume => IInv'
BY ReloadedIsApp
   DEF IInv, Resume, ForgetRegs, TypeOK, CacheTellsProgbuf, RestoreReady

LEMMA StepKeeps == IInv /\ Step => IInv'
<1> SUFFICES ASSUME IInv, Step PROVE IInv'
  OBVIOUS
<1> USE DEF IInv
<1>1. Reloaded = app
  BY ReloadedIsApp
<1>2. gpr' = app' /\ app' \in [Reg -> Value]
  BY <1>1 DEF Step, TypeOK
<1> QED BY <1>2 DEF Step, ForgetRegs, TypeOK, CacheTellsProgbuf, RestoreReady

LEMMA WriteRegKeeps == IInv /\ WriteReg => IInv'
<1> SUFFICES ASSUME IInv, NEW r \in Reg \ dirty_regs, NEW v \in Value, SetGpr(r, v)
             PROVE  IInv'
  BY DEF WriteReg
<1> USE DEF IInv
<1>1. TypeOK' /\ CacheTellsProgbuf' /\ (hart' = "running" => dirty_regs' = {})
  BY DEF SetGpr, TypeOK, CacheTellsProgbuf, cacheVars
<1>2. RestoreReady'
  BY DEF SetGpr, TypeOK, RestoreReady, cacheVars
<1> QED BY <1>1, <1>2

LEMMA ResetKeeps == IInv /\ Reset => IInv'
BY DEF IInv, Reset, EmptyRegCache, TypeOK, CacheTellsProgbuf, RestoreReady

LEMMA RestartKeeps == IInv /\ Restart => IInv'
BY DEF IInv, Restart, PicoRestart, EmptyRegCache, TypeOK, CacheTellsProgbuf, RestoreReady

LEMMA HartKeeps == IInv /\ (HartStops \/ HartExecutes) => IInv'
<1> SUFFICES ASSUME IInv, HartStops \/ HartExecutes PROVE IInv'
  OBVIOUS
<1> USE DEF IInv
<1>1. CASE HartStops
  BY <1>1 DEF HartStops, TypeOK, CacheTellsProgbuf, RestoreReady, cacheVars
<1>2. CASE HartExecutes
  <2>1. PICK r \in Reg, v \in Value :
          gpr' = [gpr EXCEPT ![r] = v] /\ app' = [app EXCEPT ![r] = v]
    BY <1>2 DEF HartExecutes
  <2>2. UNCHANGED <<hart, havereset, progbuf, cacheVars>> /\ dirty_regs = {}
    BY <1>2 DEF HartExecutes
  <2>3. \A s \in Reg : gpr'[s] = app'[s]
    BY <2>1, <2>2 DEF TypeOK, RestoreReady
  <2>4. TypeOK'
    BY <2>1, <2>2 DEF TypeOK, cacheVars
  <2> QED BY <2>2, <2>3, <2>4 DEF CacheTellsProgbuf, RestoreReady, cacheVars
<1> QED BY <1>1, <1>2

-----------------------------------------------------------------------------
(* The theorems *)

\* The invariant holds in every reachable state, for any number of registers,
\* any programs and any clobber masks that tell the truth.
THEOREM RegCacheInvariant == Spec => []IInv
<1>1. IInv /\ [Next]_vars => IInv'
  <2> SUFFICES ASSUME IInv, [Next]_vars PROVE IInv'
    OBVIOUS
  <2>1. CASE UNCHANGED vars
    BY <2>1 DEF vars, deviceVars, cacheVars, IInv, TypeOK, CacheTellsProgbuf, RestoreReady
  <2>2. ASSUME NEW p \in Prog, RunProgram(p) PROVE IInv'
    BY <2>2, RunProgramKeeps
  <2> QED BY <2>1, <2>2, WriteRegKeeps, ResumeKeeps, StepKeeps, ResetKeeps, HartKeeps,
            RestartKeeps DEF Next
<1> QED BY <1>1, InitEstablishes, PTL DEF Spec

\* RVDebug's variables always have their types.
THEOREM RegCacheTypeCorrect == Spec => []TypeOK
<1>1. IInv => TypeOK
  BY DEF IInv
<1> QED BY <1>1, RegCacheInvariant, PTL

\* load_prog's skipped words are in the program buffer.
THEOREM ProgCacheTruthful == Spec => []CacheTellsProgbuf
<1>1. IInv => CacheTellsProgbuf
  BY DEF IInv
<1> QED BY <1>1, RegCacheInvariant, PTL

\* A register a debug program overwrote always has its copy.
THEOREM RegistersRecoverable == Spec => []RestoreReady
<1>1. IInv => RestoreReady
  BY DEF IInv
<1> QED BY <1>1, RegCacheInvariant, PTL

\* The application never runs on a debug program's registers.
THEOREM OwnRegisters == Spec => []RunsWithOwnRegisters
<1>1. IInv => RunsWithOwnRegisters
  <2> SUFFICES ASSUME IInv, hart = "running" PROVE gpr = app
    BY DEF RunsWithOwnRegisters
  <2>1. \A r \in Reg : gpr[r] = app[r]
    BY DEF IInv, RestoreReady
  <2> QED BY <2>1 DEF IInv, TypeOK
<1> QED BY <1>1, RegCacheInvariant, PTL
=============================================================================
