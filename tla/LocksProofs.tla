---------------------------- MODULE LocksProofs ----------------------------
(***************************************************************************)
(* The interrupt-safe lock is right, for any number of cores and locks:    *)
(* the answer to the "Is this correct?" of src/kernel/atomic.h:199.        *)
(* Barrier implements what Rendezvous promises to keep apart, for any      *)
(* number of threads and rounds; that everybody goes on in the end needs   *)
(* fairness, and is left to TLC.                                           *)
(***************************************************************************)
EXTENDS InterruptLock, Barrier, FiniteSetTheorems, TLAPS

-----------------------------------------------------------------------------
(* InterruptLock.                                                           *)

\* The steps of x leave the variables of the other contexts alone.
Mine(x) ==
    /\ \A y \in Context : y # x => /\ pc'[y] = pc[y] /\ lock'[y] = lock[y]
                                   /\ saved'[y] = saved[y] /\ held'[y] = held[y]
    /\ \A c \in Core : c # Coreof(x) => enabled'[c] = enabled[c]
    /\ \A l \in Lock : was'[l] = was[l] \/ l \in held[x]
    /\ nested' = nested /\ wanted' = wanted

-----------------------------------------------------------------------------
(* Contexts.                                                                *)

\* A context is its core and its level, and one of the two of a core runs.
LEMMA Contexts ==
  ASSUME TypeOK, NEW x \in Context
  PROVE  /\ Coreof(x) \in Core /\ x[2] \in Level /\ Level = {"thread", "handler"}
         /\ \A y \in Context : Coreof(x) = Coreof(y) /\ x[2] = y[2] => x = y
         /\ \A y \in Context : Running(x) /\ Running(y) /\ Coreof(x) = Coreof(y) => x = y
  <1>1. x = <<x[1], x[2]>> /\ x[1] \in Core /\ x[2] \in Level
    BY DEF Context
  <1>2. \A y \in Context : y = <<y[1], y[2]>> /\ y[1] \in Core /\ y[2] \in Level
    BY DEF Context
  <1>. QED BY <1>1, <1>2 DEF Coreof, Level, Running

\* What a context knows survives the steps of the others.
LEMMA OthersKeep ==
  ASSUME Inv, NEW x \in Context, Running(x), Mine(x), NEW y \in Context, y # x
  PROVE  Local(y)'
  <1>1. Local(y) /\ MutualExclusion BY DEF Inv
  <1>2. /\ pc'[y] = pc[y] /\ lock'[y] = lock[y] /\ saved'[y] = saved[y] /\ held'[y] = held[y]
        /\ nested' = nested /\ wanted' = wanted
    BY DEF Mine
  <1>3. /\ Around(y)' = Around(y) /\ (Outer(y)' <=> Outer(y)) /\ (Flag(y)' <=> Flag(y))
        /\ (Running(y)' <=> Running(y))
    BY <1>2 DEF Around, Outer, Flag, Running, Coreof
  <1>4. Ordered(y)' BY <1>1, <1>2, <1>3 DEF Local, Ordered
  <1>5. Remembered(y)'
    <2>1. \A l \in held[y] : was'[l] = was[l]
      <3>1. \A l \in held[y] : l \notin held[x] BY <1>1 DEF MutualExclusion
      <3>2. held[y] \subseteq Lock BY DEF Inv, TypeOK
      <3>. QED BY <3>1, <3>2 DEF Mine
    <2>. QED BY <1>1, <1>2, <1>3, <2>1 DEF Local, Remembered
  <1>6. Carried(y)' BY <1>1, <1>2, <1>3 DEF Local, Carried
  <1>7. Shown(y)'
    <2>1. CASE Coreof(y) = Coreof(x)
      <3>1. ~Running(y) BY <2>1, Contexts DEF Inv
      <3>. QED BY <3>1, <1>3 DEF Shown
    <2>2. CASE Coreof(y) # Coreof(x)
      <3>1. enabled'[Coreof(y)] = enabled[Coreof(y)] BY <2>2, Contexts DEF Mine, Inv
      <3>. QED BY <3>1, <1>1, <1>2, <1>3 DEF Local, Shown, Coreof
    <2>. QED BY <2>1, <2>2
  <1>8. Suspended(y)' BY <1>1, <1>2, <1>3 DEF Local, Suspended
  <1>. QED BY <1>4, <1>5, <1>6, <1>7, <1>8 DEF Local

\* So a step of a context has to keep only what that context knows.
LEMMA Combine ==
  ASSUME Inv, NEW x \in Context, Running(x), Mine(x), TypeOK', MutualExclusion', Local(x)'
  PROVE  Inv'
  <1>1. \A y \in Context : Local(y)'
    <2>. SUFFICES ASSUME NEW y \in Context, y # x PROVE Local(y)' OBVIOUS
    <2>. QED BY OthersKeep
  <1>2. Context' = Context BY DEF Context
  <1>. QED BY <1>1, <1>2 DEF Inv

-----------------------------------------------------------------------------
(* Every step of a context keeps the invariant.                             *)

\* lock() begins with a lock inside those the context has.
LEMMA EnterKeeps ==
  ASSUME InterruptLockAssumption, Inv, NEW x \in Context, Enter(x) PROVE Inv'
  <1>1. /\ TypeOK /\ MutualExclusion /\ Local(x)
        /\ Running(x) /\ Running(x)' /\ Coreof(x) \in Core
    BY Contexts DEF Inv, Enter, At, Running, Coreof
  <1>2. TypeOK' BY <1>1 DEF TypeOK, Enter, Goes, Stages
  <1>3. Mine(x) BY <1>1 DEF Mine, Enter, Goes
  <1>4. MutualExclusion' BY <1>1 DEF MutualExclusion, Enter
  <1>5. Ordered(x)' BY <1>1 DEF TypeOK, Ordered, Around, Enter, Goes
  <1>6. Remembered(x)' BY <1>1 DEF Local, Remembered, Outer, Enter, At
  <1>7. Carried(x)' BY <1>1 DEF Carried, Enter, At, Goes
  <1>8. Shown(x)' BY <1>1 DEF Local, Shown, Around, Outer, Flag, Enter, At, Goes
  <1>9. Suspended(x)' BY <1>1 DEF Suspended
  <1>. QED BY <1>1, <1>2, <1>3, <1>4, <1>5, <1>6, <1>7, <1>8, <1>9, Combine DEF Local

\* The flag is read with the context running.
LEMMA FlagsKeeps ==
  ASSUME InterruptLockAssumption, Inv, NEW x \in Context, Flags(x) PROVE Inv'
  <1>1. /\ TypeOK /\ MutualExclusion /\ Local(x)
        /\ Running(x) /\ Running(x)' /\ Coreof(x) \in Core
    BY Contexts DEF Inv, Flags, At, Running, Coreof
  <1>2. TypeOK' BY <1>1 DEF TypeOK, Flags, Goes, Stages
  <1>3. Mine(x) BY <1>1 DEF Mine, Flags, Goes
  <1>4. MutualExclusion' BY <1>1 DEF MutualExclusion, Flags
  <1>5. Ordered(x)' BY <1>1 DEF TypeOK, Local, Ordered, Around, Flags, At, Goes
  <1>6. Remembered(x)'
    BY <1>1 DEF TypeOK, Local, Ordered, Remembered, Carried, Stages, Around, Outer, Flag,
       Flags, At, Goes, InterruptLockAssumption, Coreof
  <1>7. Carried(x)'
    BY <1>1 DEF TypeOK, Local, Carried, Shown, Around, Outer, Flag, Flags, At, Goes
  <1>8. Shown(x)'
    BY <1>1 DEF TypeOK, Local, Ordered, Shown, Carried, Stages, Around, Outer, Flag,
       Flags, At, Goes, InterruptLockAssumption, Coreof
  <1>9. Suspended(x)' BY <1>1 DEF Suspended
  <1>. QED BY <1>1, <1>2, <1>3, <1>4, <1>5, <1>6, <1>7, <1>8, <1>9, Combine DEF Local

\* Interrupts go off only if they were on.
LEMMA CliKeeps ==
  ASSUME InterruptLockAssumption, Inv, NEW x \in Context, Cli(x) PROVE Inv'
  <1>1. /\ TypeOK /\ MutualExclusion /\ Local(x)
        /\ Running(x) /\ Running(x)' /\ Coreof(x) \in Core
    BY Contexts DEF Inv, Cli, At, Running, Coreof
  <1>2. TypeOK' BY <1>1 DEF TypeOK, Cli, Goes, Off, Stages
  <1>3. Mine(x) BY <1>1 DEF TypeOK, Mine, Cli, At, Goes, Off, Coreof, Local, Ordered
  <1>4. MutualExclusion' BY <1>1 DEF MutualExclusion, Cli
  <1>5. Ordered(x)' BY <1>1 DEF Local, Ordered, Around, Cli, At, Goes
  <1>6. Remembered(x)'
    BY <1>1 DEF TypeOK, Local, Ordered, Remembered, Carried, Stages, Around, Outer, Flag,
       Cli, At, Goes, Off, InterruptLockAssumption, Coreof
  <1>7. Carried(x)' BY <1>1 DEF Local, Carried, Stages, Around, Outer, Flag, Cli, At, Goes
  <1>8. Shown(x)' BY <1>1 DEF TypeOK, Local, Shown, Carried, Cli, At, Goes, Off
  <1>9. Suspended(x)' BY <1>1 DEF Suspended
  <1>. QED BY <1>1, <1>2, <1>3, <1>4, <1>5, <1>6, <1>7, <1>8, <1>9, Combine DEF Local

\* The lock was nobody's, and is inside the others.
LEMMA TakeKeeps ==
  ASSUME InterruptLockAssumption, Inv, NEW x \in Context, Take(x) PROVE Inv'
  <1>1. /\ TypeOK /\ MutualExclusion /\ Local(x)
        /\ Running(x) /\ Running(x)' /\ Coreof(x) \in Core
    BY Contexts DEF Inv, Take, At, Running, Coreof
  <1>2. TypeOK' BY <1>1 DEF TypeOK, Take, Goes, Stages
  <1>3. Mine(x) BY <1>1 DEF Mine, Take, Goes
  <1>4. MutualExclusion' BY <1>1 DEF TypeOK, MutualExclusion, Take, IsFree
  <1>5. Ordered(x)' BY <1>1 DEF TypeOK, Local, Ordered, Around, Take, At, Goes
  <1>6. Remembered(x)'
    BY <1>1 DEF TypeOK, Local, Ordered, Remembered, Around, Outer, Take, At, Goes
  <1>7. Carried(x)'
    <2>1. lock[x] \notin held[x]
      <3>1. \A k \in held[x] : k < lock[x] BY <1>1 DEF Local, Ordered, Around, Take, At
      <3>2. lock[x] \in Nat BY <1>1 DEF TypeOK
      <3>. QED BY <3>1, <3>2
    <2>2. Around(x)' = Around(x) BY <1>1, <2>1 DEF TypeOK, Around, Take, At, Goes
    <2>3. (Flag(x)' <=> Flag(x)) BY <2>2 DEF Flag, Outer, Take
    <2>. QED BY <1>1, <2>3 DEF TypeOK, Local, Carried, Stages, Take, At, Goes
  <1>8. Shown(x)' BY <1>1 DEF Local, Shown, Take, At, Goes
  <1>9. Suspended(x)' BY <1>1 DEF Suspended
  <1>. QED BY <1>1, <1>2, <1>3, <1>4, <1>5, <1>6, <1>7, <1>8, <1>9, Combine DEF Local

\* A lock that is taken changes nothing.
LEMMA MissKeeps ==
  ASSUME InterruptLockAssumption, Inv, NEW x \in Context, Miss(x) PROVE Inv'
  <1>1. /\ TypeOK /\ MutualExclusion /\ Local(x)
        /\ Running(x) /\ Running(x)' /\ Coreof(x) \in Core
    BY Contexts DEF Inv, Miss, At, Running, Coreof
  <1>2. TypeOK' BY <1>1 DEF TypeOK, Miss, Goes, Stages
  <1>3. Mine(x) BY <1>1 DEF Mine, Miss, Goes
  <1>4. MutualExclusion' BY <1>1 DEF MutualExclusion, Miss
  <1>5. Ordered(x)' BY <1>1 DEF Local, Ordered, Around, Miss, At, Goes
  <1>6. Remembered(x)' BY <1>1 DEF Local, Remembered, Outer, Miss, At
  <1>7. Carried(x)' BY <1>1 DEF Local, Carried, Stages, Around, Outer, Flag, Miss, At, Goes
  <1>8. Shown(x)' BY <1>1 DEF Local, Shown, Miss, At, Goes
  <1>9. Suspended(x)' BY <1>1 DEF Suspended
  <1>. QED BY <1>1, <1>2, <1>3, <1>4, <1>5, <1>6, <1>7, <1>8, <1>9, Combine DEF Local

\* The flag is put back before the next try.
LEMMA AgainKeeps ==
  ASSUME InterruptLockAssumption, Inv, NEW x \in Context, Again(x) PROVE Inv'
  <1>1. /\ TypeOK /\ MutualExclusion /\ Local(x)
        /\ Running(x) /\ Running(x)' /\ Coreof(x) \in Core
    BY Contexts DEF Inv, Again, At, Running, Coreof
  <1>2. TypeOK' BY <1>1 DEF TypeOK, Again, Goes, On, Stages
  <1>3. Mine(x) BY <1>1 DEF Mine, Again, Goes, On
  <1>4. MutualExclusion' BY <1>1 DEF MutualExclusion, Again
  <1>5. Ordered(x)' BY <1>1 DEF Local, Ordered, Around, Again, At, Goes
  <1>6. Remembered(x)' BY <1>1 DEF Local, Remembered, Outer, Again, At
  <1>7. Carried(x)' BY <1>1 DEF Local, Carried, Around, Outer, Flag, Again, Goes
  <1>8. Shown(x)'
    BY <1>1 DEF TypeOK, Local, Ordered, Shown, Carried, Stages, Around, Outer, Flag,
       Again, At, Goes, On
  <1>9. Suspended(x)' BY <1>1 DEF Suspended
  <1>. QED BY <1>1, <1>2, <1>3, <1>4, <1>5, <1>6, <1>7, <1>8, <1>9, Combine DEF Local

\* The holder leaves in the lock what it found.
LEMMA StoreKeeps ==
  ASSUME InterruptLockAssumption, Inv, NEW x \in Context, Store(x) PROVE Inv'
  <1>1. /\ TypeOK /\ MutualExclusion /\ Local(x)
        /\ Running(x) /\ Running(x)' /\ Coreof(x) \in Core
    BY Contexts DEF Inv, Store, At, Running, Coreof
  <1>2. TypeOK' BY <1>1 DEF TypeOK, Store, Goes, Stages
  <1>3. Mine(x) BY <1>1 DEF Mine, Store, At, Goes, Local, Ordered
  <1>4. MutualExclusion' BY <1>1 DEF MutualExclusion, Store
  <1>5. Ordered(x)' BY <1>1 DEF Local, Ordered, Around, Store, Goes
  <1>6. Remembered(x)'
    <2>. DEFINE l == lock[x]
    <2>1. l \in held[x] /\ held[x] \subseteq Nat
      BY <1>1 DEF TypeOK, Local, Ordered, Store, At
    <2>2. \A k \in held[x] : k # l => k < l
      BY <1>1 DEF Local, Ordered, Around, Store, At
    <2>3. Flag(x) <=> Outer(x) /\ \A k \in held[x] : l <= k
      BY <1>1, <2>1, <2>2 DEF Flag, Around, Store, At
    <2>4. saved[x] <=> ~Flag(x) BY <1>1 DEF Local, Carried, Stages, Store, At
    <2>5. was'[l] <=> ~(Outer(x) /\ \A k \in held[x] : l <= k)
      BY <1>1, <2>3, <2>4 DEF TypeOK, Store
    <2>6. \A k \in held[x] : k # l => was'[k] = was[k]
      BY <1>1 DEF TypeOK, Store
    <2>7. (Outer(x)' <=> Outer(x)) /\ held' = held BY DEF Outer, Store
    <2>. QED BY <1>1, <2>5, <2>6, <2>7 DEF Local, Remembered
  <1>7. Carried(x)' BY <1>1 DEF Local, Carried, Around, Outer, Flag, Store, Goes
  <1>8. Shown(x)'
    BY <1>1 DEF TypeOK, Local, Ordered, Shown, Carried, Stages, Around, Outer, Flag,
       Store, At, Goes, InterruptLockAssumption, Coreof
  <1>9. Suspended(x)' BY <1>1 DEF Suspended
  <1>. QED BY <1>1, <1>2, <1>3, <1>4, <1>5, <1>6, <1>7, <1>8, <1>9, Combine DEF Local

\* What the innermost lock remembers is the flag around it.
LEMMA LeaveKeeps ==
  ASSUME InterruptLockAssumption, Inv, NEW x \in Context, Leave(x) PROVE Inv'
  <1>1. /\ TypeOK /\ MutualExclusion /\ Local(x)
        /\ Running(x) /\ Running(x)' /\ Coreof(x) \in Core
    BY Contexts DEF Inv, Leave, At, Running, Coreof
  <1>2. TypeOK' BY <1>1 DEF TypeOK, Leave, At, Goes, Stages, Coreof
  <1>3. Mine(x) BY <1>1 DEF TypeOK, Mine, Leave, At, Goes, Coreof, Local, Ordered
  <1>4. MutualExclusion' BY <1>1 DEF TypeOK, MutualExclusion, Leave, At, Goes, Local, Ordered
  <1>5. Ordered(x)' BY <1>1 DEF TypeOK, Local, Ordered, Around, Leave, At, Goes
  <1>6. Remembered(x)'
    BY <1>1 DEF TypeOK, Local, Ordered, Remembered, Carried, Stages, Around, Outer, Flag,
       Leave, At, Goes, Coreof
  <1>7. Carried(x)'
    <2>. PICK l \in held[x] : /\ \A k \in held[x] : k <= l
                              /\ lock' = [lock EXCEPT ![x] = l]
                              /\ saved' = [saved EXCEPT ![x] = was[l]]
      BY DEF Leave
    <2>1. held[x] \subseteq Nat /\ lock'[x] = l /\ saved'[x] = was[l]
      BY <1>1 DEF TypeOK
    <2>2. pc[x] = "out" /\ pc'[x] = "clear" /\ held' = held /\ (Outer(x)' <=> Outer(x))
      BY <1>1 DEF TypeOK, Leave, At, Goes, Outer
    <2>3. Around(x)' = held[x] \ {l} BY <2>1, <2>2 DEF Around
    <2>4. was[l] <=> ~(Outer(x) /\ \A k \in held[x] : l <= k)
      BY <1>1, <2>1, <2>2 DEF Local, Remembered
    <2>5. (\A k \in held[x] : l <= k) <=> held[x] \ {l} = {}
      <3>1. \A k \in held[x] : l <= k => k = l BY <2>1
      <3>. QED BY <2>1, <3>1
    <2>6. Flag(x)' <=> Outer(x) /\ held[x] \ {l} = {} BY <2>2, <2>3 DEF Flag
    <2>. QED BY <2>1, <2>4, <2>5, <2>6 DEF Carried
  <1>8. Shown(x)'
    BY <1>1 DEF TypeOK, Local, Ordered, Shown, Carried, Stages, Around, Outer, Flag,
       Leave, At, Goes, Coreof
  <1>9. Suspended(x)' BY <1>1 DEF Suspended
  <1>. QED BY <1>1, <1>2, <1>3, <1>4, <1>5, <1>6, <1>7, <1>8, <1>9, Combine DEF Local

\* The lock let go was the innermost.
LEMMA ClearKeeps ==
  ASSUME InterruptLockAssumption, Inv, NEW x \in Context, Clear(x) PROVE Inv'
  <1>1. /\ TypeOK /\ MutualExclusion /\ Local(x)
        /\ Running(x) /\ Running(x)' /\ Coreof(x) \in Core
    BY Contexts DEF Inv, Clear, At, Running, Coreof
  <1>2. TypeOK' BY <1>1 DEF TypeOK, Clear, At, Goes, Stages, Coreof
  <1>3. Mine(x) BY <1>1 DEF TypeOK, Mine, Clear, At, Goes, Coreof, Local, Ordered
  <1>4. MutualExclusion' BY <1>1 DEF TypeOK, MutualExclusion, Clear, At, Goes, Local, Ordered
  <1>5. Ordered(x)' BY <1>1 DEF TypeOK, Local, Ordered, Around, Clear, At, Goes
  <1>6. Remembered(x)'
    BY <1>1 DEF TypeOK, Local, Ordered, Remembered, Carried, Stages, Around, Outer, Flag,
       Clear, At, Goes, Coreof
  <1>7. Carried(x)'
    BY <1>1 DEF TypeOK, Local, Ordered, Remembered, Carried, Shown, Stages, Around, Outer,
       Flag, Clear, At, Goes, Coreof
  <1>8. Shown(x)'
    BY <1>1 DEF TypeOK, Local, Ordered, Shown, Carried, Stages, Around, Outer, Flag,
       Clear, At, Goes, Coreof
  <1>9. Suspended(x)' BY <1>1 DEF Suspended
  <1>. QED BY <1>1, <1>2, <1>3, <1>4, <1>5, <1>6, <1>7, <1>8, <1>9, Combine DEF Local

\* Interrupts go on only when the outermost lock is let go.
LEMMA RestoreKeeps ==
  ASSUME InterruptLockAssumption, Inv, NEW x \in Context, Restore(x) PROVE Inv'
  <1>1. /\ TypeOK /\ MutualExclusion /\ Local(x)
        /\ Running(x) /\ Running(x)' /\ Coreof(x) \in Core
    BY Contexts DEF Inv, Restore, At, Running, Coreof
  <1>2. TypeOK' BY <1>1 DEF TypeOK, Restore, At, Goes, Restored, On, Stages, Coreof
  <1>3. Mine(x)
    BY <1>1 DEF TypeOK, Mine, Restore, At, Goes, Restored, On, Coreof, Local, Ordered
  <1>4. MutualExclusion'
    BY <1>1 DEF TypeOK, MutualExclusion, Restore, At, Goes, Restored, On, Local, Ordered
  <1>5. Ordered(x)' BY <1>1 DEF TypeOK, Local, Ordered, Around, Restore, At, Goes, Restored, On
  <1>6. Remembered(x)'
    BY <1>1 DEF TypeOK, Local, Ordered, Remembered, Carried, Stages, Around, Outer, Flag,
       Restore, At, Goes, Restored, On, Coreof
  <1>7. Carried(x)'
    BY <1>1 DEF TypeOK, Local, Ordered, Remembered, Carried, Shown, Stages, Around, Outer,
       Flag, Restore, At, Goes, Restored, On, Coreof
  <1>8. Shown(x)'
    BY <1>1 DEF TypeOK, Local, Ordered, Shown, Carried, Stages, Around, Outer, Flag,
       Restore, At, Goes, Restored, On, Coreof
  <1>9. Suspended(x)' BY <1>1 DEF Suspended
  <1>. QED BY <1>1, <1>2, <1>3, <1>4, <1>5, <1>6, <1>7, <1>8, <1>9, Combine DEF Local

-----------------------------------------------------------------------------
(* The steps of the hardware and of the thread outside of locks.            *)

\* Of an interrupt, a return from it and a change of the flag outside of locks, the lock sees
\* only the contexts of that core, and these have no lock.
LEMMA OutsideKeeps ==
  ASSUME InterruptLockAssumption, Inv, NEW c \in Core, Outside(c) PROVE Inv'
  <1>. DEFINE t == <<c, "thread">>
              h == <<c, "handler">>
  <1>1. TypeOK /\ MutualExclusion /\ \A y \in Context : Local(y) BY DEF Inv
  <1>2. t \in Context /\ h \in Context /\ \A y \in Context : Coreof(y) = c => y \in {t, h}
    BY DEF Context, Level, Coreof
  <1>3. /\ taken' = taken /\ was' = was /\ pc' = pc /\ lock' = lock /\ saved' = saved
        /\ held' = held
    BY DEF Outside, Protect, Interrupt, Iret
  <1>4. TypeOK' BY <1>1 DEF TypeOK, Outside, Protect, Interrupt, Iret
  <1>5. MutualExclusion' BY <1>1, <1>3 DEF MutualExclusion, Context
  <1>6. ASSUME NEW y \in Context, Coreof(y) # c PROVE Local(y)'
    <2>1. Coreof(y) \in Core BY Contexts, <1>1
    <2>2. /\ enabled'[Coreof(y)] = enabled[Coreof(y)] /\ nested'[Coreof(y)] = nested[Coreof(y)]
          /\ wanted'[Coreof(y)] = wanted[Coreof(y)]
      BY <1>1, <1>6, <2>1 DEF TypeOK, Outside, Protect, Interrupt, Iret
    <2>3. /\ Around(y)' = Around(y) /\ (Outer(y)' <=> Outer(y)) /\ (Flag(y)' <=> Flag(y))
          /\ (Running(y)' <=> Running(y))
      BY <1>3, <2>2 DEF Around, Outer, Flag, Running, Coreof
    <2>4. Ordered(y)' /\ Remembered(y)' BY <1>1, <1>3, <2>3 DEF Local, Ordered, Remembered
    <2>5. Carried(y)' /\ Suspended(y)' BY <1>1, <1>3, <2>3 DEF Local, Carried, Suspended
    <2>6. Shown(y)' BY <1>1, <1>3, <2>2, <2>3 DEF Local, Shown, Coreof
    <2>. QED BY <2>4, <2>5, <2>6 DEF Local
  <1>7. /\ Coreof(t) = c /\ t[2] = "thread" /\ Coreof(h) = c /\ h[2] = "handler"
        /\ (Running(t) <=> ~nested[c]) /\ (Running(h) <=> nested[c])
    BY DEF Coreof, Running
  <1>8. ASSUME Protect(c) PROVE Local(t)' /\ Local(h)'
    <2>1. pc[t] = "out" /\ held[t] = {} /\ ~nested[c] /\ nested' = nested
      BY <1>7, <1>8 DEF Protect, At
    <2>2. enabled'[c] <=> wanted'[c] BY <1>1, <1>8 DEF TypeOK, Protect
    <2>3. pc[h] = "out" /\ held[h] = {} BY <1>1, <1>2, <1>7, <2>1 DEF Local, Suspended
    <2>4. Local(t)'
      BY <1>3, <1>7, <2>1, <2>2 DEF Local, Ordered, Remembered, Carried, Shown, Suspended,
                                    Flag, Around, Outer, Coreof, Running
    <2>5. Local(h)'
      BY <1>3, <1>7, <2>1, <2>3 DEF Local, Ordered, Remembered, Carried, Shown, Suspended,
                                    Flag, Around, Outer, Coreof, Running
    <2>. QED BY <2>4, <2>5
  <1>9. ASSUME Interrupt(c) PROVE Local(t)' /\ Local(h)'
    <2>1. enabled[c] /\ ~nested[c] /\ nested'[c] /\ ~enabled'[c] /\ wanted' = wanted
      BY <1>1, <1>9 DEF TypeOK, Interrupt
    <2>2. Flag(t) /\ pc[t] \in {"out", "flags", "cli"}
      BY <1>1, <1>2, <1>7, <2>1 DEF Local, Shown
    <2>3. held[t] = {} /\ Outer(t) BY <2>2 DEF Flag, Around
    <2>4. pc[h] = "out" /\ held[h] = {} BY <1>1, <1>2, <1>7, <2>1 DEF Local, Suspended
    <2>5. Local(t) BY <1>1, <1>2
    <2>6. Local(t)'
      BY <1>3, <1>7, <2>1, <2>2, <2>3, <2>5
      DEF Local, Ordered, Remembered, Carried, Shown, Suspended, Flag, Around, Outer, Coreof, Running
    <2>7. Local(h)'
      BY <1>3, <1>7, <2>1, <2>4
      DEF Local, Ordered, Remembered, Carried, Shown, Suspended, Flag, Around, Outer, Coreof, Running
    <2>. QED BY <2>6, <2>7
  <1>10. ASSUME Iret(c) PROVE Local(t)' /\ Local(h)'
    <2>1. pc[h] = "out" /\ held[h] = {} /\ nested[c] BY <1>7, <1>10 DEF Iret, At
    <2>2. ~nested'[c] /\ enabled'[c] /\ wanted' = wanted BY <1>1, <1>10 DEF TypeOK, Iret
    <2>3. held[t] = {} /\ Outer(t) /\ pc[t] \in {"out", "flags", "cli"} /\ Local(t)
      BY <1>1, <1>2, <1>7, <2>1 DEF Local, Suspended
    <2>4. Local(t)'
      BY <1>3, <1>7, <2>2, <2>3
      DEF Local, Ordered, Remembered, Carried, Shown, Suspended, Flag, Around, Outer, Coreof, Running
    <2>5. Local(h)'
      BY <1>3, <1>7, <2>1, <2>2
      DEF Local, Ordered, Remembered, Carried, Shown, Suspended, Flag, Around, Outer, Coreof, Running
    <2>. QED BY <2>4, <2>5
  <1>11. Local(t)' /\ Local(h)' BY <1>8, <1>9, <1>10 DEF Outside
  <1>12. \A y \in Context : Local(y)' BY <1>2, <1>6, <1>11
  <1>13. Context' = Context BY DEF Context
  <1>. QED BY <1>4, <1>5, <1>12, <1>13 DEF Inv

-----------------------------------------------------------------------------
(* The theorems.                                                            *)

\* Nothing is locked and no handler runs when a core starts.
LEMMA InitInv == ASSUME InterruptLockAssumption, Init PROVE Inv
  <1>1. TypeOK /\ MutualExclusion BY DEF Init, TypeOK, MutualExclusion, Stages
  <1>2. ASSUME NEW x \in Context PROVE Local(x)
    <2>1. Coreof(x) \in Core /\ x[2] \in Level BY <1>1, Contexts
    <2>2. /\ pc[x] = "out" /\ held[x] = {}
          /\ ~nested[Coreof(x)] /\ ~wanted[Coreof(x)] /\ ~enabled[Coreof(x)]
      BY <2>1 DEF Init
    <2>3. Running(x) <=> x[2] = "thread" BY <2>1, <2>2 DEF Running, Level
    <2>. QED BY <2>2, <2>3 DEF Local, Ordered, Remembered, Carried, Shown, Suspended, Flag,
                               Around, Outer
  <1>. QED BY <1>1, <1>2 DEF Inv

LEMMA NextInv == ASSUME InterruptLockAssumption, Inv, [Next]_vars PROVE Inv'
  <1>1. ASSUME NEW x \in Context, Move(x) PROVE Inv'
    BY <1>1, EnterKeeps, FlagsKeeps, CliKeeps, TakeKeeps, MissKeeps, AgainKeeps, StoreKeeps,
       LeaveKeeps, ClearKeeps, RestoreKeeps DEF Move
  <1>2. ASSUME NEW c \in Core, Outside(c) PROVE Inv'
    BY <1>2, OutsideKeeps
  <1>3. CASE UNCHANGED vars
    BY <1>3 DEF vars, Inv, TypeOK, MutualExclusion, Local, Ordered, Remembered, Carried, Shown,
                Suspended, Flag, Around, Outer, Coreof, Running, Context
  <1>. QED BY <1>1, <1>2, <1>3 DEF Next

\* Every context knows the flag it has to put back (InterruptSafeLock, atomic.h:200-231).
THEOREM LockInvariant == Spec => []Inv
  <1>1. Init => Inv BY InitInv, InterruptLockAssumption
  <1>2. Inv /\ [Next]_vars => Inv' BY NextInv, InterruptLockAssumption
  <1>. QED BY <1>1, <1>2, PTL DEF Spec

\* Whatever the cores and the locks, a lock has one holder (atomic.h:218).
THEOREM Exclusion == Spec => []MutualExclusion
  <1>1. Inv => MutualExclusion BY DEF Inv
  <1>. QED BY <1>1, LockInvariant, PTL

\* No handler runs on top of a thread that has a lock, so none waits for it for ever.
THEOREM Disabled == Spec => []HeldDisabled
  <1>1. ASSUME Inv, NEW x \in Context, held[x] # {} PROVE Running(x) /\ ~enabled[Coreof(x)]
    <2>1. Ordered(x) /\ Shown(x) /\ Suspended(x) BY <1>1 DEF Inv, Local
    <2>2. Running(x) BY <1>1, <2>1 DEF Suspended
    <2>3. pc[x] \notin {"store", "clear"} => ~Flag(x) BY <1>1 DEF Flag, Around
    <2>. QED BY <2>1, <2>2, <2>3 DEF Shown
  <1>2. Inv => HeldDisabled BY <1>1 DEF HeldDisabled
  <1>. QED BY <1>2, LockInvariant, PTL

\* The interrupt flag comes out of nested locks as it went in (atomic.h:219 and 228-230).
THEOREM Kept == Spec => []FlagKept
  <1>1. ASSUME Inv, NEW c \in Core
        PROVE  /\ ~nested[c] /\ pc[<<c, "thread">>] = "out" /\ held[<<c, "thread">>] = {}
                    => enabled[c] = wanted[c]
               /\ nested[c] => ~enabled[c]
    <2>. DEFINE t == <<c, "thread">>
                h == <<c, "handler">>
    <2>1. /\ t \in Context /\ h \in Context /\ Coreof(t) = c /\ Coreof(h) = c
          /\ (Running(t) <=> ~nested[c]) /\ (Running(h) <=> nested[c])
      BY DEF Context, Level, Coreof, Running
    <2>2. Shown(t) /\ Shown(h) BY <1>1, <2>1 DEF Inv, Local
    <2>3. enabled[c] \in BOOLEAN /\ wanted[c] \in BOOLEAN BY <1>1 DEF Inv, TypeOK
    <2>4. ~Flag(h) /\ (Outer(t) <=> wanted[c]) BY DEF Flag, Outer, Coreof
    <2>5. ASSUME ~nested[c], pc[t] = "out", held[t] = {} PROVE enabled[c] = wanted[c]
      <3>1. Flag(t) <=> wanted[c] BY <2>4, <2>5 DEF Flag, Around
      <3>2. enabled[c] <=> wanted[c] BY <2>1, <2>2, <2>5, <3>1 DEF Shown
      <3>. QED BY <3>2, <2>3
    <2>. QED BY <2>1, <2>2, <2>4, <2>5 DEF Shown
  <1>2. Inv => FlagKept BY <1>1 DEF FlagKept
  <1>. QED BY <1>2, LockInvariant, PTL

-----------------------------------------------------------------------------
(* Barrier.                                                                 *)

Countdown == {"out", "arrive", "look", "block", "asleep", "release"}
Token == {"increment", "more", "all", "some", "decrement", "less", "none", "others"}
Reusing == {"out", "downMut", "downSem"} \cup Token

Types ==
    /\ reusable \in BOOLEAN /\ waiting \subseteq Party
    /\ count \in Nat /\ epoch \in Nat /\ mut \in Nat /\ sem \in Nat
    /\ seen \in [Party -> Nat]
    /\ step \in [Party -> IF reusable THEN Reusing ELSE Countdown]
    /\ came \in [Party -> Nat] /\ left \in [Party -> Nat]

\* A thread is in sync once more than it has returned from it.
Called == \A t \in Party : came[t] = left[t] + IF step[t] = "out" THEN 0 ELSE 1

-----------------------------------------------------------------------------
(* Barrier: those that count has not been lowered for.                      *)

Missing == {t \in Party : came[t] = 0 \/ step[t] = "arrive"}

CountdownInv ==
    /\ count = Cardinality(Missing)
    /\ \A t \in Party : came[t] <= 1 /\ (step[t] = "release" => count = 0)
    /\ \A t \in waiting : step[t] = "asleep"

-----------------------------------------------------------------------------
(* ReusableBarrier: those that have raised count and have not lowered it.   *)

Between(t) == step[t] \in {"all", "some", "downSem", "decrement", "less"}
Counted == {t \in Party : Between(t)}

\* How often a thread has lowered count, and raised it.
lowered == [t \in Party |-> left[t] + IF step[t] \in {"others", "none"} THEN 1 ELSE 0]
raised == [t \in Party |-> lowered[t] + IF Between(t) THEN 1 ELSE 0]

\* One permit, or one thread that has taken it.
OneToken ==
    /\ mut + sem <= 1
    /\ \A t \in Party : step[t] \in Token => mut = 0 /\ sem = 0
    /\ \A t, u \in Party : step[t] \in Token /\ step[u] \in Token => t = u

\* While mut is handed on, everybody has lowered count as often as everybody else; while sem
\* is, everybody has raised it as often.
Entering(t) == step[t] \in {"increment", "more", "some", "none"}
Leaving(t) == step[t] \in {"all", "decrement", "less", "others"}
Phases ==
    /\ mut > 0 \/ (\E t \in Party : Entering(t)) => \A t, u \in Party : lowered[t] = lowered[u]
    /\ sem > 0 \/ (\E t \in Party : Leaving(t)) => \A t, u \in Party : raised[t] = raised[u]

ReusableInv ==
    /\ count = Cardinality(Counted)
    /\ \A t \in Party : step[t] \in {"more", "less"} => seen[t] = count
    /\ OneToken
    /\ Phases

BarrierInv ==
    /\ Types /\ Called
    /\ IF reusable THEN ReusableInv ELSE CountdownInv
-----------------------------------------------------------------------------
\* What both counts are of is a set of threads.
LEMMA Finite == IsFiniteSet(Missing) /\ IsFiniteSet(Counted)
  BY BarrierAssumption, FS_Subset DEF Missing, Counted

LEMMA StartOK == ASSUME BarrierInit PROVE BarrierInv
  <1>. USE DEF BarrierInit
  <1>1. limit \in Nat BY BarrierAssumption, FS_CardinalityType DEF limit
  <1>2. Types BY <1>1 DEF Types, Countdown, Reusing
  <1>3. Called BY DEF Called
  <1>4. Missing = Party /\ Counted = {} BY DEF Missing, Counted, Between
  <1>5. CASE reusable
    <2>1. count = Cardinality(Counted) BY <1>4, <1>5, FS_EmptySet
    <2>2. OneToken BY DEF OneToken, Token
    <2>3. Phases BY DEF Phases, Entering, Leaving, lowered, raised, Between
    <2>. QED BY <1>2, <1>3, <1>5, <2>1, <2>2, <2>3 DEF BarrierInv, ReusableInv
  <1>6. CASE ~reusable
    BY <1>2, <1>3, <1>4, <1>6 DEF BarrierInv, CountdownInv, limit
  <1>. QED BY <1>5, <1>6

-----------------------------------------------------------------------------
(* sync begins.                                                             *)

LEMMA SyncOK == ASSUME BarrierInv, NEW t \in Party, Sync(t) PROVE BarrierInv'
  <1>. USE DEF BarrierInv
  <1>1. /\ step[t] = "out" /\ came' = [came EXCEPT ![t] = @ + 1]
        /\ step' = [step EXCEPT ![t] = IF reusable THEN "downMut" ELSE "arrive"]
        /\ came[t] < IF reusable THEN Rounds ELSE 1
        /\ UNCHANGED <<reusable, count, epoch, waiting, mut, sem, seen, left>>
    BY DEF Sync, Is, Moves
  <1>2. Types' BY <1>1 DEF Types, Countdown, Reusing
  <1>3. Called' BY <1>1 DEF Types, Called
  <1>4. CASE ~reusable
    <2>1. Missing' = Missing BY <1>1, <1>4 DEF Missing, Types
    <2>2. \A u \in Party : came'[u] <= 1 /\ (step'[u] = "release" => count' = 0)
      BY <1>1, <1>4 DEF CountdownInv, Types
    <2>3. \A u \in waiting' : step'[u] = "asleep" BY <1>1, <1>4 DEF CountdownInv, Types
    <2>. QED BY <1>1, <1>2, <1>3, <1>4, <2>1, <2>2, <2>3 DEF CountdownInv
  <1>5. CASE reusable
    <2>1. /\ \A u \in Party : u # t => step'[u] = step[u]
          /\ step'[t] = "downMut"
      BY <1>1, <1>5 DEF Types
    <2>2. Counted' = Counted BY <1>1, <2>1 DEF Counted, Between
    <2>3. OneToken' BY <1>1, <1>5, <2>1 DEF ReusableInv, OneToken, Token
    <2>4. \A u \in Party : lowered'[u] = lowered[u] /\ raised'[u] = raised[u]
      BY <1>1, <2>1 DEF lowered, raised, Between
    <2>5. Phases' BY <1>1, <1>5, <2>1, <2>4 DEF ReusableInv, Phases, Entering, Leaving
    <2>. QED BY <1>1, <1>2, <1>3, <1>5, <2>1, <2>2, <2>3, <2>5 DEF ReusableInv
  <1>. QED BY <1>4, <1>5

-----------------------------------------------------------------------------
(* Barrier.                                                                 *)

CountdownStep(t) == Arrive(t) \/ Look(t) \/ Pass(t) \/ Block(t) \/ Release(t)

LEMMA CountdownOK == ASSUME BarrierInv, NEW t \in Party, CountdownStep(t) PROVE BarrierInv'
  <1>. USE DEF BarrierInv, Is, Moves
  <1>1. step[t] \in Countdown \ {"out"}
    BY DEF CountdownStep, Arrive, Look, Pass, Block, Release, Countdown
  <1>2. ~reusable /\ reusable' = reusable
    BY <1>1 DEF Types, Countdown, Reusing, Token, CountdownStep, Arrive, Look, Pass, Block, Release
  <1>3. Types /\ Called /\ CountdownInv BY <1>2
  <1>4. came[t] = left[t] + 1 /\ came[t] = 1 /\ left[t] = 0
    BY <1>1, <1>3 DEF Called, Types, CountdownInv, Countdown
  <1>. SUFFICES Types' /\ Called' /\ CountdownInv' BY <1>2
  <1>5. CASE Arrive(t)
    <2>1. t \in Missing BY <1>5 DEF Arrive, Missing
    <2>2. Missing' = Missing \ {t} BY <1>3, <1>4, <1>5 DEF Arrive, Missing, Types
    <2>3. Cardinality(Missing) \in Nat /\ Cardinality(Missing) # 0
      BY <2>1, Finite, FS_CardinalityType, FS_EmptySet
    <2>9. Cardinality(Missing') = Cardinality(Missing) - 1
      BY <2>1, <2>2, Finite, FS_RemoveElement
    <2>4. count' = Cardinality(Missing') /\ count' \in Nat /\ count > 0
      BY <1>3, <1>5, <2>3, <2>9 DEF Arrive, CountdownInv
    <2>5. Types' BY <1>2, <1>3, <1>5, <2>4 DEF Arrive, Types, Countdown
    <2>6. Called' BY <1>1, <1>3, <1>5 DEF Arrive, Types, Called
    <2>7. \A u \in Party : came'[u] <= 1 /\ (step'[u] = "release" => count' = 0)
      BY <1>3, <1>5, <2>4 DEF Arrive, Types, CountdownInv
    <2>8. \A u \in waiting' : step'[u] = "asleep"
      BY <1>3, <1>5 DEF Arrive, Types, CountdownInv
    <2>. QED BY <2>4, <2>5, <2>6, <2>7, <2>8 DEF CountdownInv
  <1>6. CASE Look(t)
    <2>1. Missing' = Missing BY <1>3, <1>6 DEF Look, Missing, Types
    <2>. QED BY <1>2, <1>3, <1>6, <2>1 DEF Look, Types, Called, CountdownInv, Countdown
  <1>7. CASE Pass(t)
    <2>1. Missing' = Missing BY <1>3, <1>7 DEF Pass, Return, Missing, Types
    <2>2. Types' BY <1>2, <1>3, <1>7 DEF Pass, Return, Types, Countdown
    <2>3. Called' BY <1>3, <1>4, <1>7 DEF Pass, Return, Types, Called
    <2>4. CountdownInv' BY <1>3, <1>7, <2>1 DEF Pass, Return, Types, CountdownInv
    <2>. QED BY <2>2, <2>3, <2>4
  <1>8. CASE Block(t)
    <2>1. Missing' = Missing BY <1>3, <1>8 DEF Block, Missing, Types
    <2>. QED BY <1>2, <1>3, <1>8, <2>1 DEF Block, Types, Called, CountdownInv, Countdown
  <1>9. CASE Release(t)
    <2>1. /\ \A u \in waiting : step[u] = "asleep" /\ step'[u] = "look"
          /\ \A u \in Party \ waiting : u # t => step'[u] = step[u]
          /\ step'[t] = "out"
      BY <1>3, <1>9 DEF Release, Types, CountdownInv
    <2>2. Missing' = Missing BY <1>3, <1>9, <2>1 DEF Release, Missing, Types
    <2>3. Types' BY <1>2, <1>3, <1>9 DEF Release, Types, Countdown
    <2>4. Called' BY <1>3, <1>4, <1>9, <2>1 DEF Release, Types, Called
    <2>5. CountdownInv' BY <1>3, <1>9, <2>1, <2>2 DEF Release, Types, CountdownInv
    <2>. QED BY <2>3, <2>4, <2>5
  <1>. QED BY <1>5, <1>6, <1>7, <1>8, <1>9 DEF CountdownStep

-----------------------------------------------------------------------------
(* ReusableBarrier.                                                         *)

\* Who has the token is alone with it.
LEMMA Holder ==
  ASSUME Types, reusable, ReusableInv, NEW t \in Party, step[t] \in Token
  PROVE  /\ mut = 0 /\ sem = 0
         /\ \A u \in Party : u # t => step[u] \in {"out", "downMut", "downSem"}
  BY DEF Types, ReusableInv, OneToken, Reusing

\* With a permit there, nobody has the token.
LEMMA Nobody ==
  ASSUME Types, reusable, ReusableInv, mut > 0 \/ sem > 0
  PROVE  /\ mut + sem = 1
         /\ \A u \in Party : step[u] \in {"out", "downMut", "downSem"}
  BY DEF Types, ReusableInv, OneToken, Reusing

LEMMA DownOK ==
  ASSUME BarrierInv, reusable, NEW t \in Party, DownMut(t) \/ DownSem(t)
  PROVE  BarrierInv'
  <1>. USE DEF BarrierInv, Is, Moves, DownMut, DownSem, semaphores
  <1>1. /\ step[t] \in {"downMut", "downSem"} /\ step'[t] \in {"increment", "decrement"}
        /\ Between(t) <=> Between(t)'
        /\ \A u \in Party : u # t => step'[u] = step[u]
        /\ UNCHANGED <<reusable, count, seen, came, left>>
    BY DEF Types, Between
  <1>2. mut + sem = 1 /\ \A u \in Party : step[u] \in {"out", "downMut", "downSem"}
    BY Nobody DEF Types
  <1>3. mut' = 0 /\ sem' = 0
    <2>1. mut \in Nat /\ sem \in Nat BY DEF Types
    <2>2. CASE DownMut(t) BY <1>2, <2>1, <2>2
    <2>3. CASE DownSem(t) BY <1>2, <2>1, <2>3
    <2>. QED BY <2>2, <2>3
  <1>4. Types'
    BY <1>3 DEF Types, Reusing, Token
  <1>5. Called' BY <1>1 DEF Called
  <1>6. Counted' = Counted BY <1>1 DEF Counted, Between
  <1>7. OneToken' BY <1>1, <1>2, <1>3 DEF OneToken, Token
  <1>8. \A u \in Party : lowered'[u] = lowered[u] /\ raised'[u] = raised[u]
    BY <1>1 DEF lowered, raised, Between
  <1>9. CASE DownMut(t)
    <2>1. \A u, v \in Party : lowered[u] = lowered[v] BY <1>9 DEF ReusableInv, Phases
    <2>2. ~(sem' > 0) /\ \A u \in Party : ~Leaving(u)'
      BY <1>1, <1>2, <1>3, <1>9 DEF Leaving, Types
    <2>3. Phases' BY <1>8, <2>1, <2>2 DEF Phases
    <2>. QED BY <1>1, <1>2, <1>4, <1>5, <1>6, <1>7, <2>3 DEF ReusableInv
  <1>10. CASE DownSem(t)
    <2>1. \A u, v \in Party : raised[u] = raised[v] BY <1>10 DEF ReusableInv, Phases
    <2>2. ~(mut' > 0) /\ \A u \in Party : ~Entering(u)'
      BY <1>1, <1>2, <1>3, <1>10 DEF Entering, Types
    <2>3. Phases' BY <1>8, <2>1, <2>2 DEF Phases
    <2>. QED BY <1>1, <1>2, <1>4, <1>5, <1>6, <1>7, <2>3 DEF ReusableInv
  <1>. QED BY <1>9, <1>10

LEMMA ReadOK ==
  ASSUME BarrierInv, reusable, NEW t \in Party, Read(t)
  PROVE  BarrierInv'
  <1>. USE DEF BarrierInv, Is, Moves, Read, semaphores
  <1>1. /\ step[t] \in {"increment", "decrement"} /\ step'[t] \in {"more", "less"}
        /\ Between(t) <=> Between(t)'
        /\ Entering(t) <=> Entering(t)'
        /\ Leaving(t) <=> Leaving(t)'
        /\ \A u \in Party : u # t => step'[u] = step[u] /\ seen'[u] = seen[u]
        /\ seen'[t] = count
        /\ UNCHANGED <<reusable, count, mut, sem, came, left>>
    BY DEF Types, Between, Entering, Leaving
  <1>2. mut = 0 /\ sem = 0 /\ \A u \in Party : u # t => step[u] \in {"out", "downMut", "downSem"}
    BY <1>1, Holder DEF Token
  <1>4. Types' BY DEF Types, Reusing, Token
  <1>5. Called' BY <1>1 DEF Called
  <1>6. Counted' = Counted BY <1>1 DEF Counted, Between
  <1>7. OneToken' BY <1>1, <1>2 DEF OneToken, Token
  <1>8. \A u \in Party : lowered'[u] = lowered[u] /\ raised'[u] = raised[u]
    BY <1>1 DEF lowered, raised, Between
  <1>9. Phases' BY <1>1, <1>2, <1>8 DEF ReusableInv, Phases, Entering, Leaving
  <1>. QED BY <1>1, <1>2, <1>4, <1>5, <1>6, <1>7, <1>9 DEF ReusableInv

\* The last that comes finds that all have: everybody has raised count once more than lowered it.
LEMMA MoreOK ==
  ASSUME BarrierInv, reusable, NEW t \in Party, More(t)
  PROVE  BarrierInv'
  <1>. USE DEF BarrierInv
  <1>1. /\ step[t] = "more" /\ step'[t] \in {"all", "some"}
        /\ step'[t] = "all" <=> count' = limit
        /\ step' = [step EXCEPT ![t] = step'[t]]
        /\ \A u \in Party : u # t => step'[u] = step[u]
        /\ count' = count + 1
        /\ UNCHANGED <<reusable, epoch, waiting, mut, sem, seen, came, left>>
    BY DEF Types, ReusableInv, More, Is, Moves, semaphores
  <1>2. mut = 0 /\ sem = 0 /\ \A u \in Party : u # t => step[u] \in {"out", "downMut", "downSem"}
    BY <1>1, Holder DEF Token
  <1>3. Types' BY <1>1 DEF Types, Reusing, Token
  <1>4. Called' BY <1>1 DEF Called
  <1>5. t \notin Counted /\ Counted' = Counted \cup {t}
    BY <1>1 DEF Counted, Between
  <1>6. Cardinality(Counted') = Cardinality(Counted) + 1
    BY <1>5, Finite, FS_AddElement
  <1>7. count' = Cardinality(Counted') BY <1>1, <1>6 DEF ReusableInv
  <1>8. OneToken' BY <1>1, <1>2 DEF OneToken, Token
  <1>9. \A u, v \in Party : lowered[u] = lowered[v]
    BY <1>1 DEF ReusableInv, Phases, Entering
  <1>10. \A u \in Party : lowered'[u] = lowered[u]
    BY <1>1 DEF lowered
  <1>11. Phases'
    <2>1. CASE step'[t] = "some"
      <3>1. \A u \in Party : ~Leaving(u)' BY <1>1, <1>2, <2>1 DEF Leaving
      <3>. QED BY <1>1, <1>2, <1>9, <1>10, <3>1 DEF Phases
    <2>2. CASE step'[t] = "all"
      <3>1. Counted' \subseteq Party BY DEF Counted
      <3>2. Cardinality(Counted') = Cardinality(Party) BY <1>1, <1>7, <2>2 DEF limit
      <3>3. Counted' = Party BY <3>1, <3>2, BarrierAssumption, FS_Subset
      <3>4. \A u \in Party : raised'[u] = lowered'[u] + 1
        BY <3>3 DEF Counted, raised
      <3>5. \A u \in Party : ~Entering(u)' BY <1>1, <1>2, <2>2 DEF Entering
      <3>. QED BY <1>1, <1>2, <1>9, <1>10, <3>4, <3>5 DEF Phases
    <2>. QED BY <1>1, <2>1, <2>2
  <1>12. \A u \in Party : step'[u] \notin {"more", "less"} BY <1>1, <1>2
  <1>. QED BY <1>1, <1>3, <1>4, <1>7, <1>8, <1>11, <1>12 DEF ReusableInv

\* The last that leaves finds that all have: everybody has lowered count as often as raised it.
LEMMA LessOK ==
  ASSUME BarrierInv, reusable, NEW t \in Party, Less(t)
  PROVE  BarrierInv'
  <1>. USE DEF BarrierInv
  <1>1. /\ step[t] = "less" /\ step'[t] \in {"none", "others"}
        /\ step'[t] = "none" <=> count' = 0
        /\ step' = [step EXCEPT ![t] = step'[t]]
        /\ \A u \in Party : u # t => step'[u] = step[u]
        /\ count' = count - 1
        /\ UNCHANGED <<reusable, epoch, waiting, mut, sem, seen, came, left>>
    BY DEF Types, ReusableInv, Less, Is, Moves, semaphores
  <1>2. mut = 0 /\ sem = 0 /\ \A u \in Party : u # t => step[u] \in {"out", "downMut", "downSem"}
    BY <1>1, Holder DEF Token
  <1>4. Called' BY <1>1 DEF Called
  <1>5. t \in Counted /\ Counted' = Counted \ {t}
    BY <1>1 DEF Counted, Between
  <1>6. Cardinality(Counted') = Cardinality(Counted) - 1 /\ Cardinality(Counted') \in Nat
    BY <1>5, Finite, FS_RemoveElement, FS_CardinalityType
  <1>7. count' = Cardinality(Counted') BY <1>1, <1>6 DEF ReusableInv
  <1>3. Types' BY <1>1, <1>6, <1>7 DEF Types, Reusing, Token
  <1>8. OneToken' BY <1>1, <1>2 DEF OneToken, Token
  <1>9. \A u, v \in Party : raised[u] = raised[v]
    BY <1>1 DEF ReusableInv, Phases, Leaving
  <1>10. \A u \in Party : raised'[u] = raised[u]
    BY <1>1 DEF Types, raised, lowered, Between
  <1>11. Phases'
    <2>1. CASE step'[t] = "others"
      <3>1. \A u \in Party : ~Entering(u)' BY <1>1, <1>2, <2>1 DEF Entering
      <3>. QED BY <1>1, <1>2, <1>9, <1>10, <3>1 DEF Phases
    <2>2. CASE step'[t] = "none"
      <3>1. IsFiniteSet(Counted') BY <1>5, Finite, FS_RemoveElement
      <3>2. Counted' = {} BY <1>1, <1>7, <2>2, <3>1, FS_EmptySet
      <3>3. \A u \in Party : raised'[u] = lowered'[u]
        BY <1>3, <3>2 DEF Counted, raised, lowered, Types
      <3>4. \A u \in Party : ~Leaving(u)' BY <1>1, <1>2, <2>2 DEF Leaving
      <3>. QED BY <1>1, <1>2, <1>9, <1>10, <3>3, <3>4 DEF Phases
    <2>. QED BY <1>1, <2>1, <2>2
  <1>12. \A u \in Party : step'[u] \notin {"more", "less"} BY <1>1, <1>2
  <1>. QED BY <1>1, <1>3, <1>4, <1>7, <1>8, <1>11, <1>12 DEF ReusableInv

\* The token becomes a permit again.
LEMMA UpOK ==
  ASSUME BarrierInv, reusable, NEW t \in Party, UpSem(t) \/ UpMut(t)
  PROVE  BarrierInv'
  <1>. USE DEF BarrierInv, Is, Moves, Return, UpSem, UpMut, semaphores
  <1>1. /\ step[t] \in {"all", "some", "others", "none"}
        /\ step' = [step EXCEPT ![t] = step'[t]]
        /\ left' = [left EXCEPT ![t] = left'[t]]
        /\ left'[t] \in Nat
        /\ IF step[t] \in {"all", "some"} THEN step'[t] = "downSem" /\ left'[t] = left[t]
           ELSE step'[t] = "out" /\ left'[t] = left[t] + 1
        /\ IF step[t] \in {"all", "others"} THEN sem' = sem + 1 /\ mut' = mut
           ELSE mut' = mut + 1 /\ sem' = sem
        /\ UNCHANGED <<reusable, epoch, waiting, count, seen, came>>
    <2>1. CASE step[t] = "all" BY <2>1 DEF Types
    <2>2. CASE step[t] = "others" BY <2>2 DEF Types
    <2>3. CASE step[t] = "some" BY <2>3 DEF Types
    <2>4. CASE step[t] = "none" BY <2>4 DEF Types
    <2>. QED BY <2>1, <2>2, <2>3, <2>4
  <1>2. mut = 0 /\ sem = 0 /\ \A u \in Party : u # t => step[u] \in {"out", "downMut", "downSem"}
    BY <1>1, Holder DEF Token
  <1>3. \A u \in Party : u # t => step'[u] = step[u] /\ left'[u] = left[u]
    BY <1>1 DEF Types
  <1>4. Types' BY <1>1, <1>2 DEF Types, Reusing, Token
  <1>5. Called' BY <1>1, <1>3 DEF Types, Called
  <1>6. Counted' = Counted BY <1>1, <1>3 DEF Counted, Between
  <1>7. OneToken' BY <1>1, <1>2, <1>3 DEF OneToken, Token
  <1>8. \A u \in Party : lowered'[u] = lowered[u]
    BY <1>1, <1>3 DEF Types, lowered
  <1>9. \A u \in Party : raised'[u] = raised[u]
    BY <1>1, <1>3, <1>8 DEF raised, Between
  <1>10. \A u \in Party : ~Entering(u)' /\ ~Leaving(u)'
    BY <1>1, <1>2, <1>3 DEF Entering, Leaving
  <1>11. CASE step[t] \in {"all", "others"}
    <2>1. \A u, v \in Party : raised[u] = raised[v]
      BY <1>11 DEF ReusableInv, Phases, Leaving
    <2>2. Phases' BY <1>1, <1>2, <1>9, <1>10, <1>11, <2>1 DEF Phases
    <2>. QED BY <1>1, <1>2, <1>3, <1>4, <1>5, <1>6, <1>7, <2>2 DEF ReusableInv
  <1>12. CASE step[t] \in {"some", "none"}
    <2>1. \A u, v \in Party : lowered[u] = lowered[v]
      BY <1>12 DEF ReusableInv, Phases, Entering
    <2>2. Phases' BY <1>1, <1>2, <1>8, <1>10, <1>12, <2>1 DEF Phases
    <2>. QED BY <1>1, <1>2, <1>3, <1>4, <1>5, <1>6, <1>7, <2>2 DEF ReusableInv
  <1>. QED BY <1>1, <1>11, <1>12

-----------------------------------------------------------------------------
(* Together.                                                                *)

ReusableStep(t) == DownMut(t) \/ DownSem(t) \/ Read(t) \/ More(t) \/ Less(t) \/ UpSem(t) \/ UpMut(t)

LEMMA NextOK == ASSUME BarrierInv, BarrierNext PROVE BarrierInv'
  <1>1. PICK t \in Party : Sync(t) \/ Inside(t) BY DEF BarrierNext
  <1>2. CASE CountdownStep(t) BY <1>2, CountdownOK
  <1>3. CASE ReusableStep(t)
    <2>1. reusable
      BY <1>3 DEF ReusableStep, DownMut, DownSem, Read, More, Less, UpSem, UpMut, Is,
                  BarrierInv, Types, Countdown
    <2>. QED BY <1>3, <2>1, DownOK, ReadOK, MoreOK, LessOK, UpOK DEF ReusableStep
  <1>. QED BY <1>1, <1>2, <1>3, SyncOK DEF Inside, CountdownStep, ReusableStep

\* Barrier's count is of the threads still missing; that of ReusableBarrier, which no lock
\* protects, is of those between raising and lowering it, because the two semaphores have one
\* permit between them; and everybody has raised it, or lowered it, as often as everybody else
\* whenever that permit is the one that lets threads out, or in (barrier.h:20-35, 50-61).
THEOREM Rounded == BarrierSpec => []BarrierInv
  <1>1. BarrierInit => BarrierInv BY StartOK
  <1>2. BarrierInv /\ [BarrierNext]_barrierVars => BarrierInv'
    <2>1. CASE UNCHANGED barrierVars
      BY <2>1 DEF barrierVars, BarrierInv, Types, Called, ReusableInv, CountdownInv, Missing,
                  Counted, Between, OneToken, Phases, Entering, Leaving, lowered, raised
    <2>. QED BY <2>1, NextOK
  <1>. QED BY <1>1, <1>2, PTL DEF BarrierSpec

-----------------------------------------------------------------------------
(* What Rendezvous keeps apart.                                             *)

\* A thread that returns from sync: all have come to the round that it leaves.
LEMMA Leaves ==
  ASSUME BarrierInv, NEW t \in Party, left' = [left EXCEPT ![t] = @ + 1], came' = came,
         step[t] # "out", \A u \in Party : came[u] >= came[t]
  PROVE  Promise!Go(t)
  BY DEF BarrierInv, Called, Types, Promise!Go

LEMMA StepMaps ==
  ASSUME BarrierInv, BarrierNext
  PROVE  [Promise!RendezvousNext]_<<came, left>>
  <1>. USE DEF BarrierInv, Is, Moves
  <1>1. PICK t \in Party : Sync(t) \/ Inside(t) BY DEF BarrierNext
  <1>2. CASE Sync(t)
    <2>1. came[t] = left[t] BY <1>2 DEF Sync, Called, Types
    <2>2. came[t] < Rounds
      BY <1>2, BarrierAssumption DEF Sync, Types
    <2>3. Promise!Come(t) BY <1>2, <2>1, <2>2 DEF Sync, Promise!Come
    <2>. QED BY <2>3 DEF Promise!RendezvousNext
  <1>3. CASE Pass(t) \/ Release(t)
    <2>1. ~reusable /\ CountdownInv
      BY <1>3 DEF Pass, Release, Types, Reusing, Token
    <2>2. count = 0 BY <1>3, <2>1 DEF Pass, Release, CountdownInv
    <2>3. Missing = {} BY <2>1, <2>2, Finite, FS_EmptySet DEF CountdownInv
    <2>4. \A u \in Party : came[u] = 1 BY <2>1, <2>3 DEF Missing, CountdownInv, Types
    <2>5. Promise!Go(t) BY <1>3, <2>4, Leaves DEF Pass, Release, Return
    <2>. QED BY <2>5 DEF Promise!RendezvousNext
  <1>4. CASE (UpSem(t) \/ UpMut(t)) /\ step[t] \in {"others", "none"}
    <2>1. reusable /\ ReusableInv
      BY <1>4 DEF Types, Countdown
    <2>2. \A u \in Party : came[u] \in Nat /\ lowered[u] \in Nat /\ raised[u] \in Nat
      BY DEF Types, lowered, raised
    <2>3. \A u \in Party : came[u] >= raised[u] /\ raised[u] >= lowered[u]
      BY DEF Types, Called, raised, lowered, Between
    <2>4. came[t] = lowered[t] /\ raised[t] = lowered[t]
      BY <1>4 DEF Types, Called, raised, lowered, Between
    <2>5. \A u \in Party : came[u] >= came[t]
      <3>1. CASE step[t] = "others"
        <4>1. \A u \in Party : raised[u] = raised[t]
          BY <2>1, <3>1 DEF ReusableInv, Phases, Leaving
        <4>. QED BY <2>2, <2>3, <2>4, <4>1
      <3>2. CASE step[t] = "none"
        <4>1. \A u \in Party : lowered[u] = lowered[t]
          BY <2>1, <3>2 DEF ReusableInv, Phases, Entering
        <4>. QED BY <2>2, <2>3, <2>4, <4>1
      <3>. QED BY <1>4, <3>1, <3>2
    <2>6. left' = [left EXCEPT ![t] = @ + 1] /\ came' = came /\ step[t] # "out"
      BY <1>4 DEF UpSem, UpMut, Return, semaphores
    <2>7. Promise!Go(t) BY <2>5, <2>6, Leaves
    <2>. QED BY <2>7 DEF Promise!RendezvousNext
  <1>5. CASE (UpSem(t) \/ UpMut(t)) /\ step[t] \notin {"others", "none"}
    BY <1>5 DEF UpSem, UpMut, semaphores
  <1>6. CASE Arrive(t) \/ Look(t) \/ Block(t) \/ DownMut(t) \/ DownSem(t) \/ Read(t) \/ More(t) \/ Less(t)
    BY <1>6 DEF Arrive, Look, Block, DownMut, DownSem, Read, More, Less, semaphores
  <1>. QED BY <1>1, <1>2, <1>3, <1>4, <1>5, <1>6 DEF Inside

\* Nobody returns from sync, of either barrier, in a round that somebody has not come to
\* (barrier.h:28, 35, 61): the steps of the barriers are steps of Rendezvous, or none.
THEOREM KeepsTogether ==
  BarrierSpec => Promise!RendezvousInit /\ [][Promise!RendezvousNext]_<<came, left>>
  <1>1. BarrierInit => Promise!RendezvousInit BY DEF BarrierInit, Promise!RendezvousInit
  <1>2. BarrierInv /\ [BarrierNext]_barrierVars => [Promise!RendezvousNext]_<<came, left>>
    BY StepMaps DEF barrierVars
  <1>. QED BY <1>1, <1>2, Rounded, PTL DEF BarrierSpec
=============================================================================
