---------------------------- MODULE ThreadsProofs ----------------------------
(***************************************************************************)
(* The safety of the thread package for any number of processors, threads  *)
(* and permits and any programs of the threads: every invariant the runs   *)
(* of Threads check.                                                       *)
(*                                                                         *)
(* The invariant that is inductive says where each thread is, as a         *)
(* function from threads to places (so that being in two places is a       *)
(* contradiction, whatever the two are), and what each core knows at each  *)
(* stage of block().                                                       *)
(***************************************************************************)
EXTENDS Threads, FiniteSetTheorems, SequenceTheorems, TLAPS

ProgLoc == {"run", "crit", "wake", "spawn", "sweep", "bury", "reap", "stop"}
Stage == {"pick", "guard", "claim", "load", "switch"}
Chosen == {"guard", "claim", "load", "switch"}
Why == {"yield", "tick", "down", "wait", "stop"}

FrameType == [why : Why, back : ProgLoc \cup {"block"},
              core : Core \cup {Nil}, next : TCB \cup {Nil}]

Types ==
    /\ on \in [Core -> TCB] /\ activeThreads \in [Core -> TCB]
    /\ cr3 \in [Core -> User \cup {Kpd}]
    /\ no_preempt \in [TCB -> BOOLEAN]
    /\ pc \in [TCB -> ProgLoc \cup Stage \cup {"block", "unborn"}]
    /\ calls \in [TCB -> Seq(FrameType)]
    /\ act \in [Core -> [who : TCB \cup {Nil}, kind : Why]]
    /\ victim \in [Thread -> Thread \cup {Nil}]
    /\ readyQ \in Seq(Thread)
    /\ count \in Nat /\ waiting \in Seq(Thread)
    /\ zombies \in Seq(Thread) /\ sleepers \in Seq(Thread) /\ signalled \in BOOLEAN

-----------------------------------------------------------------------------
(* Calls of block: one by the program of a thread, interrupted by the timer *)
(* before it has begun; or only one of these.                               *)

\* What the program of t asks for with frame f.
Asks(t, f) ==
    /\ f.back \in ProgLoc
    /\ f.why = "down" => f.back = "crit"
    /\ f.why = "stop" => f.back = "stop"
    /\ f.why = "wait" => t = Reaper /\ f.back = "reap"

\* ... and block has not begun.
Fresh(t, f) == Asks(t, f) /\ f.why # "tick" /\ f.next = Nil

Shape(t) ==
    LET s == calls[t] IN
    /\ pc[t] \in ProgLoc \cup {"unborn"} => Len(s) = 0
    /\ pc[t] = "block" => Len(s) = 1 /\ Fresh(t, s[1])
    /\ pc[t] \in Stage =>
        \/ Len(s) = 1 /\ Asks(t, s[1])
        \/ Len(s) = 2 /\ s[1].why = "tick" /\ s[1].back = "block" /\ Fresh(t, s[2])
    /\ pc[t] = "pick" => s[1].next = Nil

Shapes == \A t \in TCB : Shape(t)

\* Where the program of t is, or will be when its calls of block have returned.
Prog(t) == IF Len(calls[t]) = 0 THEN pc[t] ELSE calls[t][Len(calls[t])].back

\* Idle threads only stop; the reaper only reaps; who has a thread in hand is about to do
\* with it what its program says.
Role(t) ==
    /\ t \in Core => Prog(t) = "stop" /\ \A i \in 1..Len(calls[t]) : calls[t][i].why = "stop"
    /\ Prog(t) = "reap" => t = Reaper
    /\ t = Reaper => Prog(t) \in {"reap", "bury"}
    /\ t \in Thread =>
        /\ victim[t] # Nil <=> Prog(t) \in {"wake", "bury"}
        /\ victim[t] # Nil => pc[victim[t]] = IF Prog(t) = "wake" THEN "crit" ELSE "stop"

Roles == \A t \in TCB : Role(t)

\* What a handler does, it does for a thread whose program asked for it.
AskedFor ==
    \A c \in Core :
        /\ act[c].who = Nil => act[c] = NoAct
        /\ act[c].who \in Core => act[c].kind = "stop"
        /\ act[c].who # Nil =>
            /\ act[c].kind = "down" => pc[act[c].who] = "crit"
            /\ act[c].kind = "wait" => act[c].who = Reaper
            /\ act[c].kind = "stop" => pc[act[c].who] = "stop"

In(t, q) == \E i \in 1..Len(q) : q[i] = t

Queues ==
    \A t \in Thread : /\ In(t, waiting) => pc[t] = "crit"
                      /\ In(t, sleepers) => t = Reaper
                      /\ In(t, zombies) => pc[t] = "stop"

-----------------------------------------------------------------------------
(* What a core knows.                                                       *)

Mine(c) == Thread \cup {c}

CoreOK(c) ==
    /\ on[c] \in Mine(c)
    /\ act[c].who \in Mine(c) \cup {Nil}
    /\ pc[on[c]] \in Stage => act[c] = NoAct /\ calls[on[c]][1].core = c
    /\ pc[on[c]] \in Chosen => calls[on[c]][1].next \in Mine(c) \ {on[c]}
    \* PreemptionSafe
    /\ activeThreads[c] = IF pc[on[c]] \in {"load", "switch"}
                          THEN calls[on[c]][1].next ELSE on[c]
    /\ pc[on[c]] \in {"pick", "guard", "claim"} => no_preempt[on[c]]
    /\ pc[on[c]] \in {"claim", "load", "switch"} => no_preempt[calls[on[c]][1].next]
    \* AddressSpaceLoaded
    /\ cr3[c] = Pd(IF pc[on[c]] = "switch" THEN calls[on[c]][1].next ELSE on[c])

Cores == \A c \in Core : CoreOK(c)

OnlyOnCores == \A t \in TCB : pc[t] \in Stage => \E c \in Core : on[c] = t

-----------------------------------------------------------------------------
(* Where each thread is.                                                    *)

Place == ({"on", "left"} \X Core) \cup ({"next"} \X TCB) \cup ({"held"} \X Thread)
         \cup ({"ready", "waiting", "asleep", "zombie", "nowhere"} \X {Nil})

\* The thread that u is switching to.
Target(u) == IF pc[u] \in Chosen THEN calls[u][1].next ELSE Nil

Lies(w, t) ==
    /\ \A c \in Core : on[c] = t <=> w[t] = <<"on", c>>
    /\ \A c \in Core : act[c].who = t <=> w[t] = <<"left", c>>
    /\ \A u \in TCB : Target(u) = t <=> w[t] = <<"next", u>>
    /\ \A u \in Thread : victim[u] = t <=> w[t] = <<"held", u>>
    /\ In(t, readyQ) <=> w[t] = <<"ready", Nil>>
    /\ In(t, waiting) <=> w[t] = <<"waiting", Nil>>
    /\ In(t, sleepers) <=> w[t] = <<"asleep", Nil>>
    /\ In(t, zombies) <=> w[t] = <<"zombie", Nil>>
    /\ pc[t] = "unborn" <=> w[t] = <<"nowhere", Nil>>

Where(w) == \A t \in Thread : Lies(w, t)

Located == \E w \in [Thread -> Place] : Where(w)

Once(q) == \A i, j \in 1..Len(q) : q[i] = q[j] => i = j
Distinct == Once(readyQ) /\ Once(waiting) /\ Once(sleepers) /\ Once(zombies)

-----------------------------------------------------------------------------
(* The clients.                                                             *)

\* t is on its way to have the handler of this kind done for it.
Asking(t, kind) == \/ \E i \in 1..Len(calls[t]) : calls[t][i].why = kind
                   \/ \E c \in Core : act[c].who = t /\ act[c].kind = kind

\* The threads with a permit: Holds, said of what their programs do.
Holder == {t \in Thread : Prog(t) = "crit" /\ ~In(t, waiting) /\ ~Asking(t, "down")}
Permitted == IsFiniteSet(Holder) /\ count + Cardinality(Holder) = Permits

NothingMissed ==
    NoMissedNotify /\ (Asking(Reaper, "wait") /\ ~signalled => zombies = <<>>)

ThreadsInv == /\ Types /\ Shapes /\ Roles /\ AskedFor /\ Queues
              /\ Cores /\ OnlyOnCores /\ Located /\ Distinct
              /\ NoIdlePermit /\ Permitted /\ NothingMissed

-----------------------------------------------------------------------------
(* Sequences: of frames, and queues.                                        *)

\* A call of block puts a frame on top.
LEMMA Pushed ==
    ASSUME NEW s \in Seq(FrameType), NEW f \in FrameType
    PROVE  /\ <<f>> \o s \in Seq(FrameType)
           /\ Len(<<f>> \o s) = Len(s) + 1
           /\ (<<f>> \o s)[1] = f
           /\ \A i \in 1..Len(s) : (<<f>> \o s)[i + 1] = s[i]
  OBVIOUS

\* A return from block takes it off.
LEMMA Popped ==
    ASSUME NEW s \in Seq(FrameType), Len(s) # 0
    PROVE  /\ Tail(s) \in Seq(FrameType)
           /\ Len(Tail(s)) = Len(s) - 1
           /\ \A i \in 1..Len(s) - 1 : Tail(s)[i] = s[i + 1]
           /\ Head(s) = s[1] /\ s[1] \in FrameType
  OBVIOUS

\* Inside block it changes.
LEMMA Amended ==
    ASSUME NEW s \in Seq(FrameType), Len(s) # 0, NEW f \in FrameType
    PROVE  /\ [s EXCEPT ![1] = f] \in Seq(FrameType)
           /\ Len([s EXCEPT ![1] = f]) = Len(s)
           /\ [s EXCEPT ![1] = f][1] = f
           /\ \A i \in 2..Len(s) : [s EXCEPT ![1] = f][i] = s[i]
  OBVIOUS

\* A thread added to a queue it is not in is in it once.
LEMMA Added ==
    ASSUME NEW q \in Seq(Thread), NEW t \in Thread
    PROVE  /\ Append(q, t) \in Seq(Thread)
           /\ \A u : In(u, Append(q, t)) <=> In(u, q) \/ u = t
           /\ Once(q) /\ ~In(t, q) => Once(Append(q, t))
  BY DEF In, Once

\* Who is removed from a queue is not in it any more, and everybody else is.
LEMMA Removed ==
    ASSUME NEW q \in Seq(Thread), q # <<>>, Once(q)
    PROVE  /\ Tail(q) \in Seq(Thread) /\ Head(q) \in Thread
           /\ In(Head(q), q)
           /\ \A u : In(u, Tail(q)) <=> In(u, q) /\ u # Head(q)
           /\ Once(Tail(q))
  BY DEF In, Once

-----------------------------------------------------------------------------
(* What is where.                                                           *)

\* A core runs its own idle thread or a thread no other core runs.
LEMMA OneCore ==
    ASSUME Cores, Located, NEW c \in Core, NEW d \in Core, on[c] = on[d]
    PROVE  c = d
  BY ThreadsAssumption DEF Cores, CoreOK, Mine, Located, Where, Lies, TCB

\* Who runs is nowhere else.
LEMMA Running1 ==
    ASSUME Located, NEW c \in Core, NEW t \in Thread, on[c] = t
    PROVE  /\ ~In(t, readyQ) /\ ~In(t, waiting) /\ ~In(t, sleepers) /\ ~In(t, zombies)
           /\ \A u \in Thread : victim[u] # t
           /\ \A d \in Core : act[d].who # t
           /\ \A u \in TCB : Target(u) # t
           /\ pc[t] # "unborn"
  BY DEF Located, Where, Lies

-----------------------------------------------------------------------------
(* What a step does not disturb.                                            *)

\* Steps outside block() change nothing a core knows.
LEMMA CoresKept ==
    ASSUME Types, Cores, OnlyOnCores,
           UNCHANGED <<on, activeThreads, cr3, no_preempt>>,
           \A d \in Core : /\ act'[d].who \in {act[d].who, Nil}
                           /\ act[d] = NoAct => act'[d] = NoAct,
           \A u \in TCB : pc'[u] \in Stage \/ pc[u] \in Stage =>
                            pc'[u] = pc[u] /\ calls'[u][1] = calls[u][1]
    PROVE  Cores' /\ OnlyOnCores'
  <1>1. OnlyOnCores' BY DEF OnlyOnCores
  <1>2. ASSUME NEW d \in Core
        PROVE  /\ on'[d] = on[d] /\ on[d] \in TCB
               /\ pc'[on[d]] \in Stage \/ pc[on[d]] \in Stage =>
                    pc'[on[d]] = pc[on[d]] /\ calls'[on[d]][1] = calls[on[d]][1]
    BY DEF Types
  <1>3. ASSUME NEW d \in Core PROVE CoreOK(d)'
    <2>1. CoreOK(d) BY DEF Cores
    <2>2. CASE pc[on[d]] \in Stage
      BY <1>2, <2>1, <2>2 DEF CoreOK, Chosen, Mine
    <2>3. CASE pc[on[d]] \notin Stage
      BY <1>2, <2>1, <2>3 DEF CoreOK, Stage, Chosen, Mine
    <2>. QED BY <2>2, <2>3
  <1>. QED BY <1>1, <1>3 DEF Cores

\* A step that moves no thread leaves every thread where it is.
LEMMA PlacesKept ==
    ASSUME Located, Distinct,
           UNCHANGED <<on, readyQ, waiting, sleepers, zombies, victim>>,
           \A d \in Core : act'[d].who = act[d].who,
           \A u \in TCB : Target(u)' = Target(u),
           \A t \in Thread : pc'[t] = "unborn" <=> pc[t] = "unborn"
    PROVE  Located' /\ Distinct'
  <1>1. PICK w \in [Thread -> Place] : Where(w) BY DEF Located
  <1>2. Where(w)' BY <1>1 DEF Where, Lies
  <1>. QED BY <1>2 DEF Located, Distinct

\* A step outside the semaphore leaves the permits where they are.
LEMMA PermitsKept ==
    ASSUME NoIdlePermit, Permitted,
           UNCHANGED <<count, waiting>>,
           \A t \in Thread : Prog(t)' = "crit" <=> Prog(t) = "crit",
           \A t \in Thread : Prog(t) = "crit" => (Asking(t, "down")' <=> Asking(t, "down"))
    PROVE  NoIdlePermit' /\ Permitted'
  <1>1. Holder' = Holder BY DEF Holder
  <1>. QED BY <1>1 DEF NoIdlePermit, Permitted

\* A step that neither stops a thread nor has to do with the reaper.
LEMMA SleepKept ==
    ASSUME NothingMissed, UNCHANGED <<zombies, sleepers, signalled>>,
           Asking(Reaper, "wait")' => Asking(Reaper, "wait")
    PROVE  NothingMissed'
  BY DEF NothingMissed, NoMissedNotify

\* A step in which only the thread on one core goes on.
LEMMA OnlyOneGoesOn ==
    ASSUME Types, Shapes, Roles, AskedFor, Queues, Located, Cores,
           NEW c \in Core, NEW t \in TCB, on[c] = t, act[c] = NoAct,
           \A u \in TCB \ {t} : pc'[u] = pc[u] /\ calls'[u] = calls[u],
           \A u \in Thread \ {t} : victim'[u] = victim[u],
           \A d \in Core : act'[d] = act[d],
           \A u \in Thread : /\ In(u, waiting)' => In(u, waiting)
                             /\ In(u, sleepers)' => In(u, sleepers)
                             /\ In(u, zombies)' => In(u, zombies),
           Shape(t)', Role(t)'
    PROVE  Shapes' /\ Roles' /\ AskedFor' /\ Queues'
  <1>1. \A u \in TCB \ {t} : Prog(u)' = Prog(u) BY DEF Prog
  <1>2. \A u \in Thread \ {t} : victim'[u] # Nil => victim'[u] \in Thread \ {t}
    BY Running1 DEF Types
  <1>3. Shapes' BY DEF Shapes, Shape, Fresh, Asks
  <1>4. Roles'
    <2>. SUFFICES ASSUME NEW u \in TCB, u # t PROVE Role(u)' BY DEF Roles
    <2>1. Role(u) BY DEF Roles
    <2>. QED BY <1>1, <1>2, <2>1 DEF Role, TCB
  <1>5. AskedFor'
    <2>. SUFFICES ASSUME NEW d \in Core, act[d].who # Nil
                  PROVE  pc'[act[d].who] = pc[act[d].who]
      BY DEF AskedFor, NoAct
    <2>1. act[d].who \in TCB /\ act[d].who # t
      BY ThreadsAssumption, Running1 DEF Cores, CoreOK, Mine, TCB, NoAct
    <2>. QED BY <2>1
  <1>6. Queues'
    <2>. SUFFICES ASSUME NEW u \in Thread
                  PROVE  /\ In(u, waiting)' => pc'[u] = "crit"
                         /\ In(u, sleepers)' => u = Reaper
                         /\ In(u, zombies)' => pc'[u] = "stop"
      BY DEF Queues
    <2>1. In(u, waiting) \/ In(u, zombies) => u # t BY Running1
    <2>2. u # t => pc'[u] = pc[u] BY DEF TCB
    <2>. QED BY <2>1, <2>2 DEF Queues
  <1>. QED BY <1>3, <1>4, <1>5, <1>6

-----------------------------------------------------------------------------
(* block(), up to the stack switch.                                         *)

\* What becomes of the frames when t calls block, returns from it, or is in it.
LEMMA Amends ==
    ASSUME Types, NEW t \in TCB, Len(calls[t]) # 0, NEW f \in FrameType,
           calls' = [calls EXCEPT ![t][1] = f]
    PROVE  /\ calls' \in [TCB -> Seq(FrameType)]
           /\ Len(calls'[t]) = Len(calls[t]) /\ calls'[t][1] = f
           /\ \A i \in 2..Len(calls[t]) : calls'[t][i] = calls[t][i]
           /\ \A u \in TCB \ {t} : calls'[u] = calls[u]
  <1>1. calls[t] \in Seq(FrameType) BY DEF Types
  <1>2. calls'[t] = [calls[t] EXCEPT ![1] = f] BY DEF Types
  <1>. QED BY <1>1, <1>2, Amended DEF Types

\* In the same way.
LEMMA Pushes ==
    ASSUME Types, NEW t \in TCB, NEW f \in FrameType,
           calls' = [calls EXCEPT ![t] = <<f>> \o @]
    PROVE  /\ calls' \in [TCB -> Seq(FrameType)]
           /\ Len(calls'[t]) = Len(calls[t]) + 1 /\ calls'[t][1] = f
           /\ \A i \in 1..Len(calls[t]) : calls'[t][i + 1] = calls[t][i]
           /\ \A u \in TCB \ {t} : calls'[u] = calls[u]
  <1>1. calls[t] \in Seq(FrameType) BY DEF Types
  <1>2. calls'[t] = <<f>> \o calls[t] BY DEF Types
  <1>. QED BY <1>1, <1>2, Pushed DEF Types

\* In the same way.
LEMMA Pops ==
    ASSUME Types, NEW t \in TCB, Len(calls[t]) # 0,
           calls' = [calls EXCEPT ![t] = Tail(@)]
    PROVE  /\ calls' \in [TCB -> Seq(FrameType)]
           /\ Len(calls'[t]) = Len(calls[t]) - 1
           /\ \A i \in 1..Len(calls[t]) - 1 : calls'[t][i] = calls[t][i + 1]
           /\ \A u \in TCB \ {t} : calls'[u] = calls[u]
           /\ Head(calls[t]) = calls[t][1] /\ calls[t][1] \in FrameType
  <1>1. calls[t] \in Seq(FrameType) BY DEF Types
  <1>2. calls'[t] = Tail(calls[t]) BY DEF Types
  <1>. QED BY <1>1, <1>2, Popped DEF Types

\* A thread in block that goes on to the next stage there keeps what its program asked for.
LEMMA InsideBlock ==
    ASSUME ThreadsInv, NEW c \in Core, NEW t \in TCB, on[c] = t, act[c] = NoAct,
           NEW l \in Stage, pc' = [pc EXCEPT ![t] = l],
           pc[t] \in Stage \cup {"block"}, l = "pick" => calls'[t][1].next = Nil,
           calls' \in [TCB -> Seq(FrameType)],
           \A u \in TCB \ {t} : calls'[u] = calls[u],
           Len(calls'[t]) = Len(calls[t]),
           calls'[t][1].why = calls[t][1].why, calls'[t][1].back = calls[t][1].back,
           \A i \in 2..Len(calls[t]) : calls'[t][i] = calls[t][i],
           UNCHANGED <<on, act, victim, sem, reaping>>
    PROVE  /\ Shapes' /\ Roles' /\ AskedFor' /\ Queues' /\ OnlyOnCores'
           /\ NoIdlePermit' /\ Permitted' /\ NothingMissed'
           /\ \A u \in Thread : pc'[u] = "unborn" <=> pc[u] = "unborn"
           /\ Len(calls[t]) \in {1, 2} /\ calls[t][1] \in FrameType
  <1>. USE DEF ThreadsInv
  <1>1. /\ pc'[t] = l /\ \A u \in TCB \ {t} : pc'[u] = pc[u]
    BY DEF Types
  <1>2. Shape(t) /\ Role(t) BY DEF Shapes, Roles
  <1>3. Len(calls[t]) \in {1, 2} BY <1>2 DEF Shape
  <1>4. Shape(t)'
    <2>1. CASE Len(calls[t]) = 1
      BY <1>1, <1>2, <2>1 DEF Shape, Fresh, Asks, Stage, ProgLoc
    <2>2. CASE Len(calls[t]) = 2
      <3>1. calls'[t][2] = calls[t][2] BY <2>2
      <3>. QED BY <1>1, <1>2, <2>2, <3>1 DEF Shape, Fresh, Asks, Stage, ProgLoc
    <2>. QED BY <1>3, <2>1, <2>2
  <1>5. \A i \in 1..Len(calls[t]) : /\ calls'[t][i].why = calls[t][i].why
                                    /\ calls'[t][i].back = calls[t][i].back
    BY <1>3
  <1>6. \A u \in TCB : Prog(u)' = Prog(u)
    <2>1. Prog(t)' = Prog(t)
      <3>1. CASE Len(calls[t]) = 1 BY <3>1, <1>5 DEF Prog
      <3>2. CASE Len(calls[t]) = 2 BY <3>2, <1>5 DEF Prog
      <3>. QED BY <1>3, <3>1, <3>2
    <2>2. \A u \in TCB \ {t} : Prog(u)' = Prog(u) BY <1>1 DEF Prog
    <2>. QED BY <2>1, <2>2
  <1>7. \A u \in TCB, k \in Why : Asking(u, k)' <=> Asking(u, k)
    <2>. SUFFICES ASSUME NEW u \in TCB, NEW k \in Why PROVE Asking(u, k)' <=> Asking(u, k)
      OBVIOUS
    <2>1. (\E i \in 1..Len(calls'[t]) : calls'[t][i].why = k)
            <=> (\E i \in 1..Len(calls[t]) : calls[t][i].why = k)
      BY <1>5
    <2>3. Asking(t, k)' <=> Asking(t, k) BY <2>1 DEF Asking
    <2>2. CASE u # t
      <3>1. calls'[u] = calls[u] /\ act' = act BY <2>2
      <3>. QED BY <3>1 DEF Asking
    <2>. QED BY <2>2, <2>3
  <1>8. Role(t)'
    <2>1. t \in Thread /\ victim[t] # Nil => victim[t] \in Thread /\ pc'[victim[t]] = pc[victim[t]]
      BY <1>1, Running1 DEF Types, TCB
    <2>. QED BY <1>2, <1>5, <1>6, <2>1 DEF Role
  <1>9. Shapes' /\ Roles' /\ AskedFor' /\ Queues'
    BY <1>1, <1>4, <1>8, OnlyOneGoesOn DEF sem, reaping
  <1>10. OnlyOnCores' BY <1>1 DEF OnlyOnCores
  <1>11. NoIdlePermit' /\ Permitted'
    BY <1>6, <1>7, PermitsKept DEF sem, TCB, Why
  <1>12. NothingMissed'
    BY <1>7, SleepKept, ThreadsAssumption DEF reaping, TCB, Why
  <1>13. calls[t][1] \in FrameType BY <1>3 DEF Types
  <1>. QED BY <1>1, <1>3, <1>9, <1>10, <1>11, <1>12, <1>13 DEF Stage, TCB

\* What runs on two cores, or is about to, are different threads.
LEMMA Apart ==
    ASSUME ThreadsInv, NEW c \in Core, NEW d \in Core, c # d
    PROVE  /\ on[d] \in TCB /\ on[d] # on[c] /\ on[d] # Target(on[c])
           /\ Target(on[d]) # on[c]
           /\ Target(on[d]) # Nil => /\ Target(on[d]) \in TCB
                                     /\ Target(on[d]) # Target(on[c])
  <1>. USE DEF ThreadsInv
  <1>1. on[c] \in TCB /\ on[d] \in TCB BY DEF Types
  <1>2. PICK w : Where(w) BY DEF Located
  <1>3. on[d] # on[c] BY OneCore
  <1>4. on[c] \in Mine(c) /\ on[d] \in Mine(d) BY DEF Cores, CoreOK
  <1>5. /\ Target(on[c]) # Nil => Target(on[c]) \in Mine(c)
        /\ Target(on[d]) # Nil => Target(on[d]) \in Mine(d)
    BY DEF Cores, CoreOK, Target
  <1>6. ASSUME NEW a \in Core, NEW b \in Core, a # b, on[a] \in TCB, on[b] \in Mine(b),
               Target(on[a]) # Nil => Target(on[a]) \in Mine(a)
        PROVE  on[b] # Target(on[a])
    <2>1. CASE on[b] \in Thread BY <1>2, <1>6, <2>1 DEF Where, Lies
    <2>2. CASE on[b] = b BY <1>6, <2>2, ThreadsAssumption DEF Mine, TCB
    <2>. QED BY <1>6, <2>1, <2>2 DEF Mine
  <1>7. Target(on[d]) # Nil => Target(on[d]) # Target(on[c])
    <2>1. CASE Target(on[d]) \in Thread BY <1>1, <1>2, <1>3, <2>1 DEF Where, Lies
    <2>2. CASE Target(on[d]) = d BY <1>5, <2>2, ThreadsAssumption DEF Mine, TCB
    <2>. QED BY <1>5, <2>1, <2>2 DEF Mine
  <1>. QED BY <1>1, <1>3, <1>4, <1>5, <1>6, <1>7 DEF Mine, TCB

\* A thread in block() does not disturb another core.
LEMMA OtherCores ==
    ASSUME ThreadsInv, NEW c \in Core, NEW d \in Core, c # d,
           NEW t \in TCB, on[c] = t, NEW n, n = Target(t),
           on'[d] = on[d], act'[d] = act[d], activeThreads'[d] = activeThreads[d],
           cr3'[d] = cr3[d],
           \A u \in TCB \ {t} : pc'[u] = pc[u] /\ calls'[u] = calls[u],
           \A u \in TCB \ {t, n} : no_preempt'[u] = no_preempt[u]
    PROVE  CoreOK(d)'
  <1>1. CoreOK(d) BY DEF ThreadsInv, Cores
  <1>2. /\ on[d] \in TCB \ {t, n}
        /\ Target(on[d]) # Nil => Target(on[d]) \in TCB \ {t, n}
    BY Apart
  <1>3. pc[on[d]] \in Chosen => Target(on[d]) = calls[on[d]][1].next /\ Target(on[d]) # Nil
    BY <1>1, ThreadsAssumption DEF Target, CoreOK, Mine, TCB
  <1>4. CASE pc[on[d]] \in Chosen
    BY <1>1, <1>2, <1>3, <1>4 DEF CoreOK, Chosen, Mine
  <1>5. CASE pc[on[d]] \notin Chosen
    BY <1>1, <1>2, <1>5 DEF CoreOK, Chosen, Mine
  <1>. QED BY <1>4, <1>5

\* block() marks the thread that the kernel believes to run here, which is the one that does.
LEMMA ProtectOK == ASSUME ThreadsInv, NEW c \in Core, Protect(c) PROVE ThreadsInv'
  <1>. USE DEF ThreadsInv
  <1>1. PICK t \in TCB : on[c] = t BY DEF Types
  <1>2. /\ act[c] = NoAct /\ pc[t] = "block"
        /\ pc' = [pc EXCEPT ![t] = "pick"]
        /\ no_preempt' = [no_preempt EXCEPT ![activeThreads[c]] = TRUE]
        /\ UNCHANGED <<on, activeThreads, cr3, act, victim, readyQ, sem, reaping>>
    BY <1>1 DEF Protect, At, Goto
  <1>3. calls' = [calls EXCEPT ![t][1].core = c] BY <1>1 DEF Protect
  <1>4. Shape(t) /\ CoreOK(c) BY DEF Shapes, Cores
  <1>5. activeThreads[c] = t /\ t \in Mine(c) BY <1>1, <1>2, <1>4 DEF CoreOK
  <1>6. Len(calls[t]) = 1 /\ Fresh(t, calls[t][1]) /\ calls[t][1] \in FrameType
    <2>1. Len(calls[t]) = 1 /\ Fresh(t, calls[t][1]) BY <1>2, <1>4 DEF Shape
    <2>2. calls[t] \in Seq(FrameType) BY DEF Types
    <2>. QED BY <2>1, <2>2
  <1>7. PICK f \in FrameType : f = [calls[t][1] EXCEPT !.core = c] BY <1>6 DEF FrameType
  <1>8. /\ f.why = calls[t][1].why /\ f.back = calls[t][1].back
        /\ f.next = Nil /\ f.core = c
    BY <1>6, <1>7 DEF FrameType, Fresh
  <1>9. calls' = [calls EXCEPT ![t][1] = f] BY <1>3, <1>7
  <1>10. /\ calls' \in [TCB -> Seq(FrameType)]
         /\ Len(calls'[t]) = Len(calls[t]) /\ calls'[t][1] = f
         /\ \A i \in 2..Len(calls[t]) : calls'[t][i] = calls[t][i]
         /\ \A u \in TCB \ {t} : calls'[u] = calls[u]
    <2>1. Types /\ Len(calls[t]) # 0 BY <1>6
    <2>. QED BY ONLY <1>9, <2>1, Amends, Zenon
  <1>16. /\ \A u \in TCB \ {t} : pc'[u] = pc[u]
         /\ pc'[t] = "pick"
    BY <1>2 DEF Types
  <1>11. /\ Shapes' /\ Roles' /\ AskedFor' /\ Queues' /\ OnlyOnCores'
         /\ NoIdlePermit' /\ Permitted' /\ NothingMissed'
         /\ \A u \in Thread : pc'[u] = "unborn" <=> pc[u] = "unborn"
    <2>1. "pick" \in Stage /\ pc[t] \in Stage \cup {"block"} /\ calls'[t][1].next = Nil
      BY <1>2, <1>8, <1>10 DEF Stage
    <2>2. calls'[t][1].why = calls[t][1].why /\ calls'[t][1].back = calls[t][1].back
      BY <1>8, <1>10
    <2>. QED BY <1>1, <1>2, <1>10, <2>1, <2>2, InsideBlock
  <1>12. Types' BY <1>2, <1>10 DEF Types, Stage, sem, reaping
  <1>13. Cores'
    <2>1. CoreOK(c)'
      BY <1>1, <1>2, <1>4, <1>5, <1>8, <1>10, <1>16 DEF CoreOK, Types, Chosen, Stage, Mine, TCB
    <2>2. ASSUME NEW d \in Core, d # c PROVE CoreOK(d)'
      BY <1>1, <1>2, <1>5, <1>10, <1>16, <2>2, OtherCores DEF Types
    <2>. QED BY <2>1, <2>2 DEF Cores
  <1>14. \A u \in TCB : Target(u)' = Target(u)
    BY <1>2, <1>10, <1>16 DEF Target, Chosen
  <1>15. Located' /\ Distinct'
    BY <1>2, <1>11, <1>14, PlacesKept DEF sem, reaping
  <1>. QED BY <1>11, <1>12, <1>13, <1>15

\* Between the choice of the next thread and the switch to it, only the core's own entries
\* change.
LEMMA ChosenStep ==
    ASSUME ThreadsInv, NEW c \in Core, NEW t \in TCB, on[c] = t, act[c] = NoAct,
           pc[t] \in Chosen, NEW l \in Chosen, pc' = [pc EXCEPT ![t] = l],
           UNCHANGED <<on, act, calls, victim, readyQ, sem, reaping>>,
           activeThreads' \in [Core -> TCB], cr3' \in [Core -> User \cup {Kpd}],
           no_preempt' \in [TCB -> BOOLEAN],
           \A d \in Core \ {c} : activeThreads'[d] = activeThreads[d] /\ cr3'[d] = cr3[d],
           \A u \in TCB \ {t, calls[t][1].next} : no_preempt'[u] = no_preempt[u],
           CoreOK(c)'
    PROVE  ThreadsInv'
  <1>. USE DEF ThreadsInv
  <1>1. pc'[t] = l /\ \A u \in TCB \ {t} : pc'[u] = pc[u] BY DEF Types
  <1>2. /\ l \in Stage /\ l # "pick" /\ pc[t] \in Stage \cup {"block"}
        /\ calls' \in [TCB -> Seq(FrameType)]
    BY DEF Stage, Chosen, Types
  <1>3. /\ Shapes' /\ Roles' /\ AskedFor' /\ Queues' /\ OnlyOnCores'
        /\ NoIdlePermit' /\ Permitted' /\ NothingMissed'
        /\ \A u \in Thread : pc'[u] = "unborn" <=> pc[u] = "unborn"
    BY <1>1, <1>2, InsideBlock
  <1>4. Types' BY <1>2 DEF Types, sem, reaping
  <1>5. Target(t) = calls[t][1].next BY DEF Target
  <1>6. ASSUME NEW d \in Core, d # c PROVE CoreOK(d)'
    BY <1>1, <1>5, <1>6, OtherCores
  <1>7. \A u \in TCB : Target(u)' = Target(u) BY <1>1 DEF Target
  <1>8. Located' /\ Distinct' BY <1>3, <1>7, PlacesKept DEF sem, reaping
  <1>. QED BY <1>3, <1>4, <1>6, <1>8 DEF Cores

\* The chosen thread is protected before activeThreads names it.
LEMMA GuardNextOK == ASSUME ThreadsInv, NEW c \in Core, GuardNext(c) PROVE ThreadsInv'
  <1>. USE DEF ThreadsInv
  <1>1. PICK t \in TCB : on[c] = t BY DEF Types
  <1>2. /\ act[c] = NoAct /\ pc[t] = "guard"
        /\ pc' = [pc EXCEPT ![t] = "claim"]
        /\ no_preempt' = [no_preempt EXCEPT ![Blk(t).next] = TRUE]
        /\ UNCHANGED <<on, activeThreads, cr3, act, calls, victim, readyQ, sem, reaping>>
    BY <1>1 DEF GuardNext, At, Goto, Guarded
  <1>3. Shape(t) /\ CoreOK(c) BY DEF Shapes, Cores
  <1>4. Blk(t) = calls[t][1]
    <2>1. calls[t] \in Seq(FrameType) /\ Len(calls[t]) # 0
      BY <1>2, <1>3 DEF Shape, Stage, Types
    <2>. QED BY <2>1 DEF Blk
  <1>5. CoreOK(c)'
    BY <1>1, <1>2, <1>3, <1>4 DEF CoreOK, Types, Chosen, Stage, Mine, TCB
  <1>. QED BY <1>1, <1>2, <1>4, <1>5, ChosenStep DEF Chosen, Types

\* activeThreads names the chosen thread only when the timer leaves it alone.
LEMMA ClaimOK == ASSUME ThreadsInv, NEW c \in Core, Claim(c) PROVE ThreadsInv'
  <1>. USE DEF ThreadsInv
  <1>1. PICK t \in TCB : on[c] = t BY DEF Types
  <1>2. /\ act[c] = NoAct /\ pc[t] = "claim"
        /\ pc' = [pc EXCEPT ![t] = "load"]
        /\ activeThreads' = [activeThreads EXCEPT ![Blk(t).core] = Blk(t).next]
        /\ UNCHANGED <<on, cr3, no_preempt, act, calls, victim, readyQ, sem, reaping>>
    BY <1>1 DEF Claim, At, Goto
  <1>3. Shape(t) /\ CoreOK(c) BY DEF Shapes, Cores
  <1>4. Blk(t) = calls[t][1]
    <2>1. calls[t] \in Seq(FrameType) /\ Len(calls[t]) # 0
      BY <1>2, <1>3 DEF Shape, Stage, Types
    <2>. QED BY <2>1 DEF Blk
  <1>6. Blk(t).core = c /\ Blk(t).next \in Mine(c)
    BY <1>1, <1>2, <1>3, <1>4 DEF CoreOK, Chosen, Stage
  <1>5. CoreOK(c)'
    BY <1>1, <1>2, <1>3, <1>4, <1>6 DEF CoreOK, Types, Chosen, Stage, Mine, TCB
  <1>7. activeThreads' \in [Core -> TCB] BY <1>2, <1>6 DEF Types, Mine, TCB
  <1>. QED BY <1>1, <1>2, <1>4, <1>5, <1>6, <1>7, ChosenStep DEF Chosen, Types

\* The page directory loaded is that of a thread which exists: it is held as the next one.
LEMMA LoadCr3OK == ASSUME ThreadsInv, NEW c \in Core, LoadCr3(c) PROVE ThreadsInv'
  <1>. USE DEF ThreadsInv
  <1>1. PICK t \in TCB : on[c] = t BY DEF Types
  <1>2. /\ act[c] = NoAct /\ pc[t] = "load"
        /\ pc' = [pc EXCEPT ![t] = "switch"]
        /\ cr3' = [cr3 EXCEPT ![c] = Pd(Blk(t).next)]
        /\ UNCHANGED <<on, activeThreads, no_preempt, act, calls, victim, readyQ, sem, reaping>>
    BY <1>1 DEF LoadCr3, At, Goto, Loaded
  <1>3. Shape(t) /\ CoreOK(c) BY DEF Shapes, Cores
  <1>4. Blk(t) = calls[t][1]
    <2>1. calls[t] \in Seq(FrameType) /\ Len(calls[t]) # 0
      BY <1>2, <1>3 DEF Shape, Stage, Types
    <2>. QED BY <2>1 DEF Blk
  <1>6. Blk(t).next \in Mine(c)
    BY <1>1, <1>2, <1>3, <1>4 DEF CoreOK, Chosen, Stage
  <1>5. CoreOK(c)'
    BY <1>1, <1>2, <1>3, <1>4, <1>6 DEF CoreOK, Types, Chosen, Stage, Mine, TCB
  <1>7. cr3' \in [Core -> User \cup {Kpd}] BY <1>2, <1>6 DEF Types, Mine, TCB, Pd
  <1>. QED BY <1>1, <1>2, <1>4, <1>5, <1>6, <1>7, ChosenStep DEF Chosen, Types

\* A thread whose call of block returns is where it was when it made the call.
LEMMA Returned ==
    ASSUME ThreadsInv, NEW t \in TCB, pc[t] \in Stage, Return(t)
    PROVE  /\ Len(calls[t]) \in {1, 2} /\ calls[t][1] \in FrameType /\ Blk(t) = calls[t][1]
           /\ pc' \in [TCB -> ProgLoc \cup Stage \cup {"block", "unborn"}]
           /\ pc'[t] = calls[t][1].back /\ pc'[t] \in ProgLoc \cup {"block"}
           /\ calls' \in [TCB -> Seq(FrameType)]
           /\ Len(calls'[t]) = Len(calls[t]) - 1
           /\ \A u \in TCB \ {t} : pc'[u] = pc[u] /\ calls'[u] = calls[u]
           /\ Shape(t)' /\ Prog(t)' = Prog(t)
           /\ \A k \in Why : (\E i \in 1..Len(calls[t]) : calls[t][i].why = k) <=>
                \/ calls[t][1].why = k
                \/ \E i \in 1..Len(calls'[t]) : calls'[t][i].why = k
           /\ Len(calls'[t]) = 1 => calls[t][1].why = "tick"
           /\ calls[t][1].why # "tick" => Asks(t, calls[t][1])
  <1>. USE DEF ThreadsInv
  <1>1. Shape(t) BY DEF Shapes
  <1>2. Len(calls[t]) \in {1, 2} BY <1>1 DEF Shape
  <1>3. calls' = [calls EXCEPT ![t] = Tail(@)] BY DEF Return
  <1>4. Types OBVIOUS
  <1>11. Len(calls[t]) # 0 BY <1>1 DEF Shape
  <1>5. /\ calls' \in [TCB -> Seq(FrameType)]
        /\ Len(calls'[t]) = Len(calls[t]) - 1
        /\ \A i \in 1..Len(calls[t]) - 1 : calls'[t][i] = calls[t][i + 1]
        /\ \A u \in TCB \ {t} : calls'[u] = calls[u]
        /\ Head(calls[t]) = calls[t][1] /\ calls[t][1] \in FrameType
    BY ONLY <1>3, <1>4, <1>11, Pops, Zenon
  <1>6. pc' = [pc EXCEPT ![t] = calls[t][1].back] BY <1>5 DEF Return, Goto
  <1>7. /\ calls[t][1].back \in ProgLoc \cup {"block"}
        /\ calls[t][1].why # "tick" => Asks(t, calls[t][1])
        /\ Len(calls[t]) = 2 => calls[t][1].why = "tick"
    BY <1>1, <1>2 DEF Shape, Asks
  <1>8. /\ pc'[t] = calls[t][1].back /\ \A u \in TCB \ {t} : pc'[u] = pc[u]
        /\ pc' \in [TCB -> ProgLoc \cup Stage \cup {"block", "unborn"}]
    BY <1>6, <1>7 DEF Types
  <1>9. CASE Len(calls[t]) = 1
    <2>1. Len(calls'[t]) = 0 BY <1>5, <1>9
    <2>2. calls[t][1].back \in ProgLoc BY <1>1, <1>9 DEF Shape, Asks
    <2>3. Shape(t)' BY <1>8, <2>1, <2>2 DEF Shape, Stage, ProgLoc
    <2>4. Prog(t)' = Prog(t) BY <1>8, <1>9, <2>1 DEF Prog
    <2>5. \A k \in Why : (\E i \in 1..Len(calls[t]) : calls[t][i].why = k) <=>
                \/ calls[t][1].why = k
                \/ \E i \in 1..Len(calls'[t]) : calls'[t][i].why = k
      BY <1>9, <2>1
    <2>. QED BY <1>2, <1>5, <1>7, <1>8, <2>1, <2>3, <2>4, <2>5 DEF Blk
  <1>10. CASE Len(calls[t]) = 2
    <2>1. Len(calls'[t]) = 1 /\ calls'[t][1] = calls[t][2] BY <1>5, <1>10
    <2>2. calls[t][1].back = "block" /\ Fresh(t, calls[t][2]) BY <1>1, <1>10 DEF Shape
    <2>3. Shape(t)' BY <1>8, <2>1, <2>2 DEF Shape, Stage, ProgLoc, Fresh, Asks
    <2>4. Prog(t)' = Prog(t) BY <1>8, <1>10, <2>1 DEF Prog
    <2>5. \A k \in Why : (\E i \in 1..Len(calls[t]) : calls[t][i].why = k) <=>
                \/ calls[t][1].why = k
                \/ \E i \in 1..Len(calls'[t]) : calls'[t][i].why = k
      BY <1>10, <2>1
    <2>. QED BY <1>2, <1>5, <1>7, <1>8, <1>10, <2>1, <2>3, <2>4, <2>5 DEF Blk
  <1>. QED BY <1>2, <1>9, <1>10

\* The thread at the head of readyQ, or the core's idle thread, is chosen.
LEMMA ChoiceOK ==
    ASSUME ThreadsInv, NEW c \in Core, NEW t \in TCB, on[c] = t, act[c] = NoAct,
           pc[t] = "pick", NEW n \in Mine(c) \ {t},
           \/ readyQ # <<>> /\ n = Head(readyQ) /\ readyQ' = Tail(readyQ)
           \/ n = c /\ UNCHANGED readyQ,
           calls' = [calls EXCEPT ![t][1].next = n],
           pc' = [pc EXCEPT ![t] = "guard"],
           UNCHANGED <<on, activeThreads, cr3, no_preempt, act, victim, sem, reaping>>
    PROVE  ThreadsInv'
  <1>. USE DEF ThreadsInv
  <1>1. pc'[t] = "guard" /\ \A u \in TCB \ {t} : pc'[u] = pc[u] BY DEF Types
  <1>2. Shape(t) /\ CoreOK(c) BY DEF Shapes, Cores
  <1>3. Len(calls[t]) # 0 /\ calls[t][1].next = Nil BY <1>2 DEF Shape, Stage
  <1>4. calls[t][1] \in FrameType
    <2>1. calls[t] \in Seq(FrameType) BY DEF Types
    <2>. QED BY <1>3, <2>1
  <1>5. n \in TCB BY DEF Mine, TCB
  <1>6. PICK f \in FrameType : f = [calls[t][1] EXCEPT !.next = n] BY <1>4, <1>5 DEF FrameType
  <1>7. /\ f.why = calls[t][1].why /\ f.back = calls[t][1].back
        /\ f.next = n /\ f.core = calls[t][1].core
    BY <1>4, <1>6 DEF FrameType
  <1>8. calls' = [calls EXCEPT ![t][1] = f] BY <1>6
  <1>9. Types OBVIOUS
  <1>10. /\ calls' \in [TCB -> Seq(FrameType)]
         /\ Len(calls'[t]) = Len(calls[t]) /\ calls'[t][1] = f
         /\ \A i \in 2..Len(calls[t]) : calls'[t][i] = calls[t][i]
         /\ \A u \in TCB \ {t} : calls'[u] = calls[u]
    BY ONLY <1>3, <1>8, <1>9, Amends, Zenon
  <1>11. /\ Shapes' /\ Roles' /\ AskedFor' /\ Queues' /\ OnlyOnCores'
         /\ NoIdlePermit' /\ Permitted' /\ NothingMissed'
         /\ \A u \in Thread : pc'[u] = "unborn" <=> pc[u] = "unborn"
    <2>1. "guard" \in Stage /\ "guard" # "pick" /\ pc[t] \in Stage \cup {"block"}
      BY DEF Stage
    <2>2. calls'[t][1].why = calls[t][1].why /\ calls'[t][1].back = calls[t][1].back
      BY <1>7, <1>10
    <2>3. /\ UNCHANGED <<on, act, victim, sem, reaping>>
          /\ pc' = [pc EXCEPT ![t] = "guard"] /\ on[c] = t /\ act[c] = NoAct
      OBVIOUS
    <2>. HIDE DEF ThreadsInv
    <2>. QED BY ONLY ThreadsInv, c \in Core, t \in TCB, <1>10, <2>1, <2>2, <2>3, InsideBlock
  <1>12. readyQ' \in Seq(Thread) /\ Once(readyQ')
    BY Removed DEF Types, Distinct
  <1>13. Types' BY <1>10, <1>12 DEF Types, Stage, sem, reaping
  <1>14. CoreOK(c)'
    BY <1>1, <1>2, <1>7, <1>10 DEF CoreOK, Types, Chosen, Stage, Mine, TCB
  <1>15. ASSUME NEW d \in Core, d # c PROVE CoreOK(d)'
    BY <1>1, <1>10, <1>15, OtherCores
  <1>16. /\ Target(t)' = n /\ Target(t) = Nil
         /\ \A u \in TCB \ {t} : Target(u)' = Target(u)
    BY <1>1, <1>7, <1>10 DEF Target, Chosen
  <1>17. PICK w \in [Thread -> Place] : Where(w) BY DEF Located
  <1>18. PICK x : x = [w EXCEPT ![n] = <<"next", t>>] OBVIOUS
  <1>19. x \in [Thread -> Place] BY <1>17, <1>18 DEF Place
  <1>20. /\ n \in Thread => In(n, readyQ) /\ ~In(n, readyQ')
         /\ \A u \in Thread \ {n} : In(u, readyQ') <=> In(u, readyQ)
    <2>1. CASE readyQ # <<>> /\ n = Head(readyQ) /\ readyQ' = Tail(readyQ)
      <3>1. readyQ \in Seq(Thread) /\ Once(readyQ) BY DEF Types, Distinct
      <3>. QED BY ONLY <2>1, <3>1, Removed
    <2>2. CASE n = c /\ UNCHANGED readyQ
      BY <2>2, ThreadsAssumption
    <2>. QED BY <2>1, <2>2
  <1>22. ASSUME NEW u \in Thread PROVE Lies(x, u)'
    <2>1. Lies(w, u) BY <1>17 DEF Where
    <2>2. u \in TCB /\ u # Nil BY ThreadsAssumption DEF TCB
    <2>3. CASE u = n
      BY <1>1, <1>16, <1>18, <1>20, <2>1, <2>2, <2>3 DEF Lies, sem, reaping
    <2>4. CASE u # n
      BY <1>1, <1>16, <1>18, <1>20, <2>1, <2>2, <2>4 DEF Lies, sem, reaping
    <2>. QED BY <2>3, <2>4
  <1>23. Located' BY <1>19, <1>22 DEF Located, Where
  <1>24. Distinct' BY <1>12 DEF Distinct, sem, reaping
  <1>. QED BY <1>11, <1>13, <1>14, <1>15, <1>23, <1>24 DEF Cores

\* The next thread is taken from readyQ, or is the idle thread of this core, or there is none.
LEMMA PickOK == ASSUME ThreadsInv, NEW c \in Core, Pick(c) PROVE ThreadsInv'
  <1>. USE DEF ThreadsInv
  <1>1. PICK t \in TCB : on[c] = t BY DEF Types
  <1>2. /\ act[c] = NoAct /\ pc[t] = "pick"
        /\ UNCHANGED <<on, activeThreads, cr3, act, victim, sem, reaping>>
    BY <1>1 DEF Pick, At
  <1>3. Shape(t) /\ CoreOK(c) /\ Role(t) BY DEF Shapes, Cores, Roles
  <1>4. CASE readyQ # <<>> /\ Goto(t, "guard") /\ UNCHANGED no_preempt /\ readyQ' = Tail(readyQ)
             /\ calls' = [calls EXCEPT ![t][1].next = Head(readyQ)]
    <2>1. /\ Head(readyQ) \in Thread /\ In(Head(readyQ), readyQ)
      <3>1. readyQ \in Seq(Thread) /\ Once(readyQ) BY DEF Types, Distinct
      <3>. QED BY ONLY <1>4, <3>1, Removed
    <2>2. Head(readyQ) # t BY <1>1, <2>1, Running1
    <2>. QED BY <1>1, <1>2, <1>4, <2>1, <2>2, ChoiceOK DEF Goto, Mine
  <1>5. CASE readyQ = <<>> /\ t \notin Core /\ Goto(t, "guard") /\ UNCHANGED <<no_preempt, readyQ>>
             /\ calls' = [calls EXCEPT ![t][1].next = Blk(t).core]
    <2>1. Blk(t) = calls[t][1]
      <3>1. Len(calls[t]) # 0 BY <1>2, <1>3 DEF Shape, Stage
      <3>2. calls[t] \in Seq(FrameType) BY DEF Types
      <3>. QED BY <3>1, <3>2 DEF Blk
    <2>2. Blk(t).core = c BY <1>1, <1>2, <1>3, <2>1 DEF CoreOK, Stage
    <2>. QED BY <1>1, <1>2, <1>5, <2>2, ChoiceOK DEF Goto, Mine
  <1>6. CASE /\ CanReturn(t) /\ Return(t) /\ no_preempt' = [no_preempt EXCEPT ![t] = FALSE]
             /\ UNCHANGED readyQ
    <2>1. /\ Len(calls[t]) \in {1, 2} /\ calls[t][1] \in FrameType /\ Blk(t) = calls[t][1]
          /\ pc' \in [TCB -> ProgLoc \cup Stage \cup {"block", "unborn"}]
          /\ pc'[t] = calls[t][1].back /\ pc'[t] \in ProgLoc \cup {"block"}
          /\ calls' \in [TCB -> Seq(FrameType)]
          /\ Len(calls'[t]) = Len(calls[t]) - 1
          /\ \A u \in TCB \ {t} : pc'[u] = pc[u] /\ calls'[u] = calls[u]
          /\ Shape(t)' /\ Prog(t)' = Prog(t)
          /\ \A k \in Why : (\E i \in 1..Len(calls[t]) : calls[t][i].why = k) <=>
               \/ calls[t][1].why = k
               \/ \E i \in 1..Len(calls'[t]) : calls'[t][i].why = k
          /\ calls[t][1].why # "tick" => Asks(t, calls[t][1])
      BY <1>2, <1>6, Returned DEF Stage
    <2>2. calls[t][1].why \in {"yield", "tick", "wait"} BY <1>6, <2>1 DEF CanReturn
    <2>3. Types' BY <1>2, <1>6, <2>1 DEF Types, sem, reaping
    <2>4. Role(t)'
      <3>1. t \in Thread /\ victim[t] # Nil => victim[t] \in Thread /\ pc'[victim[t]] = pc[victim[t]]
        BY <1>1, <2>1, Running1 DEF Types, TCB
      <3>2. t \notin Core
        BY <1>3, <2>1, <2>2 DEF Role
      <3>. QED BY <1>2, <1>3, <2>1, <3>1, <3>2 DEF Role
    <2>5. Shapes' /\ Roles' /\ AskedFor' /\ Queues'
      BY <1>1, <1>2, <2>1, <2>4, OnlyOneGoesOn DEF sem, reaping
    <2>6. OnlyOnCores' BY <1>2, <2>1 DEF OnlyOnCores, Stage, ProgLoc
    <2>7. Cores'
      <3>1. CoreOK(c)'
        BY <1>1, <1>2, <1>3, <1>6, <2>1 DEF CoreOK, Types, Chosen, Stage, ProgLoc
      <3>2. ASSUME NEW d \in Core, d # c PROVE CoreOK(d)'
        <4>1. \A u \in TCB \ {t, Target(t)} : no_preempt'[u] = no_preempt[u]
          BY <1>6 DEF Types
        <4>2. /\ on'[d] = on[d] /\ act'[d] = act[d] /\ cr3'[d] = cr3[d]
              /\ activeThreads'[d] = activeThreads[d]
          BY <1>2
        <4>. QED BY <1>1, <2>1, <3>2, <4>1, <4>2, OtherCores
      <3>. QED BY <3>1, <3>2 DEF Cores
    <2>8. \A u \in TCB : Target(u)' = Target(u)
      BY <1>2, <2>1 DEF Target, Chosen, ProgLoc
    <2>9. \A u \in Thread : pc'[u] = "unborn" <=> pc[u] = "unborn"
      BY <1>2, <2>1 DEF ProgLoc, TCB
    <2>10. Located' /\ Distinct'
      BY <1>2, <1>6, <2>8, <2>9, PlacesKept DEF sem, reaping
    <2>11. \A u \in TCB : Prog(u)' = Prog(u) BY <2>1 DEF Prog
    <2>12. \A u \in TCB \ {t}, k \in Why : Asking(u, k)' <=> Asking(u, k)
      BY <1>2, <2>1 DEF Asking
    <2>13. Asking(t, "down")' <=> Asking(t, "down")
      BY <1>2, <2>1, <2>2 DEF Asking, Why
    <2>14. Asking(t, "wait")' => Asking(t, "wait")
      BY <1>2, <2>1 DEF Asking, Why
    <2>15. NoIdlePermit' /\ Permitted'
      BY <1>2, <2>11, <2>12, <2>13, PermitsKept DEF sem, TCB, Why
    <2>16. NothingMissed'
      BY <1>2, <2>12, <2>14, SleepKept, ThreadsAssumption DEF reaping, TCB, Why
    <2>. QED BY <2>3, <2>5, <2>6, <2>7, <2>10, <2>15, <2>16
  <1>. QED BY <1>1, <1>4, <1>5, <1>6 DEF Pick

-----------------------------------------------------------------------------
(* The stack switch.                                                        *)

\* The switch moves the core to the chosen thread and leaves the other in the hands of its handler.
LEMMA SwitchOK == ASSUME ThreadsInv, NEW c \in Core, Switch(c) PROVE ThreadsInv'
  <1>. USE DEF ThreadsInv
  <1>1. PICK t \in TCB : on[c] = t BY DEF Types
  <1>2. act[c] = NoAct /\ pc[t] = "switch" /\ Return(t) BY <1>1 DEF Switch, At
  <1>3. /\ Len(calls[t]) \in {1, 2} /\ calls[t][1] \in FrameType /\ Blk(t) = calls[t][1]
        /\ pc' \in [TCB -> ProgLoc \cup Stage \cup {"block", "unborn"}]
        /\ pc'[t] = calls[t][1].back /\ pc'[t] \in ProgLoc \cup {"block"}
        /\ calls' \in [TCB -> Seq(FrameType)]
        /\ Len(calls'[t]) = Len(calls[t]) - 1
        /\ \A u \in TCB \ {t} : pc'[u] = pc[u] /\ calls'[u] = calls[u]
        /\ Shape(t)' /\ Prog(t)' = Prog(t)
        /\ \A k \in Why : (\E i \in 1..Len(calls[t]) : calls[t][i].why = k) <=>
             \/ calls[t][1].why = k
             \/ \E i \in 1..Len(calls'[t]) : calls'[t][i].why = k
        /\ Len(calls'[t]) = 1 => calls[t][1].why = "tick"
        /\ calls[t][1].why # "tick" => Asks(t, calls[t][1])
    BY <1>2, Returned DEF Stage
  <1>4. Shape(t) /\ CoreOK(c) /\ Role(t) BY DEF Shapes, Cores, Roles
  <1>5. PICK n \in Mine(c) \ {t} : n = calls[t][1].next
    BY <1>1, <1>2, <1>4 DEF CoreOK, Chosen
  <1>6. PICK k \in Why : k = calls[t][1].why BY <1>3 DEF FrameType
  <1>7. /\ no_preempt' = [no_preempt EXCEPT ![t] = FALSE, ![n] = FALSE]
        /\ on' = [on EXCEPT ![c] = n]
        /\ act' = [act EXCEPT ![c] = [who |-> t, kind |-> k]]
        /\ UNCHANGED <<activeThreads, cr3, victim, readyQ, sem, reaping>>
    BY <1>1, <1>3, <1>5, <1>6 DEF Switch, Preemptible
  <1>8. /\ act'[c] = [who |-> t, kind |-> k] /\ act'[c].who = t /\ act'[c].kind = k
        /\ \A d \in Core \ {c} : act'[d] = act[d]
        /\ on'[c] = n /\ \A d \in Core \ {c} : on'[d] = on[d]
    BY <1>7 DEF Types
  <1>9. n \in TCB /\ t # Nil /\ n # Nil BY ThreadsAssumption DEF Mine, TCB
  <1>10. Target(t) = n /\ Target(t)' = Nil /\ \A u \in TCB \ {t} : Target(u)' = Target(u)
    BY <1>2, <1>3, <1>5 DEF Target, Chosen, ProgLoc
  <1>11. PICK w \in [Thread -> Place] : Where(w) BY DEF Located
  \* Nobody else runs on the way.
  <1>12. pc[n] \notin Stage
    <2>1. CASE n \in Thread
      <3>1. \A d \in Core : on[d] # n BY <1>9, <1>10, <1>11, <2>1 DEF Where, Lies
      <3>. QED BY <1>9, <3>1 DEF OnlyOnCores
    <2>2. CASE n = c
      <3>1. \A d \in Core : on[d] # c
        BY <1>1, <1>5, <2>2, ThreadsAssumption DEF Cores, CoreOK, Mine
      <3>. QED BY <1>9, <2>2, <3>1 DEF OnlyOnCores
    <2>. QED BY <2>1, <2>2 DEF Mine
  <1>13. Types' BY <1>3, <1>7, <1>9 DEF Types, sem, reaping
  <1>14. \A u \in TCB : Prog(u)' = Prog(u) BY <1>3 DEF Prog
  <1>15. Shapes'
    <2>. SUFFICES ASSUME NEW u \in TCB, u # t PROVE Shape(u)' BY <1>3 DEF Shapes
    <2>1. Shape(u) /\ pc'[u] = pc[u] /\ calls'[u] = calls[u] BY <1>3 DEF Shapes
    <2>. QED BY <2>1 DEF Shape, Fresh, Asks
  <1>16. Roles'
    <2>. SUFFICES ASSUME NEW u \in TCB PROVE Role(u)' BY DEF Roles
    <2>1. Role(u) BY DEF Roles
    <2>2. u \in Thread /\ victim[u] # Nil => victim[u] \in Thread /\ pc'[victim[u]] = pc[victim[u]]
      BY <1>1, <1>3, Running1 DEF Types, TCB
    <2>3. CASE u # t BY <1>3, <1>7, <1>14, <2>1, <2>2, <2>3 DEF Role
    <2>4. t \in Core => Len(calls'[t]) = 0
      <3>1. t \in Core => calls[t][1].why = "stop" BY <1>3, <1>4 DEF Role
      <3>. QED BY <1>3, <3>1
    <2>5. CASE u = t
      <3>1. Prog(t)' = Prog(t) /\ victim' = victim BY <1>7, <1>14
      <3>2. t \in Core => \A i \in 1..Len(calls'[t]) : calls'[t][i].why = "stop"
        BY <2>4
      <3>3. t \in Thread /\ victim[t] # Nil => pc'[victim[t]] = pc[victim[t]]
        BY <2>2, <2>5
      <3>. QED BY <2>1, <2>5, <3>1, <3>2, <3>3 DEF Role
    <2>. QED BY <2>3, <2>5
  <1>17. AskedFor'
    <2>1. ASSUME NEW d \in Core, d # c, act[d].who # Nil
          PROVE  act'[d] = act[d] /\ pc'[act[d].who] = pc[act[d].who]
      <3>1. act[d].who # t
        BY <1>1, <2>1, Running1, ThreadsAssumption DEF Cores, CoreOK, Mine, TCB
      <3>2. act[d].who \in TCB BY <2>1 DEF Types
      <3>. QED BY <1>3, <1>8, <2>1, <3>1, <3>2
    <2>2. t \in Core => k = "stop" BY <1>3, <1>4, <1>6 DEF Role
    <2>3. /\ k = "down" => pc'[t] = "crit"
          /\ k = "wait" => t = Reaper
          /\ k = "stop" => pc'[t] = "stop"
      BY <1>3, <1>6 DEF Asks
    <2>. SUFFICES ASSUME NEW d \in Core
                  PROVE  /\ act'[d].who = Nil => act'[d] = NoAct
                         /\ act'[d].who \in Core => act'[d].kind = "stop"
                         /\ act'[d].who # Nil =>
                             /\ act'[d].kind = "down" => pc'[act'[d].who] = "crit"
                             /\ act'[d].kind = "wait" => act'[d].who = Reaper
                             /\ act'[d].kind = "stop" => pc'[act'[d].who] = "stop"
      BY DEF AskedFor, NoAct
    <2>4. CASE d = c BY <1>8, <1>9, <2>2, <2>3, <2>4
    <2>5. CASE d # c /\ act[d].who # Nil BY <2>1, <2>5 DEF AskedFor
    <2>6. CASE d # c /\ act[d].who = Nil
      BY <1>8, <2>6, ThreadsAssumption DEF AskedFor, TCB
    <2>. QED BY <2>4, <2>5, <2>6
  <1>18. Queues'
    <2>. SUFFICES ASSUME NEW u \in Thread
                  PROVE  /\ In(u, waiting) => pc'[u] = "crit"
                         /\ In(u, sleepers) => u = Reaper
                         /\ In(u, zombies) => pc'[u] = "stop"
      BY <1>7 DEF Queues, sem, reaping
    <2>1. In(u, waiting) \/ In(u, zombies) => u # t BY <1>1, Running1
    <2>2. u # t => pc'[u] = pc[u] BY <1>3 DEF TCB
    <2>. QED BY <2>1, <2>2 DEF Queues
  <1>19. OnlyOnCores'
    <2>. SUFFICES ASSUME NEW u \in TCB, pc'[u] \in Stage PROVE \E d \in Core : on'[d] = u
      BY DEF OnlyOnCores
    <2>1. u # t BY <1>3 DEF Stage, ProgLoc
    <2>2. PICK d \in Core : on[d] = u BY <1>3, <2>1 DEF OnlyOnCores
    <2>. QED BY <1>1, <1>8, <2>1, <2>2
  <1>20. Cores'
    <2>1. CoreOK(c)'
      <3>1. pc'[n] = pc[n] BY <1>3, <1>9
      <3>2. activeThreads[c] = n /\ cr3[c] = Pd(n) BY <1>1, <1>2, <1>4, <1>5 DEF CoreOK
      <3>3. t \in Mine(c) BY <1>1, <1>4 DEF CoreOK
      <3>. QED BY <1>7, <1>8, <1>12, <3>1, <3>2, <3>3 DEF CoreOK, Chosen, Stage
    <2>2. ASSUME NEW d \in Core, d # c PROVE CoreOK(d)'
      <3>1. \A u \in TCB \ {t, n} : no_preempt'[u] = no_preempt[u] BY <1>7 DEF Types
      <3>2. /\ on'[d] = on[d] /\ act'[d] = act[d] /\ cr3'[d] = cr3[d]
            /\ activeThreads'[d] = activeThreads[d]
        BY <1>7, <1>8, <2>2
      <3>. QED BY <1>1, <1>3, <1>10, <2>2, <3>1, <3>2, OtherCores
    <2>. QED BY <2>1, <2>2 DEF Cores
  <1>21. Located'
    <2>1. PICK x : x = [w EXCEPT ![t] = <<"left", c>>, ![n] = <<"on", c>>] OBVIOUS
    <2>2. x \in [Thread -> Place] BY <1>11, <2>1 DEF Place, TCB
    <2>3. ASSUME NEW u \in Thread PROVE Lies(x, u)'
      <3>1. Lies(w, u) BY <1>11 DEF Where
      <3>2. u \in TCB /\ u # Nil BY ThreadsAssumption DEF TCB
      <3>3. /\ n # t /\ x[u] = IF u = n THEN <<"on", c>> ELSE IF u = t THEN <<"left", c>> ELSE w[u]
        BY <1>11, <2>1
      <3>4. u \in {t, n} => pc'[u] # "unborn"
        BY <1>3, <1>10, <3>1, <3>2 DEF Lies, ProgLoc
      <3>5. CASE u = n
        BY <1>7, <1>8, <1>10, <3>1, <3>2, <3>3, <3>4, <3>5 DEF Lies, sem, reaping
      <3>6. CASE u = t
        BY <1>1, <1>7, <1>8, <1>10, <3>1, <3>2, <3>3, <3>4, <3>6 DEF Lies, sem, reaping
      <3>7. CASE u \notin {t, n}
        BY <1>1, <1>2, <1>3, <1>7, <1>8, <1>10, <3>1, <3>2, <3>3, <3>7 DEF Lies, sem, reaping, NoAct
      <3>. QED BY <3>5, <3>6, <3>7
    <2>. QED BY <2>2, <2>3 DEF Located, Where
  <1>22. Distinct' BY <1>7 DEF Distinct, sem, reaping
  <1>23. \A u \in TCB, j \in Why : Asking(u, j)' <=> Asking(u, j)
    <2>. SUFFICES ASSUME NEW u \in TCB, NEW j \in Why PROVE Asking(u, j)' <=> Asking(u, j)
      OBVIOUS
    <2>1. CASE u # t
      <3>1. calls'[u] = calls[u] BY <1>3, <2>1
      <3>2. (\E d \in Core : act'[d].who = u /\ act'[d].kind = j)
              <=> (\E d \in Core : act[d].who = u /\ act[d].kind = j)
        BY <1>2, <1>8, <2>1, ThreadsAssumption DEF NoAct, TCB
      <3>. QED BY <3>1, <3>2 DEF Asking
    <2>2. \A d \in Core : act[d].who # t
      BY <1>1, <1>2, Running1, ThreadsAssumption DEF Cores, CoreOK, Mine, TCB, NoAct
    <2>3. (\E d \in Core : act'[d].who = t /\ act'[d].kind = j) <=> j = k
      BY <1>8, <2>2
    <2>4. (\E i \in 1..Len(calls[t]) : calls[t][i].why = j) <=>
             \/ j = k
             \/ \E i \in 1..Len(calls'[t]) : calls'[t][i].why = j
      BY <1>3, <1>6
    <2>5. Asking(t, j)' <=> Asking(t, j) BY <2>2, <2>3, <2>4 DEF Asking
    <2>. QED BY <2>1, <2>5
  <1>24. NoIdlePermit' /\ Permitted'
    BY <1>7, <1>14, <1>23, PermitsKept DEF sem, TCB, Why
  <1>25. NothingMissed'
    BY <1>7, <1>23, SleepKept, ThreadsAssumption DEF reaping, TCB, Why
  <1>. QED BY <1>13, <1>15, <1>16, <1>17, <1>18, <1>19, <1>20, <1>21, <1>22, <1>24, <1>25

-----------------------------------------------------------------------------
(* The handlers.                                                            *)

\* A handler runs no thread and changes nothing about those that run.
LEMMA HandlerKeeps ==
    ASSUME ThreadsInv, NEW c \in Core, act[c].who # Nil,
           UNCHANGED <<on, activeThreads, cr3, no_preempt, pc, calls, victim>>,
           \/ act' = [act EXCEPT ![c] = NoAct]
           \/ /\ act[c].kind \in {"down", "wait"}
              /\ act' = [act EXCEPT ![c].kind = "yield"]
    PROVE  /\ Shapes' /\ Roles' /\ AskedFor' /\ Cores' /\ OnlyOnCores'
           /\ act' \in [Core -> [who : TCB \cup {Nil}, kind : Why]]
           /\ \A u \in TCB : Prog(u)' = Prog(u) /\ Target(u)' = Target(u)
           /\ \A d \in Core \ {c} : act'[d] = act[d]
           /\ act'[c] = NoAct \/ act'[c] = [who |-> act[c].who, kind |-> "yield"]
           /\ act'[c].who \in {Nil, act[c].who}
           /\ \A u \in TCB, k \in {"down", "wait"} :
                /\ Asking(u, k)' => Asking(u, k)
                /\ u # act[c].who \/ k # act[c].kind => (Asking(u, k) => Asking(u, k)')
           /\ \A u \in TCB : act[c].kind = "down" /\ u = act[c].who => ~Asking(u, "down")'
           /\ act[c].kind \notin {"down", "wait"} =>
                \A u \in TCB, k \in {"down", "wait"} : Asking(u, k)' <=> Asking(u, k)
  <1>. USE DEF ThreadsInv
  <1>1. Shapes' BY DEF Shapes, Shape, Fresh, Asks
  <1>2. \A u \in TCB : Prog(u)' = Prog(u) /\ Target(u)' = Target(u) BY DEF Prog, Target
  <1>3. Roles'
    <2>. SUFFICES ASSUME NEW u \in TCB PROVE Role(u)' BY DEF Roles
    <2>1. Role(u) BY DEF Roles
    <2>. QED BY <1>2, <2>1 DEF Role
  <1>4. act[c] \in [who : TCB \cup {Nil}, kind : Why] BY DEF Types
  <1>5. act'[c] = NoAct \/ act'[c] = [who |-> act[c].who, kind |-> "yield"]
    BY <1>4 DEF Types
  <1>6. \A d \in Core \ {c} : act'[d] = act[d] BY DEF Types
  <1>7. act' \in [Core -> [who : TCB \cup {Nil}, kind : Why]]
    <2>1. act'[c] \in [who : TCB \cup {Nil}, kind : Why] BY <1>4, <1>5 DEF NoAct, Why
    <2>. QED BY <1>6, <2>1 DEF Types
  <1>8. act'[c].who \in {Nil, act[c].who} BY <1>5 DEF NoAct
  <1>9. \A d \in Core : act'[d].who \in {act[d].who, Nil} /\ (act[d] = NoAct => act'[d] = NoAct)
    BY <1>6, <1>8 DEF NoAct
  <1>10. Cores' /\ OnlyOnCores' BY <1>9, CoresKept
  <1>11. AskedFor'
    <2>1. act'[c] # NoAct => act[c].who \notin Core
      BY DEF AskedFor, Types
    <2>2. \A d \in Core : act[d].who = Nil => act[d] = NoAct BY DEF AskedFor
    <2>. SUFFICES ASSUME NEW d \in Core
                  PROVE  /\ act'[d].who = Nil => act'[d] = NoAct
                         /\ act'[d].who \in Core => act'[d].kind = "stop"
                         /\ act'[d].who # Nil =>
                             /\ act'[d].kind = "down" => pc'[act'[d].who] = "crit"
                             /\ act'[d].kind = "wait" => act'[d].who = Reaper
                             /\ act'[d].kind = "stop" => pc'[act'[d].who] = "stop"
      BY DEF AskedFor, NoAct
    <2>3. CASE d # c BY <1>6, <2>3, <2>2 DEF AskedFor
    <2>4. CASE d = c /\ act'[c] = NoAct BY <2>4, ThreadsAssumption DEF NoAct, TCB
    <2>5. CASE d = c /\ act'[c] # NoAct BY <1>5, <2>1, <2>5 DEF AskedFor
    <2>. QED BY <2>3, <2>4, <2>5
  <1>12. ASSUME NEW u \in TCB, NEW k \in {"down", "wait"}
         PROVE /\ Asking(u, k)' => Asking(u, k)
               /\ u # act[c].who \/ k # act[c].kind => (Asking(u, k) => Asking(u, k)')
    <2>1. (\E i \in 1..Len(calls'[u]) : calls'[u][i].why = k)
            <=> (\E i \in 1..Len(calls[u]) : calls[u][i].why = k)
      OBVIOUS
    <2>2. ~(act'[c].who = u /\ act'[c].kind = k)
      BY <1>5, <1>12, ThreadsAssumption DEF NoAct, TCB
    <2>3. (\E d \in Core : act'[d].who = u /\ act'[d].kind = k)
            => (\E d \in Core : act[d].who = u /\ act[d].kind = k)
      BY <1>6, <2>2
    <2>4. u # act[c].who \/ k # act[c].kind =>
            ((\E d \in Core : act[d].who = u /\ act[d].kind = k)
               => (\E d \in Core : act'[d].who = u /\ act'[d].kind = k))
      BY <1>6
    <2>. QED BY <2>1, <2>3, <2>4 DEF Asking
  <1>13. ASSUME NEW u \in TCB, u = act[c].who, act[c].kind = "down" PROVE ~Asking(u, "down")'
    <2>1. act[c].who \in Thread /\ pc[act[c].who] = "crit"
      BY <1>4, <1>13 DEF AskedFor, TCB
    <2>2. Len(calls[act[c].who]) = 0 BY <2>1 DEF Shapes, Shape, ProgLoc, TCB
    <2>3. PICK w : Where(w) BY DEF Located
    <2>4. \A d \in Core \ {c} : act'[d].who # act[c].who
      BY <1>6, <2>1, <2>3 DEF Where, Lies
    <2>5. ~(act'[c].who = act[c].who /\ act'[c].kind = "down")
      BY <1>5, <2>1, ThreadsAssumption DEF NoAct, TCB
    <2>. QED BY <1>13, <2>2, <2>4, <2>5 DEF Asking
  <1>. QED BY <1>1, <1>2, <1>3, <1>5, <1>6, <1>7, <1>8, <1>10, <1>11, <1>12, <1>13

\* The handler of a core moves the thread that left it to a queue.
LEMMA QueuedOK ==
    ASSUME ThreadsInv, NEW c \in Core, NEW t \in Thread, act[c].who = t, act'[c] = NoAct,
           \A d \in Core \ {c} : act'[d] = act[d],
           UNCHANGED <<on, pc, calls, victim>>,
           \/ readyQ' = Append(readyQ, t) /\ UNCHANGED <<waiting, zombies, sleepers>>
           \/ waiting' = Append(waiting, t) /\ UNCHANGED <<readyQ, zombies, sleepers>>
           \/ sleepers' = Append(sleepers, t) /\ UNCHANGED <<readyQ, waiting, zombies>>
    PROVE  /\ Located' /\ Distinct'
           /\ readyQ' \in Seq(Thread) /\ waiting' \in Seq(Thread) /\ sleepers' \in Seq(Thread)
           /\ \A u \in Thread : In(u, waiting)' <=> In(u, waiting) \/ (waiting' # waiting /\ u = t)
           /\ \A u \in Thread : In(u, sleepers)' <=> In(u, sleepers) \/ (sleepers' # sleepers /\ u = t)
  <1>. USE DEF ThreadsInv
  <1>1. PICK w \in [Thread -> Place] : Where(w) BY DEF Located
  <1>2. Lies(w, t) BY <1>1 DEF Where
  <1>3. ~In(t, readyQ) /\ ~In(t, waiting) /\ ~In(t, zombies) /\ ~In(t, sleepers)
    BY <1>2 DEF Lies
  <1>4. /\ readyQ \in Seq(Thread) /\ waiting \in Seq(Thread) /\ sleepers \in Seq(Thread)
        /\ Once(readyQ) /\ Once(waiting) /\ Once(sleepers) /\ Once(zombies)
    BY DEF Types, Distinct
  <1>5. \A u \in TCB : Target(u)' = Target(u) BY DEF Target
  <1>6. ASSUME NEW p \in Place, NEW x, x = [w EXCEPT ![t] = p],
               \A u \in Thread \ {t} : /\ In(u, readyQ)' <=> In(u, readyQ)
                                       /\ In(u, waiting)' <=> In(u, waiting)
                                       /\ In(u, sleepers)' <=> In(u, sleepers)
                                       /\ In(u, zombies)' <=> In(u, zombies),
               In(t, readyQ)' <=> p = <<"ready", Nil>>,
               In(t, waiting)' <=> p = <<"waiting", Nil>>,
               In(t, sleepers)' <=> p = <<"asleep", Nil>>,
               In(t, zombies)' <=> p = <<"zombie", Nil>>,
               p \in {<<"ready", Nil>>, <<"waiting", Nil>>, <<"asleep", Nil>>, <<"zombie", Nil>>}
        PROVE  Located'
    <2>1. x \in [Thread -> Place] BY <1>1, <1>6
    <2>2. ASSUME NEW u \in Thread PROVE Lies(x, u)'
      <3>1. Lies(w, u) BY <1>1 DEF Where
      <3>2. u # Nil /\ x[u] = IF u = t THEN p ELSE w[u]
        BY <1>1, <1>6, ThreadsAssumption DEF TCB
      <3>3. CASE u = t BY <1>2, <1>5, <1>6, <3>2, <3>3 DEF Lies, NoAct
      <3>4. CASE u # t BY <1>5, <1>6, <3>1, <3>2, <3>4 DEF Lies, NoAct
      <3>. QED BY <3>3, <3>4
    <2>. QED BY <2>1, <2>2 DEF Located, Where
  <1>7. CASE readyQ' = Append(readyQ, t) /\ UNCHANGED <<waiting, zombies, sleepers>>
    <2>1. /\ readyQ' \in Seq(Thread) /\ Once(readyQ')
          /\ \A u : In(u, readyQ)' <=> In(u, readyQ) \/ u = t
      BY <1>3, <1>4, <1>7, Added
    <2>2. PICK x : x = [w EXCEPT ![t] = <<"ready", Nil>>] OBVIOUS
    <2>3. <<"ready", Nil>> \in Place BY DEF Place
    <2>4. Located' BY <1>3, <1>6, <1>7, <2>1, <2>2, <2>3
    <2>. QED BY <1>4, <1>7, <2>1, <2>4 DEF Distinct
  <1>8. CASE waiting' = Append(waiting, t) /\ UNCHANGED <<readyQ, zombies, sleepers>>
    <2>1. /\ waiting' \in Seq(Thread) /\ Once(waiting')
          /\ \A u : In(u, waiting)' <=> In(u, waiting) \/ u = t
      BY <1>3, <1>4, <1>8, Added
    <2>2. PICK x : x = [w EXCEPT ![t] = <<"waiting", Nil>>] OBVIOUS
    <2>3. <<"waiting", Nil>> \in Place BY DEF Place
    <2>4. Located' BY <1>3, <1>6, <1>8, <2>1, <2>2, <2>3
    <2>5. waiting' # waiting BY <1>3, <2>1
    <2>. QED BY <1>4, <1>8, <2>1, <2>4, <2>5 DEF Distinct
  <1>9. CASE sleepers' = Append(sleepers, t) /\ UNCHANGED <<readyQ, waiting, zombies>>
    <2>1. /\ sleepers' \in Seq(Thread) /\ Once(sleepers')
          /\ \A u : In(u, sleepers)' <=> In(u, sleepers) \/ u = t
      BY <1>3, <1>4, <1>9, Added
    <2>2. PICK x : x = [w EXCEPT ![t] = <<"asleep", Nil>>] OBVIOUS
    <2>3. <<"asleep", Nil>> \in Place BY DEF Place
    <2>4. Located' BY <1>3, <1>6, <1>9, <2>1, <2>2, <2>3
    <2>5. sleepers' # sleepers BY <1>3, <2>1
    <2>. QED BY <1>4, <1>9, <2>1, <2>4, <2>5 DEF Distinct
  <1>. QED BY <1>7, <1>8, <1>9

\* A thread that yielded, or was preempted, becomes ready only after its stack is left.
LEMMA HandleYieldOK == ASSUME ThreadsInv, NEW c \in Core, HandleYield(c) PROVE ThreadsInv'
  <1>. USE DEF ThreadsInv
  <1>1. PICK t \in TCB : act[c].who = t /\ t # Nil BY DEF HandleYield, Handler, Types
  <1>2. /\ act[c].kind \in {"yield", "tick"} /\ act[c].who # Nil
        /\ act' = [act EXCEPT ![c] = NoAct]
        /\ readyQ' = Scheduled(readyQ, t)
        /\ UNCHANGED <<on, activeThreads, cr3, no_preempt, pc, calls, victim, sem, reaping>>
    BY <1>1 DEF HandleYield, Handler, Handled
  <1>3. t \in Thread BY <1>1, <1>2 DEF AskedFor, TCB
  <1>4. act'[c] = NoAct BY <1>2 DEF Types
  <1>5. readyQ' = Append(readyQ, t) BY <1>2, <1>3, ThreadsAssumption DEF Scheduled
  <1>6. /\ Shapes' /\ Roles' /\ AskedFor' /\ Cores' /\ OnlyOnCores'
        /\ act' \in [Core -> [who : TCB \cup {Nil}, kind : Why]]
        /\ \A u \in TCB : Prog(u)' = Prog(u)
        /\ \A d \in Core \ {c} : act'[d] = act[d]
        /\ \A u \in TCB, k \in {"down", "wait"} : Asking(u, k)' <=> Asking(u, k)
    <2>. HIDE DEF ThreadsInv
    <2>. QED BY <1>2, HandlerKeeps
  <1>7. UNCHANGED <<waiting, zombies, sleepers, count, signalled>> BY <1>2 DEF sem, reaping
  <1>8. Located' /\ Distinct' /\ readyQ' \in Seq(Thread)
    BY <1>1, <1>2, <1>3, <1>4, <1>5, <1>6, <1>7, QueuedOK
  <1>9. Types' BY <1>2, <1>6, <1>7, <1>8 DEF Types
  <1>10. Queues' BY <1>2, <1>7 DEF Queues
  <1>11. NoIdlePermit' /\ Permitted'
    BY <1>6, <1>7, PermitsKept DEF TCB
  <1>12. NothingMissed'
    BY <1>6, <1>7, SleepKept, ThreadsAssumption DEF TCB
  <1>. QED BY <1>6, <1>8, <1>9, <1>10, <1>11, <1>12

\* The second look of Semaphore::down: it takes a permit or waits, and no up comes between.
LEMMA HandleDownOK == ASSUME ThreadsInv, NEW c \in Core, HandleDown(c) PROVE ThreadsInv'
  <1>. USE DEF ThreadsInv
  <1>1. PICK t \in TCB : act[c].who = t /\ t # Nil BY DEF HandleDown, Handler, Types
  <1>2. /\ act[c].kind = "down" /\ act[c].who # Nil
        /\ UNCHANGED <<on, activeThreads, cr3, no_preempt, pc, calls, victim, readyQ, reaping>>
    BY <1>1 DEF HandleDown, Handler
  <1>3. t \in Thread /\ pc[t] = "crit" BY <1>1, <1>2 DEF AskedFor, TCB
  <1>4. \/ act' = [act EXCEPT ![c] = NoAct]
        \/ /\ act[c].kind \in {"down", "wait"}
           /\ act' = [act EXCEPT ![c].kind = "yield"]
    BY <1>2 DEF HandleDown, Handled, Reschedule
  <1>5. /\ Shapes' /\ Roles' /\ AskedFor' /\ Cores' /\ OnlyOnCores'
        /\ act' \in [Core -> [who : TCB \cup {Nil}, kind : Why]]
        /\ \A u \in TCB : Prog(u)' = Prog(u) /\ Target(u)' = Target(u)
        /\ \A d \in Core \ {c} : act'[d] = act[d]
        /\ \A u \in TCB \ {t}, k \in {"down", "wait"} : Asking(u, k)' <=> Asking(u, k)
        /\ Asking(t, "wait")' <=> Asking(t, "wait")
        /\ ~Asking(t, "down")'
    <2>. HIDE DEF ThreadsInv
    <2>1. /\ Shapes' /\ Roles' /\ AskedFor' /\ Cores' /\ OnlyOnCores'
          /\ act' \in [Core -> [who : TCB \cup {Nil}, kind : Why]]
          /\ \A u \in TCB : Prog(u)' = Prog(u) /\ Target(u)' = Target(u)
          /\ \A d \in Core \ {c} : act'[d] = act[d]
      BY <1>2, <1>4, HandlerKeeps
    <2>2. \A u \in TCB, k \in {"down", "wait"} :
            u # act[c].who => (Asking(u, k)' <=> Asking(u, k))
      BY <1>2, <1>4, HandlerKeeps
    <2>3. Asking(t, "wait")' <=> Asking(t, "wait")
      <3>1. "wait" # act[c].kind BY <1>2
      <3>. QED BY <1>2, <1>4, <3>1, HandlerKeeps
    <2>4. ~Asking(t, "down")' BY <1>1, <1>2, <1>4, HandlerKeeps
    <2>. QED BY <1>1, <2>1, <2>2, <2>3, <2>4
  <1>6. Asking(t, "down") BY <1>1, <1>2 DEF Asking
  <1>7. Prog(t) = "crit"
    <2>1. Len(calls[t]) = 0 BY <1>3 DEF Shapes, Shape, ProgLoc, TCB
    <2>. QED BY <1>3, <2>1 DEF Prog
  <1>8. PICK w \in [Thread -> Place] : Where(w) BY DEF Located
  <1>9. ~In(t, waiting) BY <1>1, <1>3, <1>8 DEF Where, Lies
  <1>10. NothingMissed'
    BY <1>2, <1>5, SleepKept, ThreadsAssumption DEF reaping, TCB
  <1>11. t \notin Holder BY <1>6 DEF Holder
  <1>12. CASE count > 0 /\ count' = count - 1 /\ UNCHANGED waiting
              /\ act' = [act EXCEPT ![c].kind = "yield"]
    <2>1. act'[c] = [who |-> t, kind |-> "yield"]
      <3>1. act[c] \in [who : TCB \cup {Nil}, kind : Why] BY DEF Types
      <3>. QED BY <1>1, <1>12, <3>1 DEF Types
    <2>2. Holder' = Holder \cup {t} BY <1>3, <1>5, <1>7, <1>9, <1>12 DEF Holder, TCB
    <2>3. IsFiniteSet(Holder') /\ Cardinality(Holder') = Cardinality(Holder) + 1
      BY <1>11, <2>2, FS_AddElement DEF Permitted
    <2>4. count' \in Nat BY <1>12 DEF Types
    <2>5. Permitted'
      <3>1. Cardinality(Holder) \in Nat BY FS_CardinalityType DEF Permitted
      <3>. QED BY <1>12, <2>3, <3>1 DEF Permitted, Types
    <2>6. NoIdlePermit' BY <1>12 DEF NoIdlePermit, Types
    <2>7. \A d \in Core : act'[d].who = act[d].who BY <1>1, <1>5, <2>1
    <2>8. Located' /\ Distinct'
      BY <1>2, <1>5, <1>12, <2>7, PlacesKept DEF reaping
    <2>9. Types' BY <1>2, <1>5, <1>12, <2>4 DEF Types, reaping
    <2>10. Queues' BY <1>2, <1>12 DEF Queues, reaping
    <2>. QED BY <1>5, <1>10, <2>5, <2>6, <2>8, <2>9, <2>10
  <1>13. CASE ~(count > 0) /\ UNCHANGED count /\ waiting' = Append(waiting, t)
              /\ act' = [act EXCEPT ![c] = NoAct]
    <2>1. act'[c] = NoAct BY <1>13 DEF Types
    <2>2. UNCHANGED <<readyQ, zombies, sleepers>> BY <1>2 DEF reaping
    <2>3. /\ Located' /\ Distinct' /\ waiting' \in Seq(Thread)
          /\ \A u \in Thread : In(u, waiting)' => In(u, waiting) \/ u = t
          /\ \A u \in Thread : In(u, waiting) => In(u, waiting)'
      BY <1>1, <1>2, <1>3, <1>5, <1>13, <2>1, <2>2, QueuedOK
    <2>4. t \notin Holder' BY <1>13, <2>3, Added DEF Holder, Types
    <2>5. Holder' = Holder
      <3>1. \A u \in Thread \ {t} : u \in Holder' <=> u \in Holder
        BY <1>5, <2>3 DEF Holder, TCB
      <3>. QED BY <1>11, <2>4, <3>1 DEF Holder
    <2>6. Permitted' BY <1>13, <2>5 DEF Permitted
    <2>7. NoIdlePermit' BY <1>13 DEF NoIdlePermit
    <2>8. Types' BY <1>2, <1>5, <1>13, <2>3 DEF Types, reaping
    <2>9. Queues' BY <1>2, <1>3, <2>3 DEF Queues, reaping
    <2>. QED BY <1>5, <1>10, <2>3, <2>6, <2>7, <2>8, <2>9
  <1>. QED BY <1>1, <1>12, <1>13 DEF HandleDown, FreeAgain, Free, Handled, Reschedule

\* The reaper goes to sleep only if no notify came since it released its mutex.
LEMMA HandleWaitOK == ASSUME ThreadsInv, NEW c \in Core, HandleWait(c) PROVE ThreadsInv'
  <1>. USE DEF ThreadsInv
  <1>1. act[c].who = Reaper /\ Reaper \in Thread /\ Reaper \in TCB
    BY ThreadsAssumption DEF HandleWait, Handler, AskedFor, TCB
  <1>2. /\ act[c].kind = "wait" /\ act[c].who # Nil
        /\ UNCHANGED <<on, activeThreads, cr3, no_preempt, pc, calls, victim, readyQ, sem,
                       zombies, signalled>>
    BY DEF HandleWait, Handler
  <1>4. \/ act' = [act EXCEPT ![c] = NoAct]
        \/ /\ act[c].kind \in {"down", "wait"}
           /\ act' = [act EXCEPT ![c].kind = "yield"]
    BY <1>2 DEF HandleWait, Handled, Reschedule
  <1>5. /\ Shapes' /\ Roles' /\ AskedFor' /\ Cores' /\ OnlyOnCores'
        /\ act' \in [Core -> [who : TCB \cup {Nil}, kind : Why]]
        /\ \A u \in TCB : Prog(u)' = Prog(u) /\ Target(u)' = Target(u)
        /\ \A d \in Core \ {c} : act'[d] = act[d]
        /\ \A u \in TCB : Asking(u, "down")' <=> Asking(u, "down")
        /\ Asking(Reaper, "wait")' => Asking(Reaper, "wait")
    <2>. HIDE DEF ThreadsInv
    <2>. QED BY <1>1, <1>2, <1>4, HandlerKeeps
  <1>6. NoIdlePermit' /\ Permitted'
    BY <1>2, <1>5, PermitsKept DEF sem, TCB
  <1>7. Asking(Reaper, "wait") BY <1>1, <1>2 DEF Asking
  <1>8. CASE signalled /\ UNCHANGED sleepers /\ act' = [act EXCEPT ![c].kind = "yield"]
    <2>1. act'[c].who = act[c].who
      <3>1. act[c] \in [who : TCB \cup {Nil}, kind : Why] BY DEF Types
      <3>. QED BY <1>8, <3>1 DEF Types
    <2>2. \A d \in Core : act'[d].who = act[d].who BY <1>5, <2>1
    <2>3. Located' /\ Distinct'
      BY <1>2, <1>5, <1>8, <2>2, PlacesKept DEF sem
    <2>4. Types' BY <1>2, <1>5, <1>8 DEF Types, sem
    <2>5. Queues' BY <1>2, <1>8 DEF Queues, sem
    <2>6. NothingMissed' BY <1>2, <1>8 DEF NothingMissed, NoMissedNotify
    <2>. QED BY <1>5, <1>6, <2>3, <2>4, <2>5, <2>6
  <1>9. CASE ~signalled /\ sleepers' = Append(sleepers, Reaper)
             /\ act' = [act EXCEPT ![c] = NoAct]
    <2>1. act'[c] = NoAct BY <1>9 DEF Types
    <2>2. UNCHANGED <<readyQ, zombies, waiting>> BY <1>2 DEF sem
    <2>3. /\ Located' /\ Distinct' /\ sleepers' \in Seq(Thread)
          /\ \A u \in Thread : In(u, sleepers)' => In(u, sleepers) \/ u = Reaper
      BY <1>1, <1>2, <1>5, <1>9, <2>1, <2>2, QueuedOK
    <2>4. Types' BY <1>2, <1>5, <2>3 DEF Types, sem
    <2>5. Queues' BY <1>2, <2>2, <2>3 DEF Queues
    <2>6. NothingMissed' BY <1>2, <1>7, <1>9 DEF NothingMissed, NoMissedNotify
    <2>. QED BY <1>5, <1>6, <2>3, <2>4, <2>5, <2>6
  <1>. QED BY <1>1, <1>8, <1>9 DEF HandleWait, Missed, Handled, Reschedule

\* A stopped thread becomes a zombie after its stack is left, and the reaper is woken.
LEMMA HandleStopOK == ASSUME ThreadsInv, NEW c \in Core, HandleStop(c) PROVE ThreadsInv'
  <1>. USE DEF ThreadsInv
  <1>1. PICK t \in TCB : act[c].who = t /\ t # Nil BY DEF HandleStop, Handler, Types
  <1>2. /\ act[c].kind = "stop" /\ act[c].who # Nil /\ pc[t] = "stop"
        /\ act' = [act EXCEPT ![c] = NoAct]
        /\ UNCHANGED <<on, activeThreads, cr3, no_preempt, pc, calls, victim, sem>>
    BY <1>1 DEF HandleStop, Handler, Handled, AskedFor
  <1>4. act'[c] = NoAct BY <1>2 DEF Types
  <1>5. /\ Shapes' /\ Roles' /\ AskedFor' /\ Cores' /\ OnlyOnCores'
        /\ act' \in [Core -> [who : TCB \cup {Nil}, kind : Why]]
        /\ \A u \in TCB : Prog(u)' = Prog(u) /\ Target(u)' = Target(u)
        /\ \A d \in Core \ {c} : act'[d] = act[d]
        /\ \A u \in TCB, k \in {"down", "wait"} : Asking(u, k)' <=> Asking(u, k)
    <2>. HIDE DEF ThreadsInv
    <2>. QED BY <1>2, HandlerKeeps
  <1>6. NoIdlePermit' /\ Permitted'
    BY <1>2, <1>5, PermitsKept DEF sem, TCB
  <1>7. PICK w \in [Thread -> Place] : Where(w) BY DEF Located
  <1>8. CASE t \in Core
    <2>1. UNCHANGED <<readyQ, zombies, sleepers, signalled, waiting>>
      BY <1>1, <1>2, <1>8 DEF HandleStop, reaping, sem
    <2>2. Types' BY <1>2, <1>5, <2>1 DEF Types, sem
    <2>3. Queues' BY <1>2, <2>1 DEF Queues
    <2>4. NothingMissed' BY <1>5, <2>1, SleepKept, ThreadsAssumption DEF TCB
    <2>5. Where(w)'
      BY <1>1, <1>2, <1>4, <1>5, <1>7, <1>8, <2>1, ThreadsAssumption DEF Where, Lies, TCB, NoAct
    <2>6. Located' /\ Distinct' BY <1>7, <2>1, <2>5 DEF Located, Distinct
    <2>. QED BY <1>5, <1>6, <2>2, <2>3, <2>4, <2>6
  <1>9. CASE t \notin Core
    <2>1. /\ t \in Thread /\ zombies' = Append(zombies, t) /\ signalled' = TRUE
          /\ UNCHANGED waiting
      BY <1>1, <1>2, <1>9 DEF HandleStop, Notify, TCB, sem
    <2>2. Lies(w, t) BY <1>7, <2>1 DEF Where
    <2>3. /\ ~In(t, readyQ) /\ ~In(t, waiting) /\ ~In(t, zombies) /\ ~In(t, sleepers)
      BY <1>1, <2>2 DEF Lies
    <2>4. /\ zombies' \in Seq(Thread) /\ Once(zombies')
          /\ \A u : In(u, zombies)' <=> In(u, zombies) \/ u = t
      BY <2>1, <2>3, Added DEF Types, Distinct
    <2>5. CASE sleepers = <<>>
      <3>1. UNCHANGED <<sleepers, readyQ>>
        BY <1>1, <1>9, <2>5 DEF HandleStop, Notify
      <3>2. NothingMissed' BY <2>1, <2>5, <3>1 DEF NothingMissed, NoMissedNotify
      <3>3. PICK x : x = [w EXCEPT ![t] = <<"zombie", Nil>>] OBVIOUS
      <3>4. x \in [Thread -> Place] BY <1>7, <3>3 DEF Place
      <3>5. ASSUME NEW u \in Thread PROVE Lies(x, u)'
        <4>1. Lies(w, u) BY <1>7 DEF Where
        <4>2. u \in TCB /\ u # Nil /\ x[u] = IF u = t THEN <<"zombie", Nil>> ELSE w[u]
          BY <1>7, <3>3, ThreadsAssumption DEF TCB
        <4>3. CASE u = t
          BY <1>1, <1>2, <1>4, <1>5, <2>1, <2>2, <2>4, <3>1, <4>2, <4>3 DEF Lies, NoAct
        <4>4. CASE u # t
          BY <1>1, <1>2, <1>4, <1>5, <2>1, <2>4, <3>1, <4>1, <4>2, <4>4 DEF Lies, NoAct
        <4>. QED BY <4>3, <4>4
      <3>6. Located' /\ Distinct' BY <2>1, <2>4, <3>1, <3>4, <3>5 DEF Located, Where, Distinct
      <3>7. Types' BY <1>2, <1>5, <2>1, <2>4, <3>1 DEF Types, sem
      <3>8. Queues' BY <1>2, <2>1, <2>4, <3>1 DEF Queues
      <3>. QED BY <1>5, <1>6, <3>2, <3>6, <3>7, <3>8
    <2>6. CASE sleepers # <<>>
      <3>1. /\ sleepers \in Seq(Thread) /\ Once(sleepers) /\ readyQ \in Seq(Thread)
            /\ Once(readyQ)
        BY DEF Types, Distinct
      <3>2. PICK r \in Thread : r = Head(sleepers) BY ONLY <2>6, <3>1, Removed
      <3>3. /\ In(r, sleepers) /\ sleepers' = Tail(sleepers) /\ sleepers' \in Seq(Thread)
            /\ \A u : In(u, sleepers)' <=> In(u, sleepers) /\ u # r
            /\ Once(sleepers')
        <4>1. sleepers' = Tail(sleepers) BY <1>1, <1>9, <2>6 DEF HandleStop, Notify
        <4>. QED BY <2>6, <3>1, <3>2, <4>1, Removed
      <3>4. r = Reaper /\ \A u \in Thread : ~In(u, sleepers)'
        BY <3>3 DEF Queues
      <3>5. sleepers' = <<>> BY <3>3, <3>4 DEF In
      <3>6. readyQ' = Append(readyQ, r)
        BY <1>1, <1>9, <2>6, <3>2, ThreadsAssumption DEF HandleStop, Notify, Scheduled
      <3>7. Lies(w, r) BY <1>7 DEF Where
      <3>8. ~In(r, readyQ) /\ ~In(r, zombies) /\ r # t BY <1>1, <2>3, <3>3, <3>7 DEF Lies
      <3>9. /\ readyQ' \in Seq(Thread) /\ Once(readyQ')
            /\ \A u : In(u, readyQ)' <=> In(u, readyQ) \/ u = r
        BY <3>1, <3>6, <3>8, Added
      <3>10. NothingMissed' BY <2>1, <3>5 DEF NothingMissed, NoMissedNotify
      <3>11. PICK x : x = [w EXCEPT ![t] = <<"zombie", Nil>>, ![r] = <<"ready", Nil>>] OBVIOUS
      <3>12. x \in [Thread -> Place] BY <1>7, <3>11 DEF Place
      <3>13. ASSUME NEW u \in Thread PROVE Lies(x, u)'
        <4>1. Lies(w, u) BY <1>7 DEF Where
        <4>2. /\ u \in TCB /\ u # Nil
              /\ x[u] = IF u = r THEN <<"ready", Nil>>
                        ELSE IF u = t THEN <<"zombie", Nil>> ELSE w[u]
          BY <1>7, <3>11, ThreadsAssumption DEF TCB
        <4>3. CASE u = t
          BY <1>1, <1>2, <1>4, <1>5, <2>1, <2>2, <2>3, <2>4, <3>3, <3>8, <3>9, <4>2, <4>3
          DEF Lies, NoAct
        <4>4. CASE u = r
          BY <1>1, <1>2, <1>4, <1>5, <2>1, <2>4, <3>3, <3>7, <3>8, <3>9, <4>2, <4>4 DEF Lies, NoAct
        <4>5. CASE u # t /\ u # r
          BY <1>1, <1>2, <1>4, <1>5, <2>1, <2>4, <3>3, <3>9, <4>1, <4>2, <4>5 DEF Lies, NoAct
        <4>. QED BY <4>3, <4>4, <4>5
      <3>14. Located' BY <3>12, <3>13 DEF Located, Where
      <3>15. Distinct' BY <2>1, <2>4, <3>3, <3>9 DEF Distinct
      <3>16. Types' BY <1>2, <1>5, <2>1, <2>4, <3>3, <3>9 DEF Types, sem
      <3>17. Queues' BY <1>2, <2>1, <2>4, <3>4 DEF Queues
      <3>. QED BY <1>5, <1>6, <3>10, <3>14, <3>15, <3>16, <3>17
    <2>. QED BY <2>5, <2>6
  <1>. QED BY <1>8, <1>9

-----------------------------------------------------------------------------
(* What threads do outside block().                                         *)

\* Only t, on core c, goes on, and stays outside block() or is just about to begin it.
GoesOn(c, t) ==
    /\ on[c] = t /\ act[c] = NoAct
    /\ pc[t] \in ProgLoc /\ pc'[t] \in ProgLoc \cup {"block"}
    /\ \A u \in TCB \ {t} : pc'[u] = pc[u] /\ calls'[u] = calls[u]
    /\ \A u \in Thread \ {t} : victim'[u] = victim[u]
    /\ UNCHANGED sched
    /\ \A u \in Thread : /\ In(u, waiting)' => In(u, waiting)
                         /\ In(u, sleepers)' => In(u, sleepers)
                         /\ In(u, zombies)' => In(u, zombies)
    /\ Shape(t)' /\ Role(t)'

\* What then is as before.
Kept(t) ==
    /\ Shapes' /\ Roles' /\ AskedFor' /\ Queues' /\ Cores' /\ OnlyOnCores'
    /\ \A u \in TCB : Target(u)' = Target(u)
    /\ \A u \in Thread : pc'[u] = "unborn" <=> pc[u] = "unborn"
    /\ \A u \in TCB \ {t} : Prog(u)' = Prog(u)
    /\ Len(calls[t]) = 0 /\ Prog(t) = pc[t]
    /\ \A u \in TCB \ {t}, k \in {"down", "wait"} : Asking(u, k)' <=> Asking(u, k)
    /\ \A k \in {"down", "wait"} :
        /\ ~Asking(t, k)
        /\ Asking(t, k)' <=> \E i \in 1..Len(calls'[t]) : calls'[t][i].why = k

\* The invariant is kept by such a step, but for what the step itself is about.
LEMMA GoingOn ==
    ASSUME ThreadsInv, NEW c \in Core, NEW t \in TCB, GoesOn(c, t)
    PROVE  Kept(t)
  <1>. USE DEF ThreadsInv
  <1>1. UNCHANGED <<on, activeThreads, cr3, no_preempt, act>> BY DEF GoesOn, sched
  <1>2. Shapes' /\ Roles' /\ AskedFor' /\ Queues' BY <1>1, OnlyOneGoesOn DEF GoesOn
  <1>3. Cores' /\ OnlyOnCores'
    <2>1. \A u \in TCB : pc'[u] \in Stage \/ pc[u] \in Stage =>
                           pc'[u] = pc[u] /\ calls'[u][1] = calls[u][1]
      BY DEF Stage, ProgLoc, GoesOn
    <2>. QED BY <1>1, <2>1, CoresKept
  <1>4. \A u \in TCB : Target(u)' = Target(u)
    BY DEF Target, Chosen, ProgLoc, GoesOn
  <1>5. \A u \in Thread : pc'[u] = "unborn" <=> pc[u] = "unborn" BY DEF ProgLoc, TCB, GoesOn
  <1>6. \A u \in TCB \ {t}, k \in {"down", "wait"} : Asking(u, k)' <=> Asking(u, k)
    BY <1>1 DEF Asking, GoesOn
  <1>7. \A u \in TCB \ {t} : Prog(u)' = Prog(u) BY DEF Prog, GoesOn
  <1>8. \A d \in Core : act[d].who # t
    BY <1>1, Running1, ThreadsAssumption DEF Cores, CoreOK, Mine, TCB, NoAct, GoesOn
  <1>9. Len(calls[t]) = 0 /\ Prog(t) = pc[t]
    BY DEF Shapes, Shape, Prog, GoesOn
  <1>10. \A k \in {"down", "wait"} :
           /\ ~Asking(t, k)
           /\ Asking(t, k)' <=> \E i \in 1..Len(calls'[t]) : calls'[t][i].why = k
    BY <1>1, <1>8, <1>9 DEF Asking
  <1>. QED BY <1>2, <1>3, <1>4, <1>5, <1>6, <1>7, <1>9, <1>10 DEF Kept

\* A step that moves no thread and no permit.
LEMMA NothingMoves ==
    ASSUME ThreadsInv, NEW c \in Core, NEW t \in TCB, GoesOn(c, t),
           UNCHANGED <<victim, readyQ, sem, zombies, sleepers>>,
           (Prog(t) = "crit" <=> Prog(t)' = "crit"), ~Asking(t, "down")'
    PROVE  /\ Kept(t)
           /\ Located' /\ Distinct' /\ NoIdlePermit' /\ Permitted'
  <1>. USE DEF ThreadsInv
  <1>1. Kept(t) BY GoingOn
  <1>2. UNCHANGED <<on, act, waiting, count>> BY DEF GoesOn, sched, sem
  <1>3. Located' /\ Distinct' BY <1>1, <1>2, PlacesKept DEF Kept
  <1>4. NoIdlePermit' /\ Permitted'
    BY <1>1, <1>2, PermitsKept DEF Kept, TCB
  <1>. QED BY <1>1, <1>3, <1>4

\* A thread calls block.
LEMMA Called ==
    ASSUME ThreadsInv, NEW t \in TCB, pc[t] \in ProgLoc, NEW k \in Why \ {"tick"},
           NEW b \in ProgLoc, Call(t, k, b), Asks(t, Frame(k, b, Nil))
    PROVE  /\ calls' \in [TCB -> Seq(FrameType)]
           /\ Len(calls'[t]) = 1 /\ calls'[t][1].why = k
           /\ pc' = [pc EXCEPT ![t] = "block"] /\ pc'[t] = "block"
           /\ \A u \in TCB \ {t} : pc'[u] = pc[u] /\ calls'[u] = calls[u]
           /\ Shape(t)' /\ Prog(t)' = b
           /\ \A j \in Why : (\E i \in 1..Len(calls'[t]) : calls'[t][i].why = j) <=> j = k
  <1>. USE DEF ThreadsInv
  <1>1. PICK f : f = Frame(k, b, Nil) OBVIOUS
  <1>2. f \in FrameType /\ f.why = k /\ f.back = b /\ f.next = Nil
    BY <1>1 DEF Frame, FrameType
  <1>3. Types /\ calls' = [calls EXCEPT ![t] = <<f>> \o @] BY <1>1 DEF Call
  <1>4. /\ calls' \in [TCB -> Seq(FrameType)]
        /\ Len(calls'[t]) = Len(calls[t]) + 1 /\ calls'[t][1] = f
        /\ \A u \in TCB \ {t} : calls'[u] = calls[u]
    BY ONLY <1>2, <1>3, t \in TCB, Pushes, Zenon
  <1>5. Len(calls'[t]) = 1 BY <1>4 DEF Shapes, Shape
  <1>6. pc' = [pc EXCEPT ![t] = "block"] BY DEF Call, Goto
  <1>7. pc'[t] = "block" /\ \A u \in TCB \ {t} : pc'[u] = pc[u]
    BY <1>6 DEF Types
  <1>8. Shape(t)' BY <1>1, <1>2, <1>4, <1>5, <1>7 DEF Shape, Fresh, Asks, ProgLoc, Stage, Frame
  <1>9. Prog(t)' = b
    <2>1. Prog(t)' = calls'[t][1].back BY <1>5 DEF Prog
    <2>. QED BY <1>2, <1>4, <2>1
  <1>10. \A j \in Why : (\E i \in 1..Len(calls'[t]) : calls'[t][i].why = j) <=> j = k
    BY <1>2, <1>4, <1>5
  <1>. QED BY <1>2, <1>4, <1>5, <1>6, <1>7, <1>8, <1>9, <1>10

\* A program calls yield.
LEMMA YieldOK == ASSUME ThreadsInv, NEW c \in Core, Yield(c) PROVE ThreadsInv'
  <1>. USE DEF ThreadsInv
  <1>1. PICK t \in TCB : on[c] = t BY DEF Types
  <1>2. /\ act[c] = NoAct /\ pc[t] = "run" /\ Call(t, "yield", "run")
        /\ UNCHANGED <<sched, victim, readyQ, sem, reaping>>
    BY <1>1 DEF Yield, Running, At
  <1>3. Role(t) /\ Shape(t) BY DEF Roles, Shapes
  <1>4. Len(calls[t]) = 0 /\ Prog(t) = "run" BY <1>2, <1>3 DEF Shape, ProgLoc, Prog
  <1>5. Asks(t, Frame("yield", "run", Nil)) BY DEF Asks, Frame, ProgLoc
  <1>6. /\ calls' \in [TCB -> Seq(FrameType)]
        /\ Len(calls'[t]) = 1
        /\ pc' = [pc EXCEPT ![t] = "block"] /\ pc'[t] = "block"
        /\ \A u \in TCB \ {t} : pc'[u] = pc[u] /\ calls'[u] = calls[u]
        /\ Shape(t)' /\ Prog(t)' = "run"
        /\ \A j \in Why : (\E i \in 1..Len(calls'[t]) : calls'[t][i].why = j) <=> j = "yield"
    BY <1>2, <1>5, Called DEF Why, ProgLoc
  <1>7. Role(t)' BY <1>2, <1>3, <1>4, <1>6 DEF Role
  <1>8. GoesOn(c, t) BY <1>1, <1>2, <1>6, <1>7 DEF GoesOn, ProgLoc, sem, reaping
  <1>9. Kept(t) BY <1>8, GoingOn
  <1>10. \A k \in {"down", "wait"} : ~Asking(t, k)' BY <1>6, <1>9 DEF Why, Kept
  <1>11. Located' /\ Distinct' /\ NoIdlePermit' /\ Permitted'
    BY <1>2, <1>4, <1>6, <1>8, <1>10, NothingMoves DEF reaping
  <1>12. Types' BY <1>2, <1>6 DEF Types, sched, sem, reaping
  <1>13. NothingMissed'
    BY <1>2, <1>9, <1>10, SleepKept, ThreadsAssumption DEF reaping, TCB, Kept
  <1>. QED BY <1>9, <1>11, <1>12, <1>13 DEF Kept

\* A thread whose program is over, or an idle thread, calls block in the loop of stop.
LEMMA StopOK == ASSUME ThreadsInv, NEW c \in Core, Stop(c) PROVE ThreadsInv'
  <1>. USE DEF ThreadsInv
  <1>1. PICK t \in TCB : on[c] = t BY DEF Types
  <1>2. /\ act[c] = NoAct /\ pc[t] = "stop" /\ Call(t, "stop", "stop")
        /\ UNCHANGED <<sched, victim, readyQ, sem, reaping>>
    BY <1>1 DEF Stop, At
  <1>3. Role(t) /\ Shape(t) BY DEF Roles, Shapes
  <1>4. Len(calls[t]) = 0 /\ Prog(t) = "stop" BY <1>2, <1>3 DEF Shape, ProgLoc, Prog
  <1>5. Asks(t, Frame("stop", "stop", Nil)) BY DEF Asks, Frame, ProgLoc
  <1>6. /\ calls' \in [TCB -> Seq(FrameType)]
        /\ Len(calls'[t]) = 1 /\ calls'[t][1].why = "stop"
        /\ pc' = [pc EXCEPT ![t] = "block"] /\ pc'[t] = "block"
        /\ \A u \in TCB \ {t} : pc'[u] = pc[u] /\ calls'[u] = calls[u]
        /\ Shape(t)' /\ Prog(t)' = "stop"
        /\ \A j \in Why : (\E i \in 1..Len(calls'[t]) : calls'[t][i].why = j) <=> j = "stop"
    BY <1>2, <1>5, Called DEF Why, ProgLoc
  <1>7. Role(t)' BY <1>2, <1>3, <1>4, <1>6 DEF Role
  <1>8. GoesOn(c, t) BY <1>1, <1>2, <1>6, <1>7 DEF GoesOn, ProgLoc, sem, reaping
  <1>9. Kept(t) BY <1>8, GoingOn
  <1>10. \A k \in {"down", "wait"} : ~Asking(t, k)' BY <1>6, <1>9 DEF Why, Kept
  <1>11. Located' /\ Distinct' /\ NoIdlePermit' /\ Permitted'
    BY <1>2, <1>4, <1>6, <1>8, <1>10, NothingMoves DEF reaping
  <1>12. Types' BY <1>2, <1>6 DEF Types, sched, sem, reaping
  <1>13. NothingMissed'
    BY <1>2, <1>9, <1>10, SleepKept, ThreadsAssumption DEF reaping, TCB, Kept
  <1>. QED BY <1>9, <1>11, <1>12, <1>13 DEF Kept

\* Steps of a program that only take it to its next location.
LEMMA AdvancesOK ==
    ASSUME ThreadsInv, NEW c \in Core, NEW t \in TCB, on[c] = t, act[c] = NoAct,
           pc[t] \in {"run", "sweep", "spawn"}, NEW l \in {"run", "sweep", "stop", "spawn"},
           Goto(t, l),
           UNCHANGED <<sched, calls, victim, readyQ, sem, reaping>>
    PROVE  ThreadsInv'
  <1>. USE DEF ThreadsInv
  <1>1. /\ pc'[t] = l /\ \A u \in TCB \ {t} : pc'[u] = pc[u]
        /\ pc' \in [TCB -> ProgLoc \cup Stage \cup {"block", "unborn"}]
    BY DEF Goto, Types, ProgLoc
  <1>2. Role(t) /\ Shape(t) /\ pc[t] \in ProgLoc BY DEF Roles, Shapes, ProgLoc
  <1>3. Len(calls[t]) = 0 /\ Prog(t) = pc[t] BY <1>2 DEF Shape, Prog
  <1>4. Shape(t)' /\ Prog(t)' = l BY <1>1, <1>3 DEF Shape, ProgLoc, Stage, Prog
  <1>5. Role(t)' BY <1>2, <1>3, <1>4 DEF Role
  <1>6. GoesOn(c, t) BY <1>1, <1>2, <1>4, <1>5 DEF GoesOn, ProgLoc, sem, reaping
  <1>7. Kept(t) BY <1>6, GoingOn
  <1>8. \A k \in {"down", "wait"} : ~Asking(t, k)' BY <1>3, <1>7 DEF Kept
  <1>9. Located' /\ Distinct' /\ NoIdlePermit' /\ Permitted'
    BY <1>3, <1>4, <1>6, <1>8, NothingMoves DEF reaping
  <1>10. Types' BY <1>1 DEF Types, sched, sem, reaping
  <1>11. NothingMissed'
    BY <1>7, <1>8, SleepKept, ThreadsAssumption DEF reaping, TCB, Kept
  <1>. QED BY <1>7, <1>9, <1>10, <1>11 DEF Kept

\* A program begins to create a thread.
LEMMA SpawnOK == ASSUME ThreadsInv, NEW c \in Core, Spawn(c) PROVE ThreadsInv'
  <1>1. PICK t \in TCB : on[c] = t BY DEF ThreadsInv, Types
  <1>. QED BY <1>1, AdvancesOK DEF Spawn, Running, At

\* A program ends.
LEMMA FinishOK == ASSUME ThreadsInv, NEW c \in Core, Finish(c) PROVE ThreadsInv'
  <1>1. PICK t \in TCB : on[c] = t BY DEF ThreadsInv, Types
  <1>. QED BY <1>1, AdvancesOK DEF Finish, Running, At

\* The first look of Semaphore::down: it takes a permit or goes to block.
LEMMA DownOK == ASSUME ThreadsInv, NEW c \in Core, Down(c) PROVE ThreadsInv'
  <1>. USE DEF ThreadsInv
  <1>1. PICK t \in TCB : on[c] = t BY DEF Types
  <1>2. /\ act[c] = NoAct /\ pc[t] = "run"
        /\ UNCHANGED <<sched, victim, readyQ, waiting, reaping>>
    BY <1>1 DEF Down, Running, At
  <1>3. Role(t) /\ Shape(t) BY DEF Roles, Shapes
  <1>4. Len(calls[t]) = 0 /\ Prog(t) = "run" BY <1>2, <1>3 DEF Shape, ProgLoc, Prog
  <1>5. t \in Thread /\ t # Reaper BY <1>3, <1>4 DEF Role, TCB
  <1>6. ~In(t, waiting) BY <1>1, <1>5, Running1
  <1>7. CASE count > 0
    <2>1. /\ count' = count - 1 /\ pc' = [pc EXCEPT ![t] = "crit"] /\ UNCHANGED calls
      BY <1>1, <1>7 DEF Down, Free, Goto
    <2>2. /\ pc'[t] = "crit" /\ \A u \in TCB \ {t} : pc'[u] = pc[u]
          /\ pc' \in [TCB -> ProgLoc \cup Stage \cup {"block", "unborn"}]
      BY <2>1 DEF Types, ProgLoc
    <2>3. Shape(t)' /\ Prog(t)' = "crit"
      BY <1>4, <2>1, <2>2 DEF Shape, ProgLoc, Stage, Prog
    <2>4. Role(t)' BY <1>2, <1>3, <1>4, <1>5, <2>3, ThreadsAssumption DEF Role
    <2>5. GoesOn(c, t)
      BY <1>1, <1>2, <2>1, <2>2, <2>3, <2>4 DEF GoesOn, ProgLoc, reaping
    <2>6. Kept(t) BY <2>5, GoingOn
    <2>7. \A k \in {"down", "wait"} : ~Asking(t, k)' BY <1>4, <2>1, <2>6 DEF Kept
    <2>8. Located' /\ Distinct'
      BY <1>2, <2>6, PlacesKept DEF Kept, sched, reaping
    <2>9. Holder' = Holder \cup {t} /\ t \notin Holder
      BY <1>2, <1>4, <1>5, <1>6, <2>3, <2>6, <2>7 DEF Holder, Kept, TCB
    <2>10. IsFiniteSet(Holder') /\ Cardinality(Holder') = Cardinality(Holder) + 1
      BY <2>9, FS_AddElement DEF Permitted
    <2>11. NoIdlePermit' /\ Permitted'
      <3>1. Cardinality(Holder) \in Nat BY FS_CardinalityType DEF Permitted
      <3>. QED BY <1>2, <1>7, <2>1, <2>10, <3>1 DEF NoIdlePermit, Permitted, Types
    <2>12. Types' BY <1>2, <1>7, <2>1, <2>2 DEF Types, sched, reaping
    <2>13. NothingMissed'
      BY <1>2, <2>6, <2>7, SleepKept, ThreadsAssumption DEF reaping, TCB, Kept
    <2>. QED BY <2>6, <2>8, <2>11, <2>12, <2>13 DEF Kept
  <1>8. CASE ~(count > 0)
    <2>1. Call(t, "down", "crit") /\ UNCHANGED count BY <1>1, <1>8 DEF Down, Free
    <2>2. Asks(t, Frame("down", "crit", Nil)) BY DEF Asks, Frame, ProgLoc
    <2>3. /\ calls' \in [TCB -> Seq(FrameType)]
          /\ Len(calls'[t]) = 1
          /\ pc' = [pc EXCEPT ![t] = "block"] /\ pc'[t] = "block"
          /\ \A u \in TCB \ {t} : pc'[u] = pc[u] /\ calls'[u] = calls[u]
          /\ Shape(t)' /\ Prog(t)' = "crit"
          /\ \A j \in Why : (\E i \in 1..Len(calls'[t]) : calls'[t][i].why = j) <=> j = "down"
      BY <1>2, <2>1, <2>2, Called DEF Why, ProgLoc
    <2>4. Role(t)' BY <1>2, <1>3, <1>4, <1>5, <2>3, ThreadsAssumption DEF Role
    <2>5. GoesOn(c, t)
      BY <1>1, <1>2, <2>3, <2>4 DEF GoesOn, ProgLoc, reaping
    <2>6. Kept(t) BY <2>5, GoingOn
    <2>7. Asking(t, "down")' /\ ~Asking(t, "wait")' BY <2>3, <2>6 DEF Why, Kept
    <2>8. Located' /\ Distinct'
      BY <1>2, <2>6, PlacesKept DEF Kept, sched, reaping
    <2>9. Holder' = Holder
      BY <1>2, <1>4, <2>6, <2>7 DEF Holder, Kept, TCB
    <2>10. NoIdlePermit' /\ Permitted' BY <1>2, <2>1, <2>9 DEF NoIdlePermit, Permitted
    <2>11. Types' BY <1>2, <2>1, <2>3 DEF Types, sched, reaping
    <2>12. NothingMissed'
      BY <1>2, <2>6, <2>7, SleepKept, ThreadsAssumption DEF reaping, TCB, Kept
    <2>. QED BY <2>6, <2>8, <2>10, <2>11, <2>12 DEF Kept
  <1>. QED BY <1>7, <1>8

\* Semaphore::up hands the permit to a waiter, who then holds it, or gives it back to count.
LEMMA UpOK == ASSUME ThreadsInv, NEW c \in Core, Up(c) PROVE ThreadsInv'
  <1>. USE DEF ThreadsInv
  <1>1. PICK t \in TCB : on[c] = t BY DEF Types
  <1>2. /\ act[c] = NoAct /\ pc[t] = "crit"
        /\ UNCHANGED <<sched, calls, readyQ, reaping>>
    BY <1>1 DEF Up, At
  <1>3. Role(t) /\ Shape(t) BY DEF Roles, Shapes
  <1>4. Len(calls[t]) = 0 /\ Prog(t) = "crit" BY <1>2, <1>3 DEF Shape, ProgLoc, Prog
  <1>5. t \in Thread /\ t # Reaper /\ victim[t] = Nil BY <1>3, <1>4 DEF Role, TCB
  <1>6. ~In(t, waiting) BY <1>1, <1>5, Running1
  <1>7. CASE waiting = <<>>
    <2>1. /\ count' = count + 1 /\ pc' = [pc EXCEPT ![t] = "run"]
          /\ UNCHANGED <<waiting, victim>>
      BY <1>1, <1>7 DEF Up, Given, SomeoneWaits, Goto
    <2>2. /\ pc'[t] = "run" /\ \A u \in TCB \ {t} : pc'[u] = pc[u]
          /\ pc' \in [TCB -> ProgLoc \cup Stage \cup {"block", "unborn"}]
      BY <2>1 DEF Types, ProgLoc
    <2>3. Shape(t)' /\ Prog(t)' = "run"
      BY <1>2, <1>4, <2>2 DEF Shape, ProgLoc, Stage, Prog
    <2>4. Role(t)' BY <1>2, <1>3, <1>4, <1>5, <2>1, <2>3, ThreadsAssumption DEF Role
    <2>5. GoesOn(c, t)
      BY <1>1, <1>2, <2>1, <2>2, <2>3, <2>4 DEF GoesOn, ProgLoc, reaping
    <2>6. Kept(t) BY <2>5, GoingOn
    <2>7. \A k \in {"down", "wait"} : ~Asking(t, k) /\ ~Asking(t, k)'
      BY <1>2, <1>4, <2>6 DEF Kept
    <2>8. Located' /\ Distinct'
      BY <1>2, <2>1, <2>6, PlacesKept DEF Kept, sched, reaping
    <2>9. Holder' = Holder \ {t} /\ t \in Holder
      BY <1>4, <1>5, <1>6, <2>1, <2>3, <2>6, <2>7 DEF Holder, Kept, TCB
    <2>10. IsFiniteSet(Holder') /\ Cardinality(Holder') = Cardinality(Holder) - 1
      BY <2>9, FS_RemoveElement DEF Permitted
    <2>11. NoIdlePermit' /\ Permitted'
      <3>1. Cardinality(Holder) \in Nat BY FS_CardinalityType DEF Permitted
      <3>. QED BY <1>7, <2>1, <2>10, <3>1 DEF NoIdlePermit, Permitted, Types
    <2>12. Types' BY <1>2, <2>1, <2>2 DEF Types, sched, reaping
    <2>13. NothingMissed'
      BY <1>2, <2>6, <2>7, SleepKept, ThreadsAssumption DEF reaping, TCB, Kept
    <2>. QED BY <2>6, <2>8, <2>11, <2>12, <2>13 DEF Kept
  <1>8. CASE waiting # <<>>
    <2>1. waiting \in Seq(Thread) /\ Once(waiting) BY DEF Types, Distinct
    <2>2. PICK h \in Thread : h = Head(waiting) BY ONLY <1>8, <2>1, Removed
    <2>3. /\ count' = count /\ pc' = [pc EXCEPT ![t] = "wake"]
          /\ waiting' = Tail(waiting) /\ victim' = [victim EXCEPT ![t] = h]
      BY <1>1, <1>8, <2>2 DEF Up, Given, SomeoneWaits, Goto
    <2>4. /\ In(h, waiting) /\ waiting' \in Seq(Thread)
          /\ \A u : In(u, waiting)' <=> In(u, waiting) /\ u # h
          /\ Once(waiting')
      BY <1>8, <2>1, <2>2, <2>3, Removed
    <2>5. h # t /\ pc[h] = "crit" /\ h \in TCB
      BY <1>6, <2>4 DEF Queues, TCB
    <2>6. /\ pc'[t] = "wake" /\ \A u \in TCB \ {t} : pc'[u] = pc[u]
          /\ pc' \in [TCB -> ProgLoc \cup Stage \cup {"block", "unborn"}]
          /\ victim'[t] = h /\ \A u \in Thread \ {t} : victim'[u] = victim[u]
          /\ victim' \in [Thread -> Thread \cup {Nil}]
      BY <1>5, <2>3 DEF Types, ProgLoc
    <2>7. Shape(t)' /\ Prog(t)' = "wake"
      BY <1>2, <1>4, <2>6 DEF Shape, ProgLoc, Stage, Prog
    <2>8. Role(t)'
      <3>1. h # Nil BY ThreadsAssumption DEF TCB
      <3>. QED BY <1>2, <1>3, <1>4, <1>5, <2>5, <2>6, <2>7, <3>1, ThreadsAssumption DEF Role
    <2>9. GoesOn(c, t)
      BY <1>1, <1>2, <2>4, <2>6, <2>7, <2>8 DEF GoesOn, ProgLoc, reaping
    <2>10. Kept(t) BY <2>9, GoingOn
    <2>11. \A k \in {"down", "wait"} : ~Asking(t, k) /\ ~Asking(t, k)'
      BY <1>2, <1>4, <2>10 DEF Kept
    <2>12. PICK w \in [Thread -> Place] : Where(w) BY DEF Located
    <2>13. Lies(w, h) BY <2>12 DEF Where
    <2>14. ~Asking(h, "down")
      <3>1. Len(calls[h]) = 0 BY <2>5 DEF Shapes, Shape, ProgLoc
      <3>2. \A d \in Core : act[d].who # h BY <2>4, <2>13 DEF Lies
      <3>. QED BY <3>1, <3>2 DEF Asking
    <2>15. Prog(h) = "crit" BY <2>5 DEF Shapes, Shape, ProgLoc, Prog
    <2>16. Holder' = (Holder \ {t}) \cup {h} /\ t \in Holder /\ h \notin Holder
      BY <1>4, <1>5, <1>6, <2>4, <2>5, <2>7, <2>10, <2>11, <2>14, <2>15 DEF Holder, Kept, TCB
    <2>17. IsFiniteSet(Holder') /\ Cardinality(Holder') = Cardinality(Holder)
      <3>1. PICK H : H = Holder \ {t} OBVIOUS
      <3>2. IsFiniteSet(H) /\ Cardinality(H) = Cardinality(Holder) - 1
        BY <2>16, <3>1, FS_RemoveElement DEF Permitted
      <3>3. Holder' = H \cup {h} /\ h \notin H BY <2>16, <3>1
      <3>4. IsFiniteSet(H \cup {h}) /\ Cardinality(H \cup {h}) = Cardinality(H) + 1
        BY <3>2, <3>3, FS_AddElement
      <3>5. Cardinality(Holder) \in Nat BY FS_CardinalityType DEF Permitted
      <3>. QED BY <3>2, <3>3, <3>4, <3>5
    <2>18. NoIdlePermit' /\ Permitted'
      BY <1>8, <2>3, <2>17 DEF NoIdlePermit, Permitted
    <2>19. PICK x : x = [w EXCEPT ![h] = <<"held", t>>] OBVIOUS
    <2>20. x \in [Thread -> Place] BY <1>5, <2>12, <2>19 DEF Place
    <2>21. ASSUME NEW u \in Thread PROVE Lies(x, u)'
      <3>1. Lies(w, u) BY <2>12 DEF Where
      <3>2. u # Nil /\ x[u] = IF u = h THEN <<"held", t>> ELSE w[u]
        BY <2>12, <2>19, ThreadsAssumption DEF TCB
      <3>3. UNCHANGED <<on, act, readyQ, sleepers, zombies>> BY <1>2 DEF sched, reaping
      <3>4. CASE u = h
        BY <1>5, <2>4, <2>5, <2>6, <2>10, <2>13, <3>2, <3>3, <3>4 DEF Lies, Kept
      <3>5. CASE u # h
        BY <1>5, <2>4, <2>5, <2>6, <2>10, <3>1, <3>2, <3>3, <3>5 DEF Lies, Kept
      <3>. QED BY <3>4, <3>5
    <2>22. Located' BY <2>20, <2>21 DEF Located, Where
    <2>23. Distinct' BY <1>2, <2>4 DEF Distinct, reaping
    <2>24. Types' BY <1>2, <2>3, <2>4, <2>6 DEF Types, sched, reaping
    <2>25. NothingMissed'
      BY <1>2, <2>10, <2>11, SleepKept, ThreadsAssumption DEF reaping, TCB, Kept
    <2>. QED BY <2>10, <2>18, <2>22, <2>23, <2>24, <2>25 DEF Kept
  <1>. QED BY <1>7, <1>8

\* The waiter that up has chosen becomes ready, from the hands of the thread that chose it.
LEMMA WakeOK == ASSUME ThreadsInv, NEW c \in Core, Wake(c) PROVE ThreadsInv'
  <1>. USE DEF ThreadsInv
  <1>1. PICK t \in TCB : on[c] = t BY DEF Types
  <1>2. /\ act[c] = NoAct /\ pc[t] = "wake" /\ pc' = [pc EXCEPT ![t] = "run"]
        /\ victim' = [victim EXCEPT ![t] = Nil]
        /\ UNCHANGED <<sched, calls, sem, reaping>>
    BY <1>1 DEF Wake, At, Goto
  <1>3. Role(t) /\ Shape(t) BY DEF Roles, Shapes
  <1>4. Len(calls[t]) = 0 /\ Prog(t) = "wake" BY <1>2, <1>3 DEF Shape, ProgLoc, Prog
  <1>5. t \in Thread /\ t # Reaper /\ victim[t] # Nil /\ pc[victim[t]] = "crit"
    BY <1>3, <1>4 DEF Role, TCB
  <1>6. PICK h \in Thread : h = victim[t] BY <1>5 DEF Types
  <1>7. h # t /\ readyQ' = Append(readyQ, h)
    BY <1>1, <1>2, <1>5, <1>6, ThreadsAssumption DEF Wake, Scheduled
  <1>8. PICK w \in [Thread -> Place] : Where(w) BY DEF Located
  <1>9. Lies(w, h) BY <1>8 DEF Where
  <1>10. ~In(h, readyQ) BY <1>5, <1>6, <1>9 DEF Lies
  <1>11. /\ readyQ' \in Seq(Thread) /\ Once(readyQ')
         /\ \A u : In(u, readyQ)' <=> In(u, readyQ) \/ u = h
    BY <1>7, <1>10, Added DEF Types, Distinct
  <1>12. /\ pc'[t] = "run" /\ \A u \in TCB \ {t} : pc'[u] = pc[u]
         /\ pc' \in [TCB -> ProgLoc \cup Stage \cup {"block", "unborn"}]
         /\ victim'[t] = Nil /\ \A u \in Thread \ {t} : victim'[u] = victim[u]
         /\ victim' \in [Thread -> Thread \cup {Nil}]
    BY <1>2, <1>5 DEF Types, ProgLoc
  <1>13. Shape(t)' /\ Prog(t)' = "run"
    BY <1>2, <1>4, <1>12 DEF Shape, ProgLoc, Stage, Prog
  <1>14. Role(t)' BY <1>2, <1>3, <1>4, <1>5, <1>12, <1>13, ThreadsAssumption DEF Role
  <1>15. GoesOn(c, t)
    BY <1>1, <1>2, <1>12, <1>13, <1>14 DEF GoesOn, ProgLoc, sem, reaping
  <1>16. Kept(t) BY <1>15, GoingOn
  <1>17. \A k \in {"down", "wait"} : ~Asking(t, k) /\ ~Asking(t, k)'
    BY <1>2, <1>4, <1>16 DEF Kept
  <1>18. NoIdlePermit' /\ Permitted'
    <2>1. \A u \in Thread : Prog(u)' = "crit" <=> Prog(u) = "crit"
      BY <1>4, <1>13, <1>16 DEF Kept, TCB
    <2>2. \A u \in Thread : Prog(u) = "crit" => (Asking(u, "down")' <=> Asking(u, "down"))
      BY <1>16, <1>17 DEF Kept, TCB
    <2>. QED BY <1>2, <2>1, <2>2, PermitsKept DEF sem
  <1>19. PICK x : x = [w EXCEPT ![h] = <<"ready", Nil>>] OBVIOUS
  <1>20. x \in [Thread -> Place] BY <1>8, <1>19 DEF Place
  <1>21. ASSUME NEW u \in Thread PROVE Lies(x, u)'
    <2>1. Lies(w, u) BY <1>8 DEF Where
    <2>2. u # Nil /\ x[u] = IF u = h THEN <<"ready", Nil>> ELSE w[u]
      BY <1>8, <1>19, ThreadsAssumption DEF TCB
    <2>3. UNCHANGED <<on, act, waiting, sleepers, zombies>> BY <1>2 DEF sched, sem, reaping
    <2>4. CASE u = h
      BY <1>5, <1>6, <1>9, <1>11, <1>12, <1>16, <2>2, <2>3, <2>4 DEF Lies, Kept
    <2>5. CASE u # h
      BY <1>5, <1>6, <1>11, <1>12, <1>16, <2>1, <2>2, <2>3, <2>5 DEF Lies, Kept
    <2>. QED BY <2>4, <2>5
  <1>22. Located' BY <1>20, <1>21 DEF Located, Where
  <1>23. Distinct' BY <1>2, <1>11 DEF Distinct, sem, reaping
  <1>24. Types' BY <1>2, <1>11, <1>12 DEF Types, sched, sem, reaping
  <1>25. NothingMissed'
    BY <1>2, <1>16, <1>17, SleepKept, ThreadsAssumption DEF reaping, TCB, Kept
  <1>. QED BY <1>16, <1>18, <1>22, <1>23, <1>24, <1>25 DEF Kept

\* A thread takes the first zombie, to delete it.
LEMMA TakenOK ==
    ASSUME ThreadsInv, NEW c \in Core, NEW t \in Thread, on[c] = t, act[c] = NoAct,
           pc[t] \in {"sweep", "reap"}, zombies # <<>>, zombies' = Tail(zombies),
           victim' = [victim EXCEPT ![t] = Head(zombies)], Goto(t, "bury"),
           UNCHANGED <<sched, calls, readyQ, sem, sleepers, signalled>>
    PROVE  ThreadsInv'
  <1>. USE DEF ThreadsInv
  <1>1. zombies \in Seq(Thread) /\ Once(zombies) BY DEF Types, Distinct
  <1>2. PICK h \in Thread : h = Head(zombies) BY ONLY zombies # <<>>, <1>1, Removed
  <1>3. /\ In(h, zombies) /\ zombies' \in Seq(Thread)
        /\ \A u : In(u, zombies)' <=> In(u, zombies) /\ u # h
        /\ Once(zombies')
    BY <1>1, <1>2, Removed
  <1>4. t \in TCB /\ h \in TCB /\ h # Nil /\ h # t /\ pc[h] = "stop"
    BY <1>3, ThreadsAssumption DEF Queues, TCB
  <1>5. Role(t) /\ Shape(t) BY <1>4 DEF Roles, Shapes
  <1>6. Len(calls[t]) = 0 /\ Prog(t) = pc[t] BY <1>5 DEF Shape, ProgLoc, Prog
  <1>7. victim[t] = Nil BY <1>5, <1>6 DEF Role
  <1>8. /\ pc'[t] = "bury" /\ \A u \in TCB \ {t} : pc'[u] = pc[u]
        /\ pc' \in [TCB -> ProgLoc \cup Stage \cup {"block", "unborn"}]
        /\ victim'[t] = h /\ \A u \in Thread \ {t} : victim'[u] = victim[u]
        /\ victim' \in [Thread -> Thread \cup {Nil}]
    BY <1>2, <1>4 DEF Goto, Types, ProgLoc
  <1>9. Shape(t)' /\ Prog(t)' = "bury"
    BY <1>4, <1>6, <1>8 DEF Shape, ProgLoc, Stage, Prog
  <1>10. Role(t)' BY <1>4, <1>5, <1>6, <1>8, <1>9, ThreadsAssumption DEF Role
  <1>11. GoesOn(c, t)
    BY <1>3, <1>8, <1>9, <1>10 DEF GoesOn, ProgLoc, sem
  <1>12. Kept(t) BY <1>4, <1>11, GoingOn
  <1>13. \A k \in {"down", "wait"} : ~Asking(t, k) /\ ~Asking(t, k)'
    BY <1>6, <1>12 DEF Kept
  <1>14. NoIdlePermit' /\ Permitted'
    <2>1. \A u \in Thread : Prog(u)' = "crit" <=> Prog(u) = "crit"
      BY <1>6, <1>9, <1>12 DEF Kept, TCB
    <2>2. \A u \in Thread : Prog(u) = "crit" => (Asking(u, "down")' <=> Asking(u, "down"))
      BY <1>12, <1>13 DEF Kept, TCB
    <2>. QED BY <2>1, <2>2, PermitsKept DEF sem
  <1>15. PICK w \in [Thread -> Place] : Where(w) BY DEF Located
  <1>16. Lies(w, h) BY <1>15 DEF Where
  <1>17. PICK x : x = [w EXCEPT ![h] = <<"held", t>>] OBVIOUS
  <1>18. x \in [Thread -> Place] BY <1>4, <1>15, <1>17 DEF Place
  <1>19. ASSUME NEW u \in Thread PROVE Lies(x, u)'
    <2>1. Lies(w, u) BY <1>15 DEF Where
    <2>2. u # Nil /\ x[u] = IF u = h THEN <<"held", t>> ELSE w[u]
      BY <1>15, <1>17, ThreadsAssumption DEF TCB
    <2>3. UNCHANGED <<on, act, waiting, readyQ, sleepers>> BY DEF sched, sem
    <2>4. CASE u = h
      BY <1>3, <1>7, <1>8, <1>12, <1>16, <2>2, <2>3, <2>4 DEF Lies, Kept
    <2>5. CASE u # h
      BY <1>3, <1>7, <1>8, <1>12, <2>1, <2>2, <2>3, <2>5 DEF Lies, Kept
    <2>. QED BY <2>4, <2>5
  <1>20. Located' BY <1>18, <1>19 DEF Located, Where
  <1>21. Distinct' BY <1>3 DEF Distinct, sem
  <1>22. Types' BY <1>3, <1>8 DEF Types, sched, sem
  <1>23. NothingMissed'
    <2>1. Asking(Reaper, "wait")' <=> Asking(Reaper, "wait")
      BY <1>12, <1>13, ThreadsAssumption DEF Kept, TCB
    <2>. QED BY <2>1 DEF NothingMissed, NoMissedNotify
  <1>. QED BY <1>12, <1>14, <1>20, <1>21, <1>22, <1>23 DEF Kept

\* delete_zombies takes a zombie or is done.
LEMMA SweepOK == ASSUME ThreadsInv, NEW c \in Core, Sweep(c) PROVE ThreadsInv'
  <1>1. PICK t \in TCB : on[c] = t BY DEF ThreadsInv, Types
  <1>2. /\ act[c] = NoAct /\ pc[t] = "sweep"
        /\ UNCHANGED <<sched, calls, readyQ, sem, sleepers, signalled>>
    BY <1>1 DEF Sweep, At
  <1>3. CASE zombies = <<>>
    <2>1. Goto(t, "spawn") /\ UNCHANGED <<victim, reaping>>
      BY <1>1, <1>2, <1>3 DEF Sweep, reaping
    <2>. QED BY <1>1, <1>2, <2>1, AdvancesOK
  <1>4. CASE zombies # <<>>
    <2>1. /\ zombies' = Tail(zombies) /\ Goto(t, "bury")
          /\ victim' = [victim EXCEPT ![t] = Head(zombies)]
      BY <1>1, <1>4 DEF Sweep
    <2>2. t \in Thread
      <3>1. Role(t) /\ Shape(t) BY DEF ThreadsInv, Roles, Shapes
      <3>2. Prog(t) = "sweep" BY <1>2, <3>1 DEF Shape, ProgLoc, Prog
      <3>. QED BY <3>1, <3>2 DEF Role, TCB
    <2>. QED BY <1>1, <1>2, <1>4, <2>1, <2>2, TakenOK
  <1>. QED BY <1>3, <1>4

\* The reaper takes a zombie, or remembers the epoch and waits.
LEMMA ReapOK == ASSUME ThreadsInv, NEW c \in Core, Reap(c) PROVE ThreadsInv'
  <1>. USE DEF ThreadsInv
  <1>1. PICK t \in TCB : on[c] = t BY DEF Types
  <1>2. /\ act[c] = NoAct /\ pc[t] = "reap"
        /\ UNCHANGED <<sched, readyQ, sem, sleepers>>
    BY <1>1 DEF Reap, At
  <1>3. Role(t) /\ Shape(t) BY DEF Roles, Shapes
  <1>4. Len(calls[t]) = 0 /\ Prog(t) = "reap" BY <1>2, <1>3 DEF Shape, ProgLoc, Prog
  <1>5. t = Reaper /\ t \in Thread BY <1>3, <1>4, ThreadsAssumption DEF Role
  <1>6. CASE zombies # <<>>
    <2>1. /\ zombies' = Tail(zombies) /\ Goto(t, "bury")
          /\ victim' = [victim EXCEPT ![t] = Head(zombies)]
          /\ UNCHANGED <<calls, signalled>>
      BY <1>5, <1>6 DEF Reap
    <2>. QED BY <1>1, <1>2, <1>5, <1>6, <2>1, TakenOK
  <1>7. CASE zombies = <<>>
    <2>1. Call(t, "wait", "reap") /\ UNCHANGED <<zombies, victim>> /\ signalled' = FALSE
      BY <1>5, <1>7 DEF Reap
    <2>2. Asks(t, Frame("wait", "reap", Nil)) BY <1>5 DEF Asks, Frame, ProgLoc
    <2>3. /\ calls' \in [TCB -> Seq(FrameType)]
          /\ Len(calls'[t]) = 1
          /\ pc' = [pc EXCEPT ![t] = "block"] /\ pc'[t] = "block"
          /\ \A u \in TCB \ {t} : pc'[u] = pc[u] /\ calls'[u] = calls[u]
          /\ Shape(t)' /\ Prog(t)' = "reap"
          /\ \A j \in Why : (\E i \in 1..Len(calls'[t]) : calls'[t][i].why = j) <=> j = "wait"
      BY <1>2, <2>1, <2>2, Called DEF Why, ProgLoc
    <2>4. Role(t)' BY <1>2, <1>3, <1>4, <1>5, <2>1, <2>3, ThreadsAssumption DEF Role
    <2>5. GoesOn(c, t) BY <1>1, <1>2, <2>1, <2>3, <2>4 DEF GoesOn, ProgLoc, sem
    <2>6. Kept(t) BY <2>5, GoingOn
    <2>7. ~Asking(t, "down")' BY <2>3, <2>6 DEF Why, Kept
    <2>8. Located' /\ Distinct' /\ NoIdlePermit' /\ Permitted'
      BY <1>2, <1>4, <2>1, <2>3, <2>5, <2>7, NothingMoves
    <2>9. Types' BY <1>2, <2>1, <2>3 DEF Types, sched, sem
    <2>10. NothingMissed' BY <1>7, <2>1 DEF NothingMissed, NoMissedNotify
    <2>. QED BY <2>6, <2>8, <2>9, <2>10 DEF Kept
  <1>. QED BY <1>6, <1>7

\* Thread u can be reached only by t, which has it in hand, or does not exist.
Aside(u, t) ==
    /\ ~In(u, waiting) /\ ~In(u, sleepers) /\ ~In(u, zombies)
    /\ \A d \in Core : act[d].who # u /\ on[d] # u
    /\ \A v \in Thread \ {t} : victim[v] # u

\* A thread t, on core c, makes or deletes another thread u.
LEMMA MadeOrDeleted ==
    ASSUME ThreadsInv, NEW c \in Core, NEW t \in Thread, NEW u \in Thread, t # u,
           on[c] = t, act[c] = NoAct, Aside(u, t),
           UNCHANGED <<sched, calls, sem, reaping>>,
           pc' \in [TCB -> ProgLoc \cup Stage \cup {"block", "unborn"}],
           \A v \in TCB \ {t, u} : pc'[v] = pc[v],
           pc[t] \in {"spawn", "bury"}, pc'[t] \in {"run", "sweep", "reap"},
           pc'[t] = "reap" <=> t = Reaper,
           (pc[u] = "unborn" /\ pc'[u] = "run") \/ (pc[u] = "stop" /\ pc'[u] = "unborn"),
           \A v \in Thread \ {t} : victim'[v] = victim[v], victim'[t] = Nil
    PROVE  /\ Shapes' /\ Roles' /\ AskedFor' /\ Queues' /\ Cores' /\ OnlyOnCores'
           /\ NoIdlePermit' /\ Permitted' /\ NothingMissed'
           /\ \A v \in TCB : Target(v)' = Target(v)
  <1>. USE DEF ThreadsInv
  <1>1. t \in TCB /\ u \in TCB /\ t \notin Core /\ u \notin Core
    BY ThreadsAssumption DEF TCB
  <1>2. Shape(t) /\ Shape(u) /\ Role(t) /\ Role(u) BY <1>1 DEF Shapes, Roles
  <1>3. Len(calls[t]) = 0 /\ Len(calls[u]) = 0 BY <1>2 DEF Shape, ProgLoc
  <1>4. /\ Prog(t) = pc[t] /\ Prog(u) = pc[u]
        /\ Prog(t)' = pc'[t] /\ Prog(u)' = pc'[u]
        /\ \A v \in TCB \ {t, u} : Prog(v)' = Prog(v)
    BY <1>3 DEF Prog
  <1>5. u # Reaper BY <1>2, <1>4 DEF Role
  <1>6. Shapes'
    <2>. SUFFICES ASSUME NEW v \in TCB PROVE Shape(v)' BY DEF Shapes
    <2>1. Shape(v) BY DEF Shapes
    <2>2. CASE v \in {t, u} BY <1>3, <2>2 DEF Shape, ProgLoc, Stage
    <2>3. CASE v \notin {t, u} BY <2>1, <2>3 DEF Shape, Fresh, Asks
    <2>. QED BY <2>2, <2>3
  <1>7. Roles'
    <2>. SUFFICES ASSUME NEW v \in TCB PROVE Role(v)' BY DEF Roles
    <2>1. Role(v) BY DEF Roles
    <2>2. CASE v = t BY <1>1, <1>2, <1>4, <2>2 DEF Role
    <2>3. CASE v = u BY <1>1, <1>2, <1>4, <1>5, <2>3 DEF Role
    <2>4. CASE v \notin {t, u}
      <3>1. v \in Thread /\ victim[v] # Nil =>
              /\ victim[v] \in TCB \ {t, u}
              /\ victim'[v] = victim[v]
        BY <2>4, Running1 DEF Aside, Types, TCB
      <3>. QED BY <1>4, <2>1, <2>4, <3>1 DEF Role, TCB
    <2>. QED BY <2>2, <2>3, <2>4
  <1>8. AskedFor'
    <2>. SUFFICES ASSUME NEW d \in Core, act[d].who # Nil
                  PROVE  pc'[act[d].who] = pc[act[d].who]
      BY DEF AskedFor, NoAct, sched
    <2>1. act[d].who \in TCB /\ act[d].who # t
      BY ThreadsAssumption, Running1 DEF Cores, CoreOK, Mine, TCB, NoAct
    <2>. QED BY <2>1 DEF Aside
  <1>9. Queues'
    <2>. SUFFICES ASSUME NEW v \in Thread
                  PROVE  /\ In(v, waiting) => pc'[v] = "crit"
                         /\ In(v, sleepers) => v = Reaper
                         /\ In(v, zombies) => pc'[v] = "stop"
      BY DEF Queues, sem, reaping
    <2>1. In(v, waiting) \/ In(v, zombies) => v \notin {t, u} BY Running1 DEF Aside
    <2>2. v \notin {t, u} => pc'[v] = pc[v] BY DEF TCB
    <2>. QED BY <2>1, <2>2 DEF Queues
  <1>10. Cores' /\ OnlyOnCores'
    <2>1. \A v \in TCB : pc'[v] \in Stage \/ pc[v] \in Stage =>
                           pc'[v] = pc[v] /\ calls'[v][1] = calls[v][1]
      BY DEF Stage
    <2>. QED BY <2>1, CoresKept DEF sched
  <1>11. \A v \in TCB, k \in {"down", "wait"} : Asking(v, k)' <=> Asking(v, k)
    BY DEF Asking, sched
  <1>12. NoIdlePermit' /\ Permitted'
    BY <1>1, <1>4, <1>11, PermitsKept DEF sem, TCB
  <1>13. NothingMissed' BY <1>11, SleepKept, ThreadsAssumption DEF reaping, TCB
  <1>14. \A v \in TCB : Target(v)' = Target(v) BY DEF Target, Chosen
  <1>. QED BY <1>6, <1>7, <1>8, <1>9, <1>10, <1>12, <1>13, <1>14

\* The thread that is deleted is reachable only from the hands of the one that deletes it.
LEMMA BuryOK == ASSUME ThreadsInv, NEW c \in Core, Bury(c) PROVE ThreadsInv'
  <1>. USE DEF ThreadsInv
  <1>1. PICK t \in TCB : on[c] = t BY DEF Types
  <1>2. /\ act[c] = NoAct /\ pc[t] = "bury"
        /\ UNCHANGED <<sched, readyQ, sem, reaping>>
    BY <1>1 DEF Bury, At
  <1>3. Role(t) /\ Shape(t) BY DEF Roles, Shapes
  <1>4. Len(calls[t]) = 0 /\ Prog(t) = "bury" BY <1>2, <1>3 DEF Shape, ProgLoc, Prog
  <1>5. t \in Thread /\ victim[t] # Nil /\ pc[victim[t]] = "stop"
    BY <1>3, <1>4 DEF Role, TCB
  <1>6. PICK h \in Thread : h = victim[t] BY <1>5 DEF Types
  <1>7. h # t /\ h \in TCB BY <1>2, <1>5, <1>6 DEF TCB
  <1>8. PICK l \in {"reap", "sweep"} : l = IF t = Reaper THEN "reap" ELSE "sweep" OBVIOUS
  <1>9. /\ pc' = [pc EXCEPT ![h] = "unborn", ![t] = l]
        /\ calls' = [calls EXCEPT ![h] = <<>>]
        /\ victim' = [victim EXCEPT ![t] = Nil]
    BY <1>1, <1>6, <1>8 DEF Bury
  <1>10. /\ pc'[h] = "unborn" /\ pc'[t] = l
         /\ \A v \in TCB \ {t, h} : pc'[v] = pc[v]
         /\ pc' \in [TCB -> ProgLoc \cup Stage \cup {"block", "unborn"}]
         /\ victim'[t] = Nil /\ \A v \in Thread \ {t} : victim'[v] = victim[v]
         /\ victim' \in [Thread -> Thread \cup {Nil}]
    BY <1>5, <1>7, <1>9 DEF Types, ProgLoc
  <1>11. UNCHANGED calls
    <2>1. calls[h] \in Seq(FrameType) /\ Len(calls[h]) = 0
      BY <1>5, <1>6, <1>7 DEF Shapes, Shape, ProgLoc, Types
    <2>2. calls[h] = <<>> BY <2>1
    <2>. QED BY <1>7, <1>9, <2>2 DEF Types
  <1>12. PICK w \in [Thread -> Place] : Where(w) BY DEF Located
  <1>13. Lies(w, h) BY <1>12 DEF Where
  <1>14. Aside(h, t) BY <1>5, <1>6, <1>13 DEF Lies, Aside
  <1>15. /\ Shapes' /\ Roles' /\ AskedFor' /\ Queues' /\ Cores' /\ OnlyOnCores'
         /\ NoIdlePermit' /\ Permitted' /\ NothingMissed'
         /\ \A v \in TCB : Target(v)' = Target(v)
    BY <1>1, <1>2, <1>5, <1>6, <1>7, <1>8, <1>10, <1>11, <1>14, MadeOrDeleted
  <1>16. PICK x : x = [w EXCEPT ![h] = <<"nowhere", Nil>>] OBVIOUS
  <1>17. x \in [Thread -> Place] BY <1>12, <1>16 DEF Place
  <1>18. ASSUME NEW u \in Thread PROVE Lies(x, u)'
    <2>1. Lies(w, u) BY <1>12 DEF Where
    <2>2. u # Nil /\ x[u] = IF u = h THEN <<"nowhere", Nil>> ELSE w[u]
      BY <1>12, <1>16, ThreadsAssumption DEF TCB
    <2>3. UNCHANGED <<on, act, readyQ, waiting, sleepers, zombies>>
      BY <1>2 DEF sched, sem, reaping
    <2>4. CASE u = h
      BY <1>5, <1>6, <1>10, <1>13, <1>15, <2>2, <2>3, <2>4 DEF Lies
    <2>5. CASE u # h
      <3>1. pc'[u] = "unborn" <=> pc[u] = "unborn" BY <1>2, <1>8, <1>10, <2>5 DEF TCB
      <3>. QED BY <1>5, <1>6, <1>10, <1>15, <2>1, <2>2, <2>3, <2>5, <3>1 DEF Lies
    <2>. QED BY <2>4, <2>5
  <1>19. Located' BY <1>17, <1>18 DEF Located, Where
  <1>20. Distinct' BY <1>2 DEF Distinct, sem, reaping
  <1>21. Types' BY <1>2, <1>10, <1>11 DEF Types, sched, sem, reaping
  <1>. QED BY <1>15, <1>19, <1>20, <1>21

\* A thread that did not exist, and so is nowhere, becomes ready.
LEMMA CreateOK == ASSUME ThreadsInv, NEW c \in Core, Create(c) PROVE ThreadsInv'
  <1>. USE DEF ThreadsInv
  <1>1. PICK t \in TCB : on[c] = t BY DEF Types
  <1>2. /\ act[c] = NoAct /\ pc[t] = "spawn"
        /\ UNCHANGED <<sched, calls, victim, sem, reaping>>
    BY <1>1 DEF Create, At
  <1>3. Role(t) /\ Shape(t) BY DEF Roles, Shapes
  <1>4. Len(calls[t]) = 0 /\ Prog(t) = "spawn" BY <1>2, <1>3 DEF Shape, ProgLoc, Prog
  <1>5. t \in Thread /\ t # Reaper /\ victim[t] = Nil BY <1>3, <1>4 DEF Role, TCB
  <1>6. CASE Goto(t, "run") /\ UNCHANGED readyQ BY <1>1, <1>2, <1>6, AdvancesOK
  <1>7. ASSUME NEW h \in Thread, pc[h] = "unborn",
               pc' = [pc EXCEPT ![h] = "run", ![t] = "run"], readyQ' = Scheduled(readyQ, h)
        PROVE  ThreadsInv'
    <2>1. h # t /\ h \in TCB /\ readyQ' = Append(readyQ, h)
      BY <1>2, <1>7, ThreadsAssumption DEF TCB, Scheduled
    <2>2. PICK w \in [Thread -> Place] : Where(w) BY DEF Located
    <2>3. Lies(w, h) BY <2>2 DEF Where
    <2>4. Aside(h, t) /\ ~In(h, readyQ) BY <1>7, <2>3 DEF Lies, Aside
    <2>5. /\ readyQ' \in Seq(Thread) /\ Once(readyQ')
          /\ \A u : In(u, readyQ)' <=> In(u, readyQ) \/ u = h
      BY <2>1, <2>4, Added DEF Types, Distinct
    <2>6. /\ pc'[h] = "run" /\ pc'[t] = "run"
          /\ \A v \in TCB \ {t, h} : pc'[v] = pc[v]
          /\ pc' \in [TCB -> ProgLoc \cup Stage \cup {"block", "unborn"}]
      BY <1>7, <2>1 DEF Types, ProgLoc
    <2>7. /\ Shapes' /\ Roles' /\ AskedFor' /\ Queues' /\ Cores' /\ OnlyOnCores'
          /\ NoIdlePermit' /\ Permitted' /\ NothingMissed'
          /\ \A v \in TCB : Target(v)' = Target(v)
      BY <1>1, <1>2, <1>5, <1>7, <2>1, <2>4, <2>6, MadeOrDeleted
    <2>8. PICK x : x = [w EXCEPT ![h] = <<"ready", Nil>>] OBVIOUS
    <2>9. x \in [Thread -> Place] BY <2>2, <2>8 DEF Place
    <2>10. ASSUME NEW u \in Thread PROVE Lies(x, u)'
      <3>1. Lies(w, u) BY <2>2 DEF Where
      <3>2. u # Nil /\ x[u] = IF u = h THEN <<"ready", Nil>> ELSE w[u]
        BY <2>2, <2>8, ThreadsAssumption DEF TCB
      <3>3. UNCHANGED <<on, act, victim, waiting, sleepers, zombies>>
        BY <1>2 DEF sched, sem, reaping
      <3>4. CASE u = h
        BY <1>7, <2>3, <2>5, <2>6, <2>7, <3>2, <3>3, <3>4 DEF Lies
      <3>5. CASE u # h
        <4>1. pc'[u] = "unborn" <=> pc[u] = "unborn" BY <1>2, <2>6, <3>5 DEF TCB
        <4>. QED BY <2>5, <2>7, <3>1, <3>2, <3>3, <3>5, <4>1 DEF Lies
      <3>. QED BY <3>4, <3>5
    <2>11. Located' BY <2>9, <2>10 DEF Located, Where
    <2>12. Distinct' BY <1>2, <2>5 DEF Distinct, sem, reaping
    <2>13. Types' BY <1>2, <2>5, <2>6 DEF Types, sched, sem, reaping
    <2>. QED BY <2>7, <2>11, <2>12, <2>13
  <1>. QED BY <1>1, <1>6, <1>7 DEF Create

\* The timer interrupts only a thread that is not in block(), on the core the kernel believes
\* to run it.
LEMMA TickOK == ASSUME ThreadsInv, NEW c \in Core, Tick(c) PROVE ThreadsInv'
  <1>. USE DEF ThreadsInv
  <1>1. PICK t \in TCB : on[c] = t BY DEF Types
  <1>2. /\ act[c] = NoAct /\ activeThreads[c] \notin Core /\ ~no_preempt[activeThreads[c]]
        /\ no_preempt' = [no_preempt EXCEPT ![activeThreads[c]] = TRUE]
        /\ pc' = [pc EXCEPT ![t] = "pick"]
        /\ UNCHANGED <<on, activeThreads, cr3, act, victim, readyQ, sem, reaping>>
    BY <1>1 DEF Tick, Interruptible, Goto
  <1>3. Shape(t) /\ Role(t) /\ CoreOK(c) BY DEF Shapes, Roles, Cores
  <1>4. activeThreads[c] = t /\ pc[t] \notin Stage
    BY <1>1, <1>2, <1>3 DEF CoreOK, Stage, Chosen
  <1>5. t \in Thread /\ t \notin Core BY <1>2, <1>4 DEF TCB
  <1>6. pc[t] # "unborn" BY <1>1, <1>5, Running1
  <1>7. pc[t] \in ProgLoc \cup {"block"} BY <1>4, <1>6 DEF Types
  <1>8. PICK f : f = Frame("tick", pc[t], c) OBVIOUS
  <1>9. f \in FrameType /\ f.why = "tick" /\ f.back = pc[t] /\ f.next = Nil /\ f.core = c
    BY <1>7, <1>8 DEF Frame, FrameType, Why
  <1>10. calls' = [calls EXCEPT ![t] = <<f>> \o @] BY <1>1, <1>8 DEF Tick
  <1>11. /\ calls' \in [TCB -> Seq(FrameType)]
         /\ Len(calls'[t]) = Len(calls[t]) + 1 /\ calls'[t][1] = f
         /\ \A i \in 1..Len(calls[t]) : calls'[t][i + 1] = calls[t][i]
         /\ \A u \in TCB \ {t} : calls'[u] = calls[u]
    <2>1. Types OBVIOUS
    <2>. QED BY ONLY <1>9, <1>10, <2>1, t \in TCB, Pushes, Zenon
  <1>12. /\ pc'[t] = "pick" /\ \A u \in TCB \ {t} : pc'[u] = pc[u]
         /\ pc' \in [TCB -> ProgLoc \cup Stage \cup {"block", "unborn"}]
    BY <1>2 DEF Types, Stage
  <1>13. \/ Len(calls[t]) = 0 /\ pc[t] \in ProgLoc
         \/ Len(calls[t]) = 1 /\ pc[t] = "block" /\ Fresh(t, calls[t][1])
    BY <1>3, <1>7 DEF Shape
  <1>14. Shape(t)' /\ Prog(t)' = Prog(t)
    <2>1. CASE Len(calls[t]) = 0 /\ pc[t] \in ProgLoc
      <3>1. Asks(t, f) BY <1>9, <2>1 DEF Asks
      <3>. QED BY <1>9, <1>11, <1>12, <2>1, <3>1 DEF Shape, Asks, ProgLoc, Stage, Prog
    <2>2. CASE Len(calls[t]) = 1 /\ pc[t] = "block" /\ Fresh(t, calls[t][1])
      <3>1. calls'[t][2] = calls[t][1] /\ Len(calls'[t]) = 2 BY <1>11, <2>2
      <3>. QED BY <1>9, <1>11, <1>12, <2>2, <3>1 DEF Shape, Fresh, Asks, ProgLoc, Stage, Prog
    <2>. QED BY <1>13, <2>1, <2>2
  <1>15. \A u \in TCB : Prog(u)' = Prog(u) BY <1>11, <1>12, <1>14 DEF Prog
  <1>16. \A u \in TCB, k \in {"down", "wait"} : Asking(u, k)' <=> Asking(u, k)
    <2>. SUFFICES ASSUME NEW u \in TCB, NEW k \in {"down", "wait"}
                  PROVE  Asking(u, k)' <=> Asking(u, k)
      OBVIOUS
    <2>1. CASE u # t
      <3>1. calls'[u] = calls[u] /\ act' = act BY <1>2, <1>11, <2>1
      <3>. QED BY <3>1 DEF Asking
    <2>2. (\E i \in 1..Len(calls'[t]) : calls'[t][i].why = k)
            <=> (\E i \in 1..Len(calls[t]) : calls[t][i].why = k)
      <3>1. CASE Len(calls[t]) = 0 BY <1>9, <1>11, <3>1
      <3>2. CASE Len(calls[t]) = 1
        <4>1. calls'[t][2] = calls[t][1] /\ Len(calls'[t]) = 2 BY <1>11, <3>2
        <4>. QED BY <1>9, <1>11, <3>2, <4>1
      <3>. QED BY <1>13, <3>1, <3>2
    <2>3. CASE u = t
      <3>1. act' = act BY <1>2
      <3>. QED BY <2>2, <2>3, <3>1 DEF Asking
    <2>. QED BY <2>1, <2>3
  <1>17. Role(t)'
    <2>1. victim[t] # Nil => victim[t] \in Thread /\ pc'[victim[t]] = pc[victim[t]]
      BY <1>1, <1>5, <1>12, Running1 DEF Types, TCB
    <2>. QED BY <1>2, <1>3, <1>5, <1>14, <2>1 DEF Role
  <1>18. Shapes' /\ Roles' /\ AskedFor' /\ Queues'
    BY <1>1, <1>2, <1>11, <1>12, <1>14, <1>17, OnlyOneGoesOn DEF sem, reaping
  <1>19. \A u \in TCB : Target(u)' = Target(u)
    BY <1>4, <1>11, <1>12 DEF Target, Chosen, Stage
  <1>20. Cores'
    <2>1. CoreOK(c)'
      BY <1>1, <1>2, <1>3, <1>4, <1>9, <1>11, <1>12 DEF CoreOK, Types, Chosen, Stage, Mine, TCB
    <2>2. Target(t) = Nil BY <1>4 DEF Target, Chosen, Stage
    <2>3. ASSUME NEW d \in Core, d # c PROVE CoreOK(d)'
      <3>1. \A u \in TCB \ {t} : no_preempt'[u] = no_preempt[u] BY <1>2, <1>4 DEF Types
      <3>2. /\ on'[d] = on[d] /\ act'[d] = act[d] /\ activeThreads'[d] = activeThreads[d]
            /\ cr3'[d] = cr3[d]
        BY <1>2
      <3>. QED BY <1>1, <1>11, <1>12, <2>2, <2>3, <3>1, <3>2, OtherCores
    <2>. QED BY <2>1, <2>3 DEF Cores
  <1>21. OnlyOnCores' BY <1>1, <1>2, <1>12 DEF OnlyOnCores
  <1>22. Located' /\ Distinct'
    <2>1. \A u \in Thread : pc'[u] = "unborn" <=> pc[u] = "unborn" BY <1>6, <1>12 DEF TCB
    <2>. QED BY <1>2, <1>19, <2>1, PlacesKept DEF sem, reaping
  <1>23. NoIdlePermit' /\ Permitted' BY <1>2, <1>15, <1>16, PermitsKept DEF sem, TCB
  <1>24. NothingMissed' BY <1>2, <1>16, SleepKept, ThreadsAssumption DEF reaping, TCB
  <1>25. Types' BY <1>2, <1>11, <1>12 DEF Types, sem, reaping
  <1>. QED BY <1>18, <1>20, <1>21, <1>22, <1>23, <1>24, <1>25

-----------------------------------------------------------------------------
(* The invariant.                                                           *)

\* Initially each core runs its idle thread, and the threads started are ready.
LEMMA InitOK == Init => ThreadsInv
  <1>. SUFFICES ASSUME Init PROVE ThreadsInv OBVIOUS
  <1>. USE DEF Init
  <1>1. Reaper \in Thread /\ User \subseteq Thread /\ Started \in Seq(Thread) /\ Permits \in Nat
    BY ThreadsAssumption
  <1>2. \A t \in TCB : t # Nil BY ThreadsAssumption
  <1>3. Core \cap Thread = {} /\ TCB = Core \cup Thread BY ThreadsAssumption DEF TCB
  <1>4. \A t : In(t, Started) <=> t \in Elems(Started) BY <1>1 DEF In, Elems
  <1>5. In(Reaper, Started) BY ThreadsAssumption DEF In
  <1>6. \A t \in TCB : /\ calls[t] = <<>> /\ Len(calls[t]) = 0
                       /\ pc[t] = Starts(t) /\ Prog(t) = Starts(t)
    <2>1. Len(<<>>) = 0 OBVIOUS
    <2>. QED BY <2>1 DEF Prog
  <1>7. \A t \in TCB : /\ Starts(t) \in {"stop", "unborn", "reap", "run"}
                       /\ t \in Core => Starts(t) = "stop"
                       /\ t \in Thread => Starts(t) # "stop"
                       /\ Starts(t) = "reap" <=> t = Reaper
                       /\ t \in Thread => (Starts(t) = "unborn" <=> ~In(t, Started))
    BY <1>1, <1>3, <1>4, <1>5 DEF Starts
  <1>8. \A t, q : q = <<>> => ~In(t, q) BY DEF In
  <1>9. \A c \in Core : act[c] = NoAct /\ act[c].who = Nil BY DEF NoAct
  <1>10. Types
    <2>1. NoAct \in [who : TCB \cup {Nil}, kind : Why] BY DEF NoAct, Why
    <2>2. \A t \in TCB : Starts(t) \in ProgLoc \cup Stage \cup {"block", "unborn"}
      BY <1>7 DEF ProgLoc
    <2>3. <<>> \in Seq(FrameType) /\ <<>> \in Seq(Thread) OBVIOUS
    <2>. QED BY <1>1, <1>3, <2>1, <2>2, <2>3 DEF Types
  <1>11. Shapes
    BY <1>6, <1>7 DEF Shapes, Shape, Stage
  <1>12. Roles
    <2>. SUFFICES ASSUME NEW t \in TCB PROVE Role(t) BY DEF Roles
    <2>1. t \in Thread => victim[t] = Nil OBVIOUS
    <2>2. Len(calls[t]) = 0 /\ Prog(t) = Starts(t) BY <1>6
    <2>3. /\ Starts(t) \in {"stop", "unborn", "reap", "run"}
          /\ t \in Core => Starts(t) = "stop"
          /\ Starts(t) = "reap" <=> t = Reaper
      BY <1>7
    <2>. QED BY ONLY <2>1, <2>2, <2>3 DEF Role
  <1>13. AskedFor BY <1>2, <1>3, <1>9 DEF AskedFor
  <1>14. Queues BY <1>8 DEF Queues
  <1>15. Cores
    <2>. SUFFICES ASSUME NEW c \in Core PROVE CoreOK(c) BY DEF Cores
    <2>1. on[c] = c /\ activeThreads[c] = c /\ cr3[c] = Kpd /\ c \in TCB /\ c \notin User
      BY <1>1, <1>3
    <2>2. pc[c] = "stop" BY <1>6, <1>7, <2>1
    <2>. QED BY <1>9, <2>1, <2>2 DEF CoreOK, Mine, Stage, Chosen, Pd
  <1>16. OnlyOnCores BY <1>6, <1>7 DEF OnlyOnCores, Stage
  <1>17. Located
    <2>1. PICK w : w = [t \in Thread |-> IF In(t, Started) THEN <<"ready", Nil>>
                                         ELSE <<"nowhere", Nil>>]
      OBVIOUS
    <2>2. w \in [Thread -> Place] BY <2>1 DEF Place
    <2>3. ASSUME NEW t \in Thread PROVE Lies(w, t)
      <3>1. w[t] = IF In(t, Started) THEN <<"ready", Nil>> ELSE <<"nowhere", Nil>> BY <2>1
      <3>2. t \in TCB /\ t # Nil /\ t \notin Core BY <1>2, <1>3
      <3>3. \A u \in TCB : Target(u) = Nil BY <1>6, <1>7 DEF Target, Chosen
      <3>4. \A c \in Core : on[c] # t /\ act[c].who # t BY <1>9, <3>2
      <3>5. \A u \in Thread : victim[u] # t BY <3>2
      <3>6. readyQ = Started /\ ~In(t, waiting) /\ ~In(t, sleepers) /\ ~In(t, zombies)
        BY <1>8
      <3>7. pc[t] = "unborn" <=> ~In(t, Started) BY <1>6, <1>7, <3>2
      <3>. QED BY <3>1, <3>2, <3>3, <3>4, <3>5, <3>6, <3>7 DEF Lies
    <2>. QED BY <2>2, <2>3 DEF Located, Where
  <1>18. Distinct BY <1>1, ThreadsAssumption DEF Distinct, Once
  <1>19. NoIdlePermit BY DEF NoIdlePermit
  <1>20. Permitted
    <2>1. Holder = {} BY <1>3, <1>6, <1>7 DEF Holder
    <2>. QED BY <1>1, <2>1, FS_EmptySet DEF Permitted
  <1>21. NothingMissed BY DEF NothingMissed, NoMissedNotify
  <1>. QED BY <1>10, <1>11, <1>12, <1>13, <1>14, <1>15, <1>16, <1>17, <1>18, <1>19, <1>20, <1>21
           DEF ThreadsInv

\* A step that changes nothing changes nothing that is said of the state.
LEMMA StutterOK == ThreadsInv /\ UNCHANGED vars => ThreadsInv'
  <1>. SUFFICES ASSUME ThreadsInv, UNCHANGED vars PROVE ThreadsInv' OBVIOUS
  <1>. USE DEF ThreadsInv, vars, sched, sem, reaping
  <1>1. Types' BY DEF Types
  <1>2. Shapes' /\ Roles' BY DEF Shapes, Shape, Fresh, Asks, Roles, Role, Prog
  <1>3. AskedFor' /\ Queues' /\ OnlyOnCores' BY DEF AskedFor, Queues, OnlyOnCores
  <1>4. Cores' BY DEF Cores, CoreOK
  <1>5. Located' /\ Distinct' BY PlacesKept DEF Target
  <1>6. NoIdlePermit' /\ Permitted' BY PermitsKept DEF Prog, Asking
  <1>7. NothingMissed' BY DEF NothingMissed, NoMissedNotify, Asking
  <1>. QED BY <1>1, <1>2, <1>3, <1>4, <1>5, <1>6, <1>7

\* Every step of the thread package keeps the invariant.
LEMMA NextOK == ThreadsInv /\ [Next]_vars => ThreadsInv'
  <1>. SUFFICES ASSUME ThreadsInv, [Next]_vars PROVE ThreadsInv' OBVIOUS
  <1>1. ASSUME NEW c \in Core, Block(c) PROVE ThreadsInv'
    BY <1>1, PickOK, GuardNextOK, ClaimOK, LoadCr3OK, SwitchOK DEF Block
  <1>2. ASSUME NEW c \in Core, Handle(c) PROVE ThreadsInv'
    BY <1>2, HandleYieldOK, HandleDownOK, HandleWaitOK, HandleStopOK DEF Handle
  <1>3. ASSUME NEW c \in Core, Own(c) PROVE ThreadsInv'
    BY <1>3, ProtectOK, UpOK, WakeOK, SweepOK, BuryOK, CreateOK, StopOK, ReapOK DEF Own
  <1>4. ASSUME NEW c \in Core, Program(c) PROVE ThreadsInv'
    BY <1>4, YieldOK, DownOK, SpawnOK, FinishOK DEF Program
  <1>5. ASSUME NEW c \in Core, Tick(c) PROVE ThreadsInv' BY <1>5, TickOK
  <1>6. CASE UNCHANGED vars BY <1>6, StutterOK
  <1>. QED BY <1>1, <1>2, <1>3, <1>4, <1>5, <1>6 DEF Next

\* The invariant holds in every state the thread package can be in.
THEOREM ThreadsInvariant == Spec => []ThreadsInv
  <1>. QED BY InitOK, NextOK, PTL DEF Spec

-----------------------------------------------------------------------------
(* The properties.                                                          *)

\* A core that the timer may preempt knows which thread it runs, and a thread inside
\* block() is on the core whose entry of activeThreads it is about to change
\* (threads.h:124-137).
THEOREM PreemptionIsSafe == Spec => []PreemptionSafe
  <1>1. ThreadsInv => PreemptionSafe
    <2>. SUFFICES ASSUME ThreadsInv, NEW c \in Core
                  PROVE  /\ act[c] = NoAct /\ ~no_preempt[activeThreads[c]]
                              => activeThreads[c] = on[c]
                         /\ InBlock(c) => Blk(on[c]).core = c
      BY DEF PreemptionSafe
    <2>1. CoreOK(c) /\ on[c] \in TCB BY DEF ThreadsInv, Cores, Types
    <2>2. Shape(on[c]) /\ calls[on[c]] \in Seq(FrameType)
      BY <2>1 DEF ThreadsInv, Shapes, Types
    <2>3. InBlock(c) => Blk(on[c]) = calls[on[c]][1]
      BY <2>2 DEF InBlock, Blk, Shape, Stage
    <2>. QED BY <2>1, <2>3 DEF CoreOK, InBlock, Stage
  <1>. QED BY <1>1, ThreadsInvariant, PTL

\* A core runs a thread in that thread's address space, and has never loaded the page
\* directory of a thread that was deleted (threads.h:128-135, process.h:44-47).
THEOREM AddressSpacesLoaded == Spec => []AddressSpaceLoaded
  <1>1. ThreadsInv => AddressSpaceLoaded
    <2>. SUFFICES ASSUME ThreadsInv, NEW c \in Core
                  PROVE  /\ cr3[c] # Kpd => pc[cr3[c]] # "unborn"
                         /\ InBlock(c) \/ cr3[c] = Pd(on[c])
      BY DEF AddressSpaceLoaded
    <2>1. CoreOK(c) /\ on[c] \in TCB BY DEF ThreadsInv, Cores, Types
    <2>2. User \subseteq Thread BY ThreadsAssumption
    <2>3. CASE pc[on[c]] = "switch"
      <3>1. act[c] = NoAct /\ cr3[c] = Pd(Target(on[c]))
        BY <2>1, <2>3 DEF CoreOK, Target, Chosen, Stage
      <3>2. InBlock(c) BY <2>3, <3>1 DEF InBlock
      <3>3. ASSUME cr3[c] # Kpd PROVE pc[cr3[c]] # "unborn"
        <4>1. PICK u \in Thread : u = Target(on[c]) /\ u = cr3[c] BY <2>2, <3>1, <3>3 DEF Pd
        <4>2. PICK w : Where(w) BY DEF ThreadsInv, Located
        <4>3. w[u] = <<"next", on[c]>> BY <2>1, <4>1, <4>2 DEF Where, Lies
        <4>4. pc[u] # "unborn" BY <4>2, <4>3 DEF Where, Lies
        <4>. QED BY <4>1, <4>4
      <3>. QED BY <3>2, <3>3
    <2>4. CASE pc[on[c]] # "switch"
      <3>1. cr3[c] = Pd(on[c]) BY <2>1, <2>4 DEF CoreOK
      <3>2. ASSUME cr3[c] # Kpd PROVE pc[cr3[c]] # "unborn"
        <4>1. PICK u \in Thread : u = on[c] /\ u = cr3[c] BY <2>2, <3>1, <3>2 DEF Pd
        <4>. QED BY <4>1, Running1 DEF ThreadsInv
      <3>. QED BY <3>1, <3>2
    <2>. QED BY <2>3, <2>4
  <1>. QED BY <1>1, ThreadsInvariant, PTL

\* A thread has a permit, by what it has asked of block(), just when its program has.
LEMMA HoldersHold == ThreadsInv => Holder = {t \in Thread : Holds(t)}
  <1>. SUFFICES ASSUME ThreadsInv, NEW t \in Thread
                PROVE  (Prog(t) = "crit" /\ ~In(t, waiting) /\ ~Asking(t, "down")) <=> Holds(t)
    BY DEF Holder
  <1>. USE DEF ThreadsInv
  <1>1. /\ Shape(t) /\ calls[t] \in Seq(FrameType) /\ waiting \in Seq(Thread)
        /\ pc[t] \in ProgLoc \cup Stage \cup {"block", "unborn"}
    BY DEF Shapes, Types, TCB
  <1>2. Prog(t) = "crit" <=> pc[t] = "crit" \/ \E i \in DOMAIN calls[t] : calls[t][i].back = "crit"
    <2>1. Len(calls[t]) \in {0, 1, 2} BY <1>1 DEF Shape
    <2>2. CASE Len(calls[t]) = 0 BY <1>1, <2>2 DEF Prog
    <2>3. CASE Len(calls[t]) = 1
      BY <1>1, <2>3 DEF Prog, Shape, ProgLoc
    <2>4. CASE Len(calls[t]) = 2
      BY <1>1, <2>4 DEF Prog, Shape, ProgLoc
    <2>. QED BY <2>1, <2>2, <2>3, <2>4
  <1>3. In(t, waiting) <=> t \in Elems(waiting) BY <1>1 DEF In, Elems
  <1>4. \A c \in Core : act[c] = [who |-> t, kind |-> "down"]
                          <=> act[c].who = t /\ act[c].kind = "down"
    BY DEF Types
  <1>5. Asking(t, "down") <=> \/ \E i \in DOMAIN calls[t] : calls[t][i].why = "down"
                              \/ \E c \in Core : act[c] = [who |-> t, kind |-> "down"]
    BY <1>1, <1>4 DEF Asking
  <1>. QED BY <1>2, <1>3, <1>5 DEF Holds

\* Semaphore: the permits that are held are those that are gone (semaphore.h:18-73).
THEOREM PermitsAreExact == Spec => []PermitsExact
  <1>1. ThreadsInv => PermitsExact
    BY HoldersHold DEF ThreadsInv, Permitted, PermitsExact
  <1>. QED BY <1>1, ThreadsInvariant, PTL

\* ... so at most Permits threads are between down and up, or on their way out of down.
COROLLARY MutualExclusion ==
    Spec => [](/\ IsFiniteSet({t \in Thread : Holds(t)})
               /\ Cardinality({t \in Thread : Holds(t)}) <= Permits)
  <1>1. ThreadsInv => /\ IsFiniteSet({t \in Thread : Holds(t)})
                      /\ Cardinality({t \in Thread : Holds(t)}) <= Permits
    <2>. SUFFICES ASSUME ThreadsInv
                  PROVE  IsFiniteSet(Holder) /\ Cardinality(Holder) <= Permits
      BY HoldersHold
    <2>1. IsFiniteSet(Holder) /\ count + Cardinality(Holder) = Permits /\ count \in Nat
      BY DEF ThreadsInv, Permitted, Types
    <2>2. Cardinality(Holder) \in Nat BY <2>1, FS_CardinalityType
    <2>. QED BY <2>1, <2>2
  <1>. QED BY <1>1, ThreadsInvariant, PTL

\* Semaphore: nobody waits while a permit is free, although down releases its lock before
\* it blocks (semaphore.h:29-57).
THEOREM PermitsAreNotIdle == Spec => []NoIdlePermit
  <1>. QED BY ThreadsInvariant, PTL DEF ThreadsInv

\* Condition: the reaper sleeps only when there is nothing to reap, although wait releases
\* the mutex before it blocks (condition.h:66-94).
THEOREM NotifiesAreNotMissed == Spec => []NoMissedNotify
  <1>1. ThreadsInv => NoMissedNotify BY DEF ThreadsInv, NothingMissed
  <1>. QED BY <1>1, ThreadsInvariant, PTL

\* Only a thread that switches to another holds it in its calls of block.
LEMMA NextIsTarget ==
    ASSUME ThreadsInv, NEW u \in TCB, NEW t \in Thread
    PROVE  (\E i \in DOMAIN calls[u] : calls[u][i].next = t) <=> Target(u) = t
  <1>. USE DEF ThreadsInv
  <1>1. /\ Shape(u) /\ calls[u] \in Seq(FrameType) /\ t # Nil
        /\ pc[u] \in ProgLoc \cup Stage \cup {"block", "unborn"}
    BY ThreadsAssumption DEF Shapes, Types, TCB
  <1>2. CASE pc[u] \in ProgLoc \cup {"unborn"}
    BY <1>1, <1>2 DEF Shape, Target, Chosen, ProgLoc
  <1>3. CASE pc[u] = "block"
    BY <1>1, <1>3 DEF Shape, Target, Chosen, Fresh
  <1>4. CASE pc[u] \in Stage
    <2>1. Len(calls[u]) \in {1, 2} /\ (Len(calls[u]) = 2 => calls[u][2].next = Nil)
      BY <1>1, <1>4 DEF Shape, Fresh
    <2>2. (\E i \in DOMAIN calls[u] : calls[u][i].next = t) <=> calls[u][1].next = t
      <3>1. CASE Len(calls[u]) = 1 BY <1>1, <3>1
      <3>2. CASE Len(calls[u]) = 2 BY <1>1, <2>1, <3>2
      <3>. QED BY <2>1, <3>1, <3>2
    <2>3. CASE pc[u] = "pick" BY <1>1, <2>2, <2>3 DEF Shape, Target, Chosen
    <2>4. CASE pc[u] \in Chosen BY <2>2, <2>4 DEF Target
    <2>. QED BY <1>4, <2>2, <2>3, <2>4 DEF Stage, Chosen
  <1>. QED BY <1>1, <1>2, <1>3, <1>4

\* Who is in a queue once is at one place there.
LEMMA OneIndex ==
    ASSUME NEW q \in Seq(Thread), Once(q), NEW t, In(t, q)
    PROVE  \E n : {j \in DOMAIN q : q[j] = t} = {n}
  BY DEF Once, In

\* And who is not is nowhere there.
LEMMA NoIndex ==
    ASSUME NEW q \in Seq(Thread), NEW t, ~In(t, q)
    PROVE  {j \in DOMAIN q : q[j] = t} = {}
  BY DEF In

\* Where the invariant says that t is, is the only place where it can be reached from.
LEMMA OnePlace ==
    ASSUME ThreadsInv, NEW t \in Thread
    PROVE  \/ pc[t] = "unborn" /\ Places(t) = {}
           \/ pc[t] # "unborn" /\ \E p : Places(t) = {p}
  <1>. USE DEF ThreadsInv
  <1>. DEFINE On == {d \in Core : on[d] = t}
              Left == {d \in Core : act[d].who = t}
              Following == {v \in TCB : Target(v) = t}
              Held == {v \in Thread : victim[v] = t}
              At_(q) == {j \in DOMAIN q : q[j] = t}
              Reach == {<<"on", c>> : c \in On} \cup {<<"left", c>> : c \in Left}
                       \cup {<<"next", u>> : u \in Following} \cup {<<"held", u>> : u \in Held}
              Queued == {<<"ready", i>> : i \in At_(readyQ)}
                        \cup {<<"waiting", i>> : i \in At_(waiting)}
                        \cup {<<"sleepers", i>> : i \in At_(sleepers)}
                        \cup {<<"zombies", i>> : i \in At_(zombies)}
  <1>1. Places(t) = Reach \cup Queued
    <2>1. {v \in TCB : \E i \in DOMAIN calls[v] : calls[v][i].next = t} = Following
      BY NextIsTarget
    <2>. QED BY <2>1 DEF Places
  <1>2. PICK w \in [Thread -> Place] : Where(w) BY DEF Located
  <1>3. Lies(w, t) /\ w[t] \in Place BY <1>2 DEF Where
  <1>4. /\ readyQ \in Seq(Thread) /\ Once(readyQ) /\ waiting \in Seq(Thread) /\ Once(waiting)
        /\ sleepers \in Seq(Thread) /\ Once(sleepers) /\ zombies \in Seq(Thread) /\ Once(zombies)
    BY DEF Types, Distinct
  <1>5. w[t][1] \notin {"on", "left", "next", "held"} => Reach = {}
    BY <1>3 DEF Lies
  <1>6. /\ w[t] # <<"ready", Nil>> => At_(readyQ) = {}
        /\ w[t] # <<"waiting", Nil>> => At_(waiting) = {}
        /\ w[t] # <<"asleep", Nil>> => At_(sleepers) = {}
        /\ w[t] # <<"zombie", Nil>> => At_(zombies) = {}
    BY <1>3, <1>4, NoIndex DEF Lies
  <1>7. CASE w[t][1] \in {"on", "left", "next", "held"}
    <2>1. w[t] \notin {"ready", "waiting", "asleep", "zombie", "nowhere"} \X {Nil} BY <1>7
    <2>2. Queued = {} BY <1>6, <1>7
    <2>3. pc[t] # "unborn" BY <1>3, <1>7 DEF Lies
    <2>4. ASSUME NEW c \in Core, w[t] = <<"on", c>> PROVE Reach = {<<"on", c>>}
      <3>1. On = {c} /\ Left = {} /\ Following = {} /\ Held = {} BY <1>3, <2>4 DEF Lies
      <3>. QED BY <3>1
    <2>5. ASSUME NEW c \in Core, w[t] = <<"left", c>> PROVE Reach = {<<"left", c>>}
      <3>1. On = {} /\ Left = {c} /\ Following = {} /\ Held = {} BY <1>3, <2>5 DEF Lies
      <3>. QED BY <3>1
    <2>6. ASSUME NEW u \in TCB, w[t] = <<"next", u>> PROVE Reach = {<<"next", u>>}
      <3>1. On = {} /\ Left = {} /\ Following = {u} /\ Held = {} BY <1>3, <2>6 DEF Lies
      <3>. QED BY <3>1
    <2>7. ASSUME NEW u \in Thread, w[t] = <<"held", u>> PROVE Reach = {<<"held", u>>}
      <3>1. On = {} /\ Left = {} /\ Following = {} /\ Held = {u} BY <1>3, <2>7 DEF Lies
      <3>. QED BY <3>1
    <2>8. \E p : Reach = {p}
      <3>1. \/ \E c \in Core : w[t] = <<"on", c>> \/ w[t] = <<"left", c>>
            \/ \E u \in TCB : w[t] = <<"next", u>>
            \/ \E u \in Thread : w[t] = <<"held", u>>
        BY <1>3, <2>1 DEF Place
      <3>. HIDE DEF Reach
      <3>. QED BY <2>4, <2>5, <2>6, <2>7, <3>1
    <2>. HIDE DEF Reach, Queued
    <2>. QED BY <1>1, <2>2, <2>3, <2>8
  <1>8. CASE w[t][1] \notin {"on", "left", "next", "held"}
    <2>1. w[t] \in {<<k, Nil>> : k \in {"ready", "waiting", "asleep", "zombie", "nowhere"}}
      BY <1>3, <1>8 DEF Place
    <2>2. Places(t) = Queued
      <3>. HIDE DEF Reach, Queued
      <3>. QED BY <1>1, <1>5, <1>8
    <2>3. CASE w[t] = <<"nowhere", Nil>>
      <3>1. Queued = {} BY <1>6, <2>3
      <3>2. pc[t] = "unborn" BY <1>3, <2>3 DEF Lies
      <3>. QED BY <2>2, <3>1, <3>2
    <2>4. CASE w[t] = <<"ready", Nil>>
      <3>0. In(t, readyQ) BY <1>3, <2>4 DEF Lies
      <3>1. PICK n : At_(readyQ) = {n} BY ONLY <1>4, <3>0, OneIndex, Zenon DEF At_
      <3>2. Queued = {<<"ready", n>>} BY <1>6, <2>4, <3>1
      <3>3. pc[t] # "unborn" BY <1>3, <2>4 DEF Lies
      <3>. QED BY <2>2, <3>2, <3>3
    <2>5. CASE w[t] = <<"waiting", Nil>>
      <3>0. In(t, waiting) BY <1>3, <2>5 DEF Lies
      <3>1. PICK n : At_(waiting) = {n} BY ONLY <1>4, <3>0, OneIndex, Zenon DEF At_
      <3>2. Queued = {<<"waiting", n>>} BY <1>6, <2>5, <3>1
      <3>3. pc[t] # "unborn" BY <1>3, <2>5 DEF Lies
      <3>. QED BY <2>2, <3>2, <3>3
    <2>6. CASE w[t] = <<"asleep", Nil>>
      <3>0. In(t, sleepers) BY <1>3, <2>6 DEF Lies
      <3>1. PICK n : At_(sleepers) = {n} BY ONLY <1>4, <3>0, OneIndex, Zenon DEF At_
      <3>2. Queued = {<<"sleepers", n>>} BY <1>6, <2>6, <3>1
      <3>3. pc[t] # "unborn" BY <1>3, <2>6 DEF Lies
      <3>. QED BY <2>2, <3>2, <3>3
    <2>7. CASE w[t] = <<"zombie", Nil>>
      <3>0. In(t, zombies) BY <1>3, <2>7 DEF Lies
      <3>1. PICK n : At_(zombies) = {n} BY ONLY <1>4, <3>0, OneIndex, Zenon DEF At_
      <3>2. Queued = {<<"zombies", n>>} BY <1>6, <2>7, <3>1
      <3>3. pc[t] # "unborn" BY <1>3, <2>7 DEF Lies
      <3>. QED BY <2>2, <3>2, <3>3
    <2>8. PICK p : p = w[t] OBVIOUS
    <2>9. \/ p = <<"nowhere", Nil>> \/ p = <<"ready", Nil>> \/ p = <<"waiting", Nil>>
          \/ p = <<"asleep", Nil>> \/ p = <<"zombie", Nil>>
      BY <2>1, <2>8
    <2>. QED BY ONLY <2>3, <2>4, <2>5, <2>6, <2>7, <2>8, <2>9, Zenon
  <1>. QED BY ONLY <1>7, <1>8, Zenon

\* A thread that exists is in exactly one place: none is lost, runs on two cores, is queued
\* while a core is still on its stack, or is deleted while it can be reached
\* (threads.h:39, next links a TCB into one queue; threads.h:137, the handler after the
\* switch).
THEOREM ThreadsAreInOnePlace == Spec => []InOnePlace
  <1>1. ThreadsInv => InOnePlace
    <2>. SUFFICES ASSUME ThreadsInv, NEW t \in Thread
                  PROVE  Cardinality(Places(t)) = IF pc[t] = "unborn" THEN 0 ELSE 1
      BY DEF InOnePlace
    <2>1. CASE pc[t] = "unborn" /\ Places(t) = {} BY <2>1, FS_EmptySet
    <2>2. CASE pc[t] # "unborn" /\ \E p : Places(t) = {p} BY <2>2, FS_Singleton
    <2>. QED BY <2>1, <2>2, OnePlace
  <1>. QED BY <1>1, ThreadsInvariant, PTL
=============================================================================
