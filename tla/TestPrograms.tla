---------------------------- MODULE TestPrograms ----------------------------
(***************************************************************************)
(* The programs of the two test images (etan.dir/sbin and t0.dir/sbin) on  *)
(* the processes of module Processes, and what etan.ok and t0.ok say they  *)
(* print.  user[p] is the program of process p between two calls: the      *)
(* place it has come to, its locals and what its calls gave it.  A step    *)
(* makes one system call, and prints what was printed since the last one;  *)
(* fork copies the program, execl replaces it.  A line is a word and a     *)
(* number.  The image "any" has the programs of Enter instead.             *)
(*                                                                         *)
(* What the disk has under a name is external (finding it is module        *)
(* Ext2Open), and so is whether an access faults (module Vmm).             *)
(***************************************************************************)
EXTENDS Processes, SequencesExt

CONSTANTS Forks,    \* argv[3] of the semaphore test
          MaxEnding,  \* bound on the threads in exit or to be deleted when a test forks
          Links     \* what /files/link1, ... lead to

ASSUME TestProgramsAssumption == Forks \in Nat \ {0} /\ Len(Links) = 5

VARIABLES image,    \* what the disk holds: "etan", "t0" or "any"
          user,     \* user[p]: the program of process p
          console,  \* the lines printed
          halted    \* the machine was shut down

testVars == <<vars, image, user, console, halted>>

-----------------------------------------------------------------------------
(* Programs and their calls.  A call is given the program as it goes on.    *)

\* A program at its first instruction, with two arguments.
Start(at, a, b) ==
    [at |-> at, a |-> a, b |-> b, i |-> 0, fd |-> 0, ids |-> <<>>, back |-> at,
     ret |-> 0, got |-> 0, from |-> 0]

In(p, place) == ~halted /\ ~booting /\ th[p].pc = "user" /\ user[p].at = place
Set(p, u) == user' = [user EXCEPT ![p] = u]
To(p, place) == [user[p] EXCEPT !.at = place]
InChild(p) == user[p].ret = 0

Say(lines) == console' = console \o lines /\ UNCHANGED <<image, halted>>
Quiet == UNCHANGED <<image, console, halted>>
If(condition, line) == IF condition THEN <<line>> ELSE <<>>
Says(p, bad, good) == <<IF user[p].ret < 0 THEN <<bad, 0>> ELSE <<good, user[p].ret>> >>
ReadLines(p) == << <<"from", user[p].from>>, <<"bytes", user[p].ret>> >>

NoCall == UNCHANGED vars
Gives(p, u, result) == Set(p, [u EXCEPT !.ret = result])

\* Numbers of calls there are not.
NUM_SYSCALLS == 14
Fails(num) == num >= NUM_SYSCALLS

\* Descriptors 0, 1 and 2 are the console's.
Slot(fd) == fd - 3
IsOpen(p, fd) == InUse(fdt[p], Slot(fd))
LenOf(p, fd) == IF IsOpen(p, fd) THEN SizeOf(fdt[p][Slot(fd)]) ELSE -1

CallOpen(p, name, u) ==
    IF name \in Nodes /\ \E i \in FdSlot : FirstFree(fdt[p], i)
    THEN \E i \in FdSlot : Open(p, i, name) /\ Gives(p, u, i + 3)
    ELSE NoCall /\ Gives(p, u, -1)

CallClose(p, fd, u) ==
    IF IsOpen(p, fd) THEN CloseFd(p, Slot(fd)) /\ Gives(p, u, 0)
    ELSE NoCall /\ Gives(p, u, -1)

CallSeek(p, fd, n, u) ==
    IF IsOpen(p, fd) THEN Seek(p, Slot(fd), n) /\ Gives(p, u, n)
    ELSE NoCall /\ Gives(p, u, -1)

CallRead(p, fd, n, u) ==
    IF IsOpen(p, fd) /\ Readable(p, Slot(fd)) THEN Read(p, Slot(fd), n) /\ Set(p, u)
    ELSE NoCall /\ Gives(p, u, -1)

\* Parent and child go on as u; the child is given 0.
Ending(q) == th[q].pc \in {"exit", "set", "up", "stopped"}
CallFork(p, u) ==
    /\ \E q \in Proc : Unused(q)
    /\ Cardinality({q \in Proc : Ending(q)}) <= MaxEnding
    /\ LET c == CHOOSE q \in Proc : Unused(q)
       IN  /\ \E i \in PdSlot : Fork(p, i, c)
           /\ user' = [user EXCEPT ![p] = u, ![c] = [u EXCEPT !.ret = 0]]

CallWait(p, id, u) == Wait(p, id - 1) /\ Set(p, u)
CallExec(p, u) == Execl(p) /\ Set(p, u)
CallExit(p, v) == Exit(p, v) /\ UNCHANGED user

\* What the calls of several steps give.
Results(p) ==
    LET t == th[p]
    IN  CASE t.pc = "read"   -> [user[p] EXCEPT !.from = offset[t.obj]]
          [] t.pc = "add"    -> [user[p] EXCEPT !.ret = t.val]
          [] t.pc = "fork"   -> [user[p] EXCEPT !.ret = t.slot + 1]
          [] t.pc = "waited" -> [user[p] EXCEPT !.got = t.val]
          [] t.pc = "stopped" -> Start("none", 0, 0)
          [] OTHER           -> user[p]
Kernel(p) == ~halted /\ Serve(p) /\ Set(p, Results(p)) /\ Quiet

\* crt0: what main returns is the exit status.
Return(p) == In(p, "exit") /\ CallExit(p, user[p].ret) /\ Quiet

Shutdown(p) ==
    /\ In(p, "shutdown")
    /\ halted' = TRUE
    /\ NoCall /\ UNCHANGED <<image, user, console>>

\* cp, to the console.
Cp(p, fd, back) == Set(p, [user[p] EXCEPT !.at = "cp", !.fd = fd, !.back = back])
CpRead(p) == In(p, "cp") /\ CallRead(p, user[p].fd, 100, To(p, "cp.read")) /\ Quiet
CpWrite(p) ==
    LET n == user[p].ret
    IN  /\ In(p, "cp.read")
        /\ NoCall
        /\ Set(p, To(p, IF n > 0 THEN "cp" ELSE user[p].back))
        /\ Say(IF n > 0 THEN ReadLines(p) ELSE If(n < 0, <<"read error", 0>>))

-----------------------------------------------------------------------------
(* bs: bad system calls (a = 0), semaphores (a = 1, b forks).               *)

BsBad(p) ==
    /\ In(p, "bs") /\ user[p].a = 0
    /\ CallExit(p, 0)
    /\ Say(If(~Fails(20), <<"didn't fail", 20>>) \o If(~Fails(14), <<"didn't fail", 14>>))

BsSem(p) ==
    /\ In(p, "bs") /\ user[p].a = 1
    /\ \E i \in SdSlot : Sem(p, i, 1) /\ Set(p, [To(p, "bs.fork") EXCEPT !.fd = i])
    /\ Quiet

BsFork(p) == In(p, "bs.fork") /\ CallFork(p, To(p, "bs.forked")) /\ Quiet

BsForked(p) ==
    LET ids == Append(user[p].ids, user[p].ret)
    IN  /\ In(p, "bs.forked")
        /\ NoCall
        /\ Set(p, [user[p] EXCEPT !.ids = ids,
                                  !.at = IF Len(ids) < user[p].b THEN "bs.fork" ELSE "bs.down"])
        /\ Quiet

BsDown(p) ==
    /\ In(p, "bs.down")
    /\ Down(p, user[p].fd)
    /\ Set(p, To(p, "bs.a"))
    /\ Quiet

\* Inside: a letter, a child that ends at once, the next letter.
BsHelper(p, here, letter, next) ==
    /\ In(p, here)
    /\ CallFork(p, To(p, next))
    /\ Say(<< <<letter, 0>> >>)
BsA(p) == BsHelper(p, "bs.a", "a", "bs.id0")
BsB(p) == BsHelper(p, "bs.b", "b", "bs.id1")
BsWait(p, here, next) ==
    /\ In(p, here)
    /\ IF InChild(p) THEN CallExit(p, 0) ELSE CallWait(p, user[p].ret, To(p, next))
    /\ Quiet
BsWait0(p) == BsWait(p, "bs.id0", "bs.b")
BsWait1(p) == BsWait(p, "bs.id1", "bs.c")

\* i is the sum.
BsUp(p) ==
    /\ In(p, "bs.c")
    /\ Up(p, user[p].fd)
    /\ Set(p, [To(p, "bs.sum") EXCEPT !.i = 1, !.got = 0])
    /\ Say(<< <<"c", 0>> >>)

BsSum(p) ==
    LET ids == user[p].ids
    IN  /\ In(p, "bs.sum")
        /\ IF ids = <<>> THEN CallExit(p, user[p].i)
           ELSE IF Head(ids) > 0 THEN CallWait(p, Head(ids), To(p, "bs.add"))
           ELSE NoCall /\ Set(p, To(p, "bs.add"))
        /\ Quiet

BsAdd(p) ==
    /\ In(p, "bs.add")
    /\ NoCall
    /\ Set(p, [To(p, "bs.sum") EXCEPT !.i = @ + user[p].got, !.ids = Tail(@), !.got = 0])
    /\ Quiet

-----------------------------------------------------------------------------
(* recurse, of a and b.                                                     *)

Recurse(p) ==
    LET a == user[p].a
        b == user[p].b
    IN  /\ In(p, "recurse")
        /\ Say(<< <<"a", a>>, <<"b", b>> >>)
        /\ IF a < 2 THEN CallExit(p, a + b + a * b)
           ELSE CallFork(p, To(p, "recurse.fork"))

RecurseForked(p) ==
    /\ In(p, "recurse.fork")
    /\ IF InChild(p) THEN CallExec(p, Start("recurse", user[p].a - 1, user[p].b))
       ELSE CallWait(p, user[p].ret, To(p, "recurse.wait"))
    /\ Quiet

\* The result goes to the next program as four digits.
RecurseAgain(p) ==
    LET result == user[p].got + user[p].a + user[p].b
    IN  /\ In(p, "recurse.wait")
        /\ CallExec(p, Start("recurse", user[p].a - 1, result % 10000))
        /\ Quiet

-----------------------------------------------------------------------------
(* file; a is the size, b is fd5.                                           *)

FileOpen(p) ==
    /\ In(p, "file")
    /\ Say(<< <<"wrote", 27>> >>)
    /\ CallOpen(p, "msg", To(p, "file.open"))

\* Past the size.
FileRead(p) ==
    LET fd == user[p].ret
        sz == LenOf(p, fd)
    IN  /\ In(p, "file.open")
        /\ Say(<< <<"size", sz>> >>)
        /\ CallRead(p, fd, 100 + sz, [To(p, "file.read") EXCEPT !.fd = fd, !.a = sz])

FileSeek(p) ==
    /\ In(p, "file.read")
    /\ Say(ReadLines(p))
    /\ CallSeek(p, user[p].fd, user[p].a + 5, To(p, "file.seek"))

FilePast(p) ==
    /\ In(p, "file.seek")
    /\ Say(Says(p, "failed to seek", "seeked to"))
    /\ CallRead(p, user[p].fd, user[p].a, To(p, "file.past"))

\* Files 4 to 9, and one more than there can be.
FileMore(p) ==
    /\ In(p, "file.past")
    /\ Say(Says(p, "failed to read", "read past end"))
    /\ CallOpen(p, "msg", [To(p, "file.more") EXCEPT !.i = 4])

FileNext(p) ==
    LET i == user[p].i
    IN  /\ In(p, "file.more")
        /\ Say(If(user[p].ret < 0, <<"failed to open", i>>))
        /\ CallOpen(p, "msg", [user[p] EXCEPT !.at = IF i < 9 THEN @ ELSE "file.full",
                                              !.b = IF i = 5 THEN user[p].ret ELSE @,
                                              !.i = i + 1])

FileClose(p) ==
    /\ In(p, "file.full")
    /\ Say(Says(p, "failed to open msg", "opened too many"))
    /\ CallClose(p, user[p].b, To(p, "file.close"))

\* len, seek and read of a closed descriptor fail, as does open of a name that is not there.
FileClosed(p) ==
    /\ In(p, "file.close")
    /\ Say(If(user[p].ret < 0, <<"failed to close", user[p].b>>)
           \o If(LenOf(p, user[p].b) >= 0, <<"length of closed file", user[p].b>>))
    /\ CallOpen(p, "none", To(p, "file.none"))

FileAgain(p) ==
    /\ In(p, "file.none")
    /\ Say(Says(p, "failed to open none", "opened none"))
    /\ CallOpen(p, "msg", To(p, "file.again"))

FileReopened(p) ==
    /\ In(p, "file.again")
    /\ Say(<< <<IF user[p].ret < 0 THEN "failed to open msg" ELSE "opened msg", 0>> >>
           \o If(user[p].ret # user[p].b, <<"actual fd", user[p].ret>>))
    /\ CallClose(p, user[p].b, To(p, "file.closed"))

FileDir(p) ==
    /\ In(p, "file.closed")
    /\ Say(If(user[p].ret < 0, <<"failed to close", user[p].b>>))
    /\ CallOpen(p, "dir", To(p, "file.dir"))

FileEnd(p) ==
    /\ In(p, "file.dir")
    /\ Say(Says(p, "failed to open dir", "opened a directory"))
    /\ CallExit(p, 0)

-----------------------------------------------------------------------------
(* symlink; i counts the links.                                             *)

SymOpen(p) ==
    /\ In(p, "sym")
    /\ CallOpen(p, Links[user[p].i + 1], [To(p, "sym.open") EXCEPT !.i = @ + 1])
    /\ Quiet

SymCp(p) ==
    /\ In(p, "sym.open")
    /\ Say(If(user[p].ret < 0, <<"failed to open link", user[p].i>>))
    /\ NoCall
    /\ Cp(p, user[p].ret, IF user[p].i < 4 THEN "sym" ELSE "sym.fork")

SymFork(p) == In(p, "sym.fork") /\ CallFork(p, To(p, "sym.forked")) /\ Quiet

\* The fifth link leads to this program, the second to a file that is none.
Executable(name) == name = "symlink"
SymForked(p) ==
    LET name == Links[IF user[p].i = 4 THEN 5 ELSE 2]
    IN  /\ In(p, "sym.forked")
        /\ IF ~InChild(p) THEN CallWait(p, user[p].ret, To(p, "sym.wait")) /\ Quiet
           ELSE IF Executable(name) THEN CallExec(p, Start("sym.exec", 0, 0)) /\ Quiet
           ELSE CallExit(p, -1) /\ Say(<< <<"failed to execute", 2>> >>)

SymResult(p) ==
    /\ In(p, "sym.wait")
    /\ Say(<< <<"result", user[p].got>> >>)
    /\ NoCall
    /\ Set(p, [user[p] EXCEPT !.at = IF user[p].i = 4 THEN "sym.fork" ELSE "exit",
                              !.i = @ + 1, !.ret = 0])

SymExec(p) ==
    /\ In(p, "sym.exec")
    /\ Say(<< <<"executed from link", 0>> >>)
    /\ CallExit(p, 0)

-----------------------------------------------------------------------------
(* memory; i counts the accesses, two to each address.                      *)

\* A small memory: the kernel below 32, the I/O APIC at 48 and the local APIC at 56.
Memory == INSTANCE UserRange WITH Word <- 64, Half <- 32, Page <- 4,
                                  ioAPIC <- 48, localAPIC <- 56
Accessed == <<0, 16, 49, 56>>
Written == << <<8, 2>>, <<49, 2>>, <<59, 2>> >>
Filled == << <<9, 2>>, <<51, 2>>, <<57, 2>> >>
MAGIC == 57005

MemFork(p) == In(p, "mem") /\ CallFork(p, To(p, "mem.fork")) /\ Quiet

MemAccess(p) ==
    /\ In(p, "mem.fork")
    /\ IF ~InChild(p) THEN CallWait(p, user[p].ret, To(p, "mem.wait"))
       ELSE IF Memory!Allowed(Accessed[user[p].i \div 2 + 1]) THEN CallExit(p, MAGIC)
       ELSE Fault(p) /\ UNCHANGED user
    /\ Quiet

MemStatus(p) ==
    /\ In(p, "mem.wait")
    /\ Say(<< <<IF user[p].got = MAGIC THEN "normally" ELSE "abnormally", 0>> >>)
    /\ NoCall
    /\ Set(p, [user[p] EXCEPT !.at = IF user[p].i = 7 THEN "mem.write" ELSE "mem", !.i = @ + 1])

\* write and read of what is not the program's.
Checked(ranges) ==
    [k \in DOMAIN ranges |-> <<IF Memory!check_range(ranges[k][1], ranges[k][2])
                               THEN "failed to protect" ELSE "protected", k>>]

MemOpen(p) ==
    /\ In(p, "mem.write")
    /\ Say(Checked(Written))
    /\ CallOpen(p, "msg", To(p, "mem.read"))

MemSeek(p) ==
    /\ In(p, "mem.read")
    /\ Say(Checked(Filled))
    /\ CallSeek(p, user[p].ret, 6, [To(p, "mem.seek") EXCEPT !.fd = user[p].ret])

MemShare(p) == In(p, "mem.seek") /\ CallFork(p, To(p, "mem.share")) /\ Quiet

MemShared(p) ==
    /\ In(p, "mem.share")
    /\ IF InChild(p) THEN CallExec(p, Start("mem.child", 0, user[p].fd))
       ELSE CallWait(p, user[p].ret, To(p, "mem.parent"))
    /\ Quiet

MemChild(p) == In(p, "mem.child") /\ CallRead(p, user[p].b, 4, To(p, "mem.end")) /\ Quiet

MemParent(p) ==
    /\ In(p, "mem.parent")
    /\ Say(<< <<"result", user[p].got>> >>)
    /\ CallRead(p, user[p].fd, 4, To(p, "mem.end"))

MemEnd(p) == In(p, "mem.end") /\ Say(ReadLines(p)) /\ CallExit(p, 0)

-----------------------------------------------------------------------------
(* init of etan.dir: the tests in their order; i counts them.               *)

Suite == <<Start("bs", 0, 0), Start("bs", 1, Forks), Start("recurse", 4, 0),
           Start("file", 0, 0), Start("sym", 0, 0), Start("mem", 0, 0)>>

RunTest(p) == In(p, "etan") /\ CallFork(p, [To(p, "etan.fork") EXCEPT !.i = @ + 1]) /\ Quiet

TestForked(p) ==
    /\ In(p, "etan.fork")
    /\ IF InChild(p) THEN CallExec(p, Suite[user[p].i])
       ELSE CallWait(p, user[p].ret, To(p, "etan.wait"))
    /\ Quiet

TestResult(p) ==
    LET last == user[p].i = Len(Suite)
    IN  /\ In(p, "etan.wait")
        /\ Say(<< <<"result", user[p].got>> >> \o If(last, <<"last line", 0>>))
        /\ NoCall
        /\ Set(p, To(p, IF last THEN "shutdown" ELSE "etan"))

-----------------------------------------------------------------------------
(* init and shell of t0.dir.                                                *)

One(p, fd, before, back) ==
    /\ Say(before \o << <<"fd", fd>>, <<"len", LenOf(p, fd)>> >>)
    /\ NoCall
    /\ Cp(p, fd, back)

T0Open(p) == In(p, "t0") /\ CallOpen(p, "data", To(p, "t0.open")) /\ Quiet
T0One(p) == In(p, "t0.open") /\ One(p, user[p].ret, <<>>, "t0.close")
T0Close(p) == In(p, "t0.close") /\ CallClose(p, user[p].fd, To(p, "t0.closed")) /\ Quiet
T0Closed(p) ==
    In(p, "t0.closed") /\ One(p, user[p].fd, << <<"close", user[p].ret>> >>, "t0.bad")
T0Bad(p) == In(p, "t0.bad") /\ One(p, 100, <<>>, "t0.again")
T0Again(p) == In(p, "t0.again") /\ CallOpen(p, "data", To(p, "t0.seek")) /\ Quiet
T0Seek(p) ==
    /\ In(p, "t0.seek")
    /\ Say(<< <<"open again", user[p].ret>> >>)
    /\ CallSeek(p, 3, 17, To(p, "t0.fork"))
T0Fork(p) ==
    /\ In(p, "t0.fork")
    /\ Say(<< <<"seek", user[p].ret>> >>)
    /\ CallFork(p, To(p, "t0.forked"))
T0Forked(p) ==
    /\ In(p, "t0.forked")
    /\ IF InChild(p) THEN CallExec(p, Start("shell", 0, 0)) /\ Say(<< <<"in child", 0>> >>)
       ELSE CallWait(p, user[p].ret, To(p, "t0.wait")) /\ Quiet
Shell(p) ==
    /\ In(p, "shell")
    /\ Say(<< <<"argc", 4>> >>)
    /\ NoCall
    /\ Cp(p, 3, "shell.end")
ShellEnd(p) == In(p, "shell.end") /\ CallExit(p, 666) /\ Quiet
T0Back(p) ==
    /\ In(p, "t0.wait")
    /\ Say(<< <<"back from wait", user[p].got>> >>)
    /\ CallOpen(p, "panic", To(p, "t0.panic"))
T0Panic(p) == In(p, "t0.panic") /\ NoCall /\ Cp(p, user[p].ret, "shutdown") /\ Quiet

-----------------------------------------------------------------------------
TestInit ==
    /\ Init
    /\ image \in {"any", "etan", "t0"}
    /\ user = [p \in Proc |-> Start(image, 0, 0)]
    /\ console = <<>>
    /\ halted = FALSE

Libc(p) == Kernel(p) \/ Return(p) \/ Shutdown(p) \/ CpRead(p) \/ CpWrite(p)
Bs(p) ==
    \/ BsBad(p) \/ BsSem(p) \/ BsFork(p) \/ BsForked(p) \/ BsDown(p) \/ BsA(p) \/ BsWait0(p)
    \/ BsB(p) \/ BsWait1(p) \/ BsUp(p) \/ BsSum(p) \/ BsAdd(p)
Recursive(p) == Recurse(p) \/ RecurseForked(p) \/ RecurseAgain(p)
File(p) ==
    \/ FileOpen(p) \/ FileRead(p) \/ FileSeek(p) \/ FilePast(p) \/ FileMore(p) \/ FileNext(p)
    \/ FileClose(p) \/ FileClosed(p) \/ FileAgain(p) \/ FileReopened(p) \/ FileDir(p)
    \/ FileEnd(p)
Symlink(p) ==
    \/ SymOpen(p) \/ SymCp(p) \/ SymFork(p) \/ SymForked(p) \/ SymResult(p) \/ SymExec(p)
Mem(p) ==
    \/ MemFork(p) \/ MemAccess(p) \/ MemStatus(p) \/ MemOpen(p) \/ MemSeek(p) \/ MemShare(p)
    \/ MemShared(p) \/ MemChild(p) \/ MemParent(p) \/ MemEnd(p)
EtanInit(p) == RunTest(p) \/ TestForked(p) \/ TestResult(p)
T0(p) ==
    \/ T0Open(p) \/ T0One(p) \/ T0Close(p) \/ T0Closed(p) \/ T0Bad(p) \/ T0Again(p)
    \/ T0Seek(p) \/ T0Fork(p) \/ T0Forked(p) \/ Shell(p) \/ ShellEnd(p) \/ T0Back(p)
    \/ T0Panic(p)

TestStep ==
    \/ ~halted /\ Booted /\ Quiet /\ UNCHANGED user
    \/ \E p \in Proc : \/ Libc(p) \/ Bs(p) \/ Recursive(p) \/ File(p) \/ Symlink(p)
                       \/ Mem(p) \/ EtanInit(p) \/ T0(p)

TestNext ==
    \/ image = "any" /\ Next /\ UNCHANGED <<image, user, console, halted>>
    \/ image # "any" /\ TestStep

TestSpec == TestInit /\ [][TestNext]_testVars

-----------------------------------------------------------------------------
(* Properties.                                                              *)

Repeat(s, n) == FlattenSeq([k \in 1 .. n |-> s])
Lines(word, numbers) == [k \in DOMAIN numbers |-> <<word, numbers[k]>>]
Pairs(ab) == FlattenSeq([k \in DOMAIN ab |-> << <<"a", ab[k][1]>>, <<"b", ab[k][2]>> >>])
Bytes(from, n) == << <<"from", from>>, <<"bytes", n>> >>
Result(v) == << <<"result", v>> >>

Expected == [
    etan |->
        Result(0)
        \o Repeat(Lines("a", <<0>>) \o Lines("b", <<0>>) \o Lines("c", <<0>>), 2 ^ Forks)
        \o Result(2 ^ Forks)
        \o Pairs(<< <<4, 0>>, <<3, 0>>, <<2, 0>>, <<1, 0>>, <<1, 3>>, <<2, 10>>, <<1, 10>>,
                    <<1, 33>>, <<3, 71>>, <<2, 71>>, <<1, 71>>, <<1, 216>>, <<2, 507>>,
                    <<1, 507>>, <<1, 1524>> >>)
        \o Result(3049)
        \o << <<"wrote", 27>>, <<"size", 25>> >> \o Bytes(0, 25)
        \o << <<"seeked to", 30>>, <<"failed to read", 0>>, <<"failed to open msg", 0>>,
              <<"failed to open none", 0>>, <<"opened msg", 0>>, <<"failed to open dir", 0>> >>
        \o Result(0)
        \o Repeat(Bytes(0, 25), 3) \o << <<"failed to open link", 4>>, <<"read error", 0>>,
              <<"executed from link", 0>> >> \o Result(0) \o << <<"failed to execute", 2>> >>
        \o Result(-1) \o Result(0)
        \o Repeat(Lines("abnormally", <<0>>), 8) \o Repeat(Lines("protected", <<1, 2, 3>>), 2)
        \o Bytes(6, 4) \o Result(0) \o Bytes(10, 4) \o Result(0)
        \o << <<"last line", 0>> >>,
    t0 |->
        << <<"fd", 3>>, <<"len", 43>> >> \o Bytes(0, 43)
        \o << <<"close", 0>>, <<"fd", 3>>, <<"len", -1>>, <<"read error", 0>>,
              <<"fd", 100>>, <<"len", -1>>, <<"read error", 0>>, <<"open again", 3>>,
              <<"seek", 17>>, <<"in child", 0>>, <<"argc", 4>> >> \o Bytes(17, 26)
        \o << <<"back from wait", 666>> >>
        \o FlattenSeq([k \in 1 .. 17 |-> Bytes(100 * (k - 1), 100)]) \o Bytes(1700, 36) ]

\* However the processes of a test image are interleaved, they print what etan.ok and t0.ok
\* say, in that order, and all of it before the machine stops: "semaphores provide mutual
\* exclusion", "reading past the end of a file works normally", "ten open files maximum per
\* process", "we exit without crashing", "forked processes share file descriptors", "nothing
\* is executed after the shutdown system call" (etan.dir/README:13-52).
OutputAsExpected ==
    image # "any" => /\ IsPrefix(console, Expected[image])
                     /\ halted => console = Expected[image]

\* A test image is never stuck before it shuts the machine down: every wait, down and fork of
\* its programs is answered in the end, since no step of theirs is repeated.
NeverStuck == image # "any" /\ ~halted => ENABLED TestStep
=============================================================================
