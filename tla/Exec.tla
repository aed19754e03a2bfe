-------------------------------- MODULE Exec --------------------------------
(***************************************************************************)
(* Replacing a program (exec in src/kernel/sys.cc, the loader in elf.cc,   *)
(* switchToUser and memcpy in machine.S): the arguments are copied to a    *)
(* buffer of the kernel, the memory of the process is cleared, the image   *)
(* of the new program is read in, and the arguments are put at the top of  *)
(* the stack, where main finds argc and argv.  Memory is bytes, in an      *)
(* address space of 256 of which a program has Low to Stack - 1: a word is *)
(* four bytes, the lowest first.  What a program has not written is 0      *)
(* (module Vmm).  The first program is started by kernelMain, which has    *)
(* its arguments in memory of its own; the others by programs, with        *)
(* strings that they were given themselves.                                *)
(*                                                                         *)
(* A process has one thread and its memory is its own, so a loop over it   *)
(* is one step.  The segments of an image leave the top of the stack       *)
(* alone, which the code does not check.                                   *)
(***************************************************************************)
EXTENDS Integers, Sequences, FiniteSetsExt

CONSTANTS Low, Stack,  \* the lowest user address, and user_stack
          Images,      \* the files programs are read from
          MaxArgs      \* bound on the arguments a program passes

PT_LOAD == 1
Segments(m) == {k \in DOMAIN m.phents : m.phents[k].type = PT_LOAD}

\* An image: its size, what read_header looks at, the program headers, whose `data` is what
\* the file has at their offset, and the addresses of its string literals.  As linkers make
\* them, segments are apart, and a literal and the 0 after it are in the data of one.
ASSUME ExecAssumption ==
    /\ Low \in Nat /\ Stack \in Nat /\ Low < Stack /\ Stack < 256
    /\ \A m \in Images :
           /\ m.phents \in Seq({m.phents[k] : k \in DOMAIN m.phents})
           /\ \A k \in DOMAIN m.phents :
                  LET ph == m.phents[k]
                  IN  /\ {ph.vaddr, ph.filesize, ph.memsize} \subseteq Nat
                      /\ ph.vaddr >= Low /\ ph.vaddr + ph.memsize < Stack
                      /\ ph.data \in Seq(Nat)
                      /\ Len(ph.data) <= ph.filesize /\ ph.filesize <= ph.memsize
           /\ \A j, k \in Segments(m) : j # k =>
                  \/ m.phents[j].vaddr + m.phents[j].memsize <= m.phents[k].vaddr
                  \/ m.phents[k].vaddr + m.phents[k].memsize <= m.phents[j].vaddr
           /\ \A l \in m.literals : \E k \in Segments(m) :
                  LET ph == m.phents[k]
                  IN  \E z \in DOMAIN ph.data :
                         l \in ph.vaddr .. ph.vaddr + z - 1 /\ ph.data[z] = 0

VARIABLES memory,    \* memory[a], of the process
          image,     \* what it runs
          program,   \* what it is to run
          argv,      \* the addresses of the arguments: those main got, those exec is given
          buffer,    \* the kernel's copy of them
          loaded,    \* the program headers that load has done
          eip, esp,  \* of the program
          stage,     \* "user", or the place in exec
          said       \* the strings that were passed: what the program is to find

execVars == <<memory, image, program, argv, buffer, loaded, eip, esp, stage, said>>

-----------------------------------------------------------------------------
(* Memory.                                                                  *)

User == Low .. Stack - 1
Blank == [a \in User |-> 0]

\* A word, which here is below 256.
Bytes(w) == <<w, 0, 0, 0>>
Word(m, a) == m[a] + 256 * (m[a + 1] + m[a + 2] + m[a + 3])

\* memcpy and bzero; of a negative count they do nothing.
memcpy(m, to, bytes) ==
    [a \in DOMAIN m |-> IF a - to + 1 \in DOMAIN bytes THEN bytes[a - to + 1] ELSE m[a]]
bzero(m, from, n) == [a \in DOMAIN m |-> IF from <= a /\ a < from + n THEN 0 ELSE m[a]]

\* The string at a, and its length.
strlen(m, a) == Min({n \in 0 .. Stack - 1 - a : m[a + n] = 0})
String(m, a) == [k \in 1 .. strlen(m, a) |-> m[a + k - 1]]
Concat(strings) ==
    LET upto[k \in 0 .. Len(strings)] ==
            IF k = 0 THEN <<>> ELSE upto[k - 1] \o Append(strings[k], 0)
    IN  upto[Len(strings)]

-----------------------------------------------------------------------------
(* The steps of exec.                                                       *)

\* ELF::read_header.
Accepts(m) ==
    /\ m.size >= 52
    /\ m.magic = "ELF" /\ m.class = 1 /\ m.data = 1 /\ m.abi = 0
    /\ m.type = 2 /\ m.machine = 3
    /\ m.entry >= Low

\* A program calls exec.
Exec(m, args) ==
    /\ stage = "user"
    /\ program' = m
    /\ argv' = args
    /\ said' = [i \in DOMAIN args |-> String(memory, args[i])]
    /\ stage' = "header"
    /\ UNCHANGED <<memory, image, buffer, loaded, eip, esp>>

\* -1: the program goes on.
Refuse ==
    /\ stage = "header" /\ ~Accepts(program)
    /\ stage' = "user"
    /\ UNCHANGED <<memory, image, program, argv, buffer, loaded, eip, esp, said>>

\* Mutant: no room for the word after the last argument.
OffsetArgc == Len(argv) * 4

\* The offsets of the strings in the buffer, a word 0 after them, and the strings.
Offset == (Len(argv) + 1) * 4
Offsets(strings, offset) ==
    LET next[k \in 0 .. Len(strings)] ==
            IF k = 0 THEN offset ELSE next[k - 1] + Len(strings[k]) + 1
    IN  [k \in DOMAIN strings |-> next[k - 1]]

\* new char[sz], the words and the strings; the strings come first, the word 0 last.
CopyArgs ==
    LET strings == [i \in DOMAIN argv |-> String(memory, argv[i])]
        text    == Concat(strings)
        places  == Offsets(strings, Offset)
        blank   == [a \in 0 .. Offset + Len(text) - 1 |-> 0]
        words[k \in 0 .. Len(argv)] ==
            IF k = 0 THEN memcpy(blank, Offset, text)
            ELSE memcpy(words[k - 1], 4 * (k - 1), Bytes(places[k]))
    IN  /\ stage = "header" /\ Accepts(program)
        /\ buffer' = memcpy(words[Len(argv)], 4 * Len(argv), Bytes(0))
        /\ stage' = "reset"
        /\ UNCHANGED <<memory, image, program, argv, loaded, eip, esp, said>>

\* Mutant: what the last program wrote stays.
Keep == memory

Clear == Blank

\* Process::reset.
Reset ==
    /\ stage = "reset"
    /\ memory' = Clear
    /\ image' = program
    /\ loaded' = 0
    /\ stage' = "load"
    /\ UNCHANGED <<program, argv, buffer, eip, esp, said>>

\* ELF::load, of one header: what the file has of it, and zeros up to memsize.
Load ==
    LET ph   == image.phents[loaded + 1]
        read == memcpy(memory, ph.vaddr, ph.data)
    IN  /\ stage = "load" /\ loaded < Len(image.phents)
        /\ memory' = IF ph.type # PT_LOAD THEN memory
                     ELSE bzero(read, ph.vaddr + ph.filesize, ph.memsize - ph.filesize)
        /\ loaded' = loaded + 1
        /\ UNCHANGED <<image, program, argv, buffer, eip, esp, stage, said>>

\* The place of the arguments: (user_stack - sz - 8) & ~15, and 8.
Aligned(size) == 16 * ((Stack - size - 8) \div 16) + 8

\* The buffer goes to the stack, the offsets become addresses, and argc and argv go below.
Push ==
    LET size   == Cardinality(DOMAIN buffer)
        top    == Aligned(size)
        copied == memcpy(memory, top, [k \in 1 .. size |-> buffer[k - 1]])
        moved[k \in 0 .. Len(argv)] ==
            IF k = 0 THEN copied
            ELSE LET a == top + 4 * (k - 1)
                 IN  memcpy(moved[k - 1], a, Bytes(Word(moved[k - 1], a) + top))
    IN  /\ stage = "load" /\ loaded = Len(image.phents)
        /\ memory' = memcpy(memcpy(moved[Len(argv)], top - 8, Bytes(Len(argv))),
                            top - 4, Bytes(top))
        /\ esp' = top - 8
        /\ stage' = "switch"
        /\ UNCHANGED <<image, program, argv, buffer, loaded, eip, said>>

\* delete[] buffer, and switchToUser.
SwitchToUser ==
    /\ stage = "switch"
    /\ eip' = image.entry
    /\ buffer' = <<>>
    /\ stage' = "entered"
    /\ UNCHANGED <<memory, image, program, argv, loaded, esp, said>>

\* What main finds.
Argc == Word(memory, esp)
Argv == [i \in 1 .. Argc |-> Word(memory, Word(memory, esp + 4) + 4 * (i - 1))]

\* The program writes to all of its memory but its text and the strings it was given.
Text(m) == UNION {ph.vaddr .. ph.vaddr + Len(ph.data) - 1 : ph \in {m.phents[k] : k \in DOMAIN m.phents}}
Run ==
    LET given == UNION {Argv[i] .. Argv[i] + strlen(memory, Argv[i]) : i \in 1 .. Argc}
    IN  /\ stage = "entered"
        /\ argv' = Argv
        /\ memory' = [a \in User |-> IF a \in given \cup Text(image) THEN memory[a] ELSE 9]
        /\ stage' = "user"
        /\ UNCHANGED <<image, program, buffer, loaded, eip, esp, said>>

\* kernelMain, with the arguments the first program is to have.
Boots(m, args) ==
    LET text == Concat(args)
    IN  /\ memory = memcpy(Blank, Low, text)
        /\ image = m /\ program = m
        /\ argv = Offsets(args, Low)
        /\ said = args
        /\ buffer = <<>> /\ loaded = 0 /\ eip = 0 /\ esp = 0
        /\ stage = "header"

\* What a program passes on: strings it was given, and literals.
Strings == {argv[i] : i \in DOMAIN argv} \cup image.literals
ExecNext ==
    \/ \E m \in Images, n \in 0 .. MaxArgs : \E args \in [1 .. n -> Strings] : Exec(m, args)
    \/ Refuse \/ CopyArgs \/ Reset \/ Load \/ Push \/ SwitchToUser \/ Run

-----------------------------------------------------------------------------
(* Properties.                                                              *)

\* main is given what exec was called with (sys.cc:229-253): argc, the strings, a null pointer
\* after the last (file.c:10), all of it on the stack, at an address the ABI allows; although
\* the strings were in the memory that is cleared in between.
Arguments ==
    /\ Argc = Len(said)
    /\ \A i \in 1 .. Argc : String(memory, Argv[i]) = said[i]
    /\ Word(memory, Word(memory, esp + 4) + 4 * Argc) = 0
    /\ esp % 16 = 0

\* Below the stack there is the image, zeros included, and nothing of the program before
\* (memory.c:66: "I can read data from previous programs").
Covers(ph, a) == ph.type = PT_LOAD /\ ph.vaddr <= a /\ a < ph.vaddr + ph.memsize
Content(m, a) ==
    LET over == {k \in DOMAIN m.phents : Covers(m.phents[k], a)}
        ph   == m.phents[Max(over)]
    IN  IF over = {} \/ a - ph.vaddr + 1 \notin DOMAIN ph.data THEN 0
        ELSE ph.data[a - ph.vaddr + 1]
Image == \A a \in Low .. esp - 1 : memory[a] = Content(image, a)

\* A program starts with the arguments it was passed and its own image, and nothing else.
StartsAsAsked ==
    stage = "entered" => /\ Arguments /\ Image
                         /\ image = program /\ eip = program.entry /\ Accepts(program)
=============================================================================
