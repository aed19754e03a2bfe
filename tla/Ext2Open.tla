------------------------------ MODULE Ext2Open ------------------------------
(***************************************************************************)
(* Finding a file by its path (Ext2::open, src/kernel/ext2.cc).  open goes *)
(* through directories name by name; when the last name is a symbolic      *)
(* link's it starts again with the link's path, at most MAX_DEPTH times,   *)
(* and it gives files only.  It is one function with gotos, and frees two  *)
(* buffers by hand on its ways out; `held` says which it holds, as a       *)
(* count.  A path is whether it starts with a slash, and its names; the    *)
(* name after a trailing slash is empty, and no entry has it.  The search  *)
(* of a directory's blocks for a name is one step.                         *)
(***************************************************************************)
EXTENDS Integers, Sequences, FiniteSets

CONSTANTS Inode, Root,
          kind,       \* kind[i]: "dir", "file" or "link"
          entries,    \* entries[d]: the i-nodes of directory d by name
          Paths,      \* the paths programs open
          Targets,    \* the paths of links
          MAX_DEPTH,
          Null

Dirs == {i \in Inode : kind[i] = "dir"}
Links == {i \in Inode : kind[i] = "link"}

ASSUME Ext2OpenAssumption ==
    /\ Root \in Dirs /\ Null \notin Inode
    /\ \A i \in Inode : kind[i] \in {"dir", "file", "link"}
    /\ \A d \in Dirs : \A n \in DOMAIN entries[d] : entries[d][n] \in Inode
    /\ \A p \in Paths \cup Targets : p.names \in Seq({p.names[k] : k \in DOMAIN p.names})
    /\ MAX_DEPTH \in Nat \ {0}

VARIABLES target,    \* target[l]: the path of link l
          dir, name, \* the arguments
          cd, path,  \* the directory it is in, and the names to go
          depth,     \* links it may still follow
          base,      \* the path it follows
          file, held, pc

vars == <<target, dir, name, cd, path, depth, base, file, held, pc>>
given == <<target, dir, name>>

Start(d, n) ==
    /\ cd = d /\ base = n /\ path = n.names
    /\ depth = MAX_DEPTH
    /\ file = Null
    /\ held = [buffer |-> 1, base |-> 1]
    /\ pc = "follow_path"

Init ==
    /\ target \in [Links -> Targets]
    /\ dir \in Dirs /\ name \in Paths
    /\ Start(dir, name)

Freed(what) == [b \in DOMAIN held |-> IF b \in what THEN held[b] - 1 ELSE held[b]]

Fail ==
    /\ file' = Null
    /\ held' = Freed({"buffer", "base"})
    /\ pc' = "done"
    /\ UNCHANGED <<cd, path, depth, base>>

DepthGone == depth = 0

\* follow_path: from the root, or from where the walk is.
FollowPath ==
    /\ pc = "follow_path"
    /\ IF DepthGone THEN Fail
       ELSE /\ cd' = IF base.abs THEN Root ELSE cd
            /\ path' = base.names
            /\ pc' = "next_link"
            /\ UNCHANGED <<depth, base, file, held>>
    /\ UNCHANGED given

Found == cd \in Dirs /\ path # <<>> /\ Head(path) \in DOMAIN entries[cd]

\* next_link: one name.
NextLink ==
    /\ pc = "next_link"
    /\ IF ~Found THEN Fail
       ELSE IF Len(path) = 1
       THEN /\ file' = entries[cd][Head(path)]
            /\ pc' = "parse_file"
            /\ UNCHANGED <<cd, path, depth, base, held>>
       ELSE /\ cd' = entries[cd][Head(path)]
            /\ path' = Tail(path)
            /\ UNCHANGED <<pc, depth, base, file, held>>
    /\ UNCHANGED given

\* Mutant: the old path is not freed when a link is followed.
BasesKept == [held EXCEPT !.base = @ + 1]

\* delete[] base, and new char for the path of the link.
BasesSwapped == [Freed({"base"}) EXCEPT !.base = @ + 1]

\* Mutant: links are not counted.
DepthKept == depth

DepthLeft == depth - 1

\* Mutant: directories are given too.
GivesAny(i) == i

Gives(i) == IF i \in Dirs THEN Null ELSE i

\* parse_file: a link is followed, a file given, a directory not.
ParseFile ==
    /\ pc = "parse_file"
    /\ IF file \in Links
       THEN /\ base' = target[file]
            /\ held' = BasesSwapped
            /\ depth' = DepthLeft
            /\ pc' = "follow_path"
            /\ UNCHANGED <<cd, path, file>>
       ELSE /\ file' = Gives(file)
            /\ held' = Freed({"buffer", "base"})
            /\ pc' = "done"
            /\ UNCHANGED <<cd, path, depth, base>>
    /\ UNCHANGED given

Stopped == pc = "done" /\ UNCHANGED vars

Next == FollowPath \/ NextLink \/ ParseFile \/ Stopped
Spec == Init /\ [][Next]_vars /\ WF_vars(Next)

-----------------------------------------------------------------------------
(* Properties.                                                              *)

\* Where a path leads from directory d, without a look at what is there: the directory of
\* its last name, and what has that name.
Walk(d, n) ==
    LET here == IF n.abs THEN Root ELSE d
        at[k \in 0 .. Len(n.names)] ==
            IF k = 0 THEN here
            ELSE IF at[k - 1] \in Dirs /\ n.names[k] \in DOMAIN entries[at[k - 1]]
            THEN entries[at[k - 1]][n.names[k]] ELSE Null
    IN  IF n.names = <<>> THEN [in |-> Null, to |-> Null]
        ELSE [in |-> at[Len(n.names) - 1], to |-> at[Len(n.names)]]

\* Where the k-th link on the way leads.
Hops ==
    LET hop[k \in 0 .. MAX_DEPTH] ==
            IF k = 0 THEN Walk(dir, name)
            ELSE IF hop[k - 1].to \in Links
            THEN Walk(hop[k - 1].in, target[hop[k - 1].to]) ELSE hop[k - 1]
    IN  hop

\* open gives the file at the end of the links, and nothing when there is no such file, when
\* it is a directory, or when more than MAX_DEPTH - 1 links are on the way.
FoundWhatIsThere ==
    pc = "done" =>
        LET end == Hops[MAX_DEPTH - 1].to
        IN  file = IF end # Null /\ kind[end] = "file" THEN end ELSE Null

\* open returns, also from links that lead to each other, and on every way through the gotos
\* both buffers have been freed, once.
OpenReturns == <>(pc = "done" /\ held = [buffer |-> 0, base |-> 0])
=============================================================================
