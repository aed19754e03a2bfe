------------------------------- MODULE Mount -------------------------------
(***************************************************************************)
(* Mounting an ext2 disk and finding an i-node on it by its number (the    *)
(* constructor of Ext2 and getInode, src/kernel/ext2.cc): arithmetic on    *)
(* byte offsets, from what the superblock says.  The disk is external: it  *)
(* is what mke2fs writes.  Disk[a] is the number at byte a, and an i-node  *)
(* is a number of its own.                                                 *)
(***************************************************************************)
EXTENDS Integers, FiniteSetsExt

CONSTANT Disks  \* disks by their sizes, see DisksAssumption

\* block: the bytes of a block; inodes, perGroup: how many there are, and in a group; blocks,
\* groupBlocks: blocks likewise; tables[g]: the block in which the i-nodes of group g start.
\* The third conjunct is the ASSERT of ext2.cc:153, which fails for some disks mke2fs writes:
\* with 1024 bytes to a block the first block is in no group, and the code counts it.
\* The last is that the tables of two groups are apart.
ASSUME DisksAssumption == \A d \in Disks :
    /\ d.block \in {1024 * 2 ^ k : k \in 0 .. 2}
    /\ d.inodes \in Nat \ {0} /\ d.perGroup \in Nat \ {0}
    /\ (d.inodes - 1) \div d.perGroup = (d.blocks - 1) \div d.groupBlocks
    /\ d.tables \in [0 .. (d.inodes - 1) \div d.perGroup -> Nat]
    /\ \A g, h \in DOMAIN d.tables : g # h =>
           \/ d.tables[g] * d.block + 128 * d.perGroup <= d.tables[h] * d.block
           \/ d.tables[h] * d.block + 128 * d.perGroup <= d.tables[g] * d.block

VARIABLES disk,    \* what is in the drive
          super,   \* what the constructor keeps of the superblock
          group_table,
          inode    \* the i-node getInode was asked for and what it read; 0 for none

mountVars == <<disk, super, group_table, inode>>

-----------------------------------------------------------------------------
(* The disk.                                                                *)

BlockOf(d, byte) == byte \div d.block
Groups(d) == DOMAIN d.tables
InGroup(d, g) == {i \in 1 .. d.inodes : g * d.perGroup < i /\ i <= (g + 1) * d.perGroup}

\* The group descriptors are in the block after the one with the superblock.
Descriptors(d) == (BlockOf(d, 1024) + 1) * d.block

\* The k-th i-node of a group is the k-th record of 128 bytes of its table.
Records(d) == UNION {
    {[byte |-> d.tables[g] * d.block + 128 * (i - Min(InGroup(d, g))), is |-> i] :
         i \in InGroup(d, g)} : g \in Groups(d)}

Written(d) ==
    {[byte |-> 1024 + 0, is |-> d.inodes], [byte |-> 1024 + 4, is |-> d.blocks],
     [byte |-> 1024 + 24, is |-> CHOOSE k \in 0 .. 2 : d.block = 1024 * 2 ^ k],
     [byte |-> 1024 + 32, is |-> d.groupBlocks], [byte |-> 1024 + 40, is |-> d.perGroup]}
    \cup {[byte |-> Descriptors(d) + 32 * g + 8, is |-> d.tables[g]] : g \in Groups(d)}

\* The number at byte a, and the i-node whose record starts there; -1 for anything else.
At(records, a) ==
    LET here == {r \in records : r.byte = a}
    IN  IF here = {} THEN -1 ELSE (CHOOSE r \in here : TRUE).is
Number(a) == At(Written(disk), a)
InodeAt(a) == At(Records(disk), a)

-----------------------------------------------------------------------------
(* Ext2.                                                                    *)

NotMounted == [mounted |-> FALSE]

SECTOR == 512

\* The offset of the descriptors in a disk with blocks of b bytes.
bgdt_offset(b) == b * (IF b = 1024 THEN 2 ELSE 1)

\* Ext2::Ext2, from sector 2.
Mount ==
    LET at(k)  == Number(2 * SECTOR + k)
        size   == 1024 * 2 ^ at(24)
        groups == (at(0) - 1) \div at(40) + 1
    IN  /\ ~super.mounted
        /\ super' = [mounted |-> TRUE, block_size |-> size, inode_count |-> at(0),
                     inode_count_per_group |-> at(40), block_group_count |-> groups]
        /\ group_table' = [g \in 0 .. groups - 1 |-> Number(bgdt_offset(size) + 32 * g + 8)]
        /\ UNCHANGED <<disk, inode>>

\* The block group is beyond the last.
Panic == -2

\* Mutant: i-nodes counted from 0.
FromZero(n) == n

FromOne(n) == n - 1

\* Ext2::getInode.
GetInode(n) ==
    LET group  == FromOne(n) \div super.inode_count_per_group
        index  == FromOne(n) % super.inode_count_per_group
        place  == group_table[group] * super.block_size + 128 * index
    IN  /\ super.mounted
        /\ inode' = [asked |-> n, is |-> IF group \in DOMAIN group_table THEN InodeAt(place)
                                         ELSE Panic]
        /\ UNCHANGED <<disk, super, group_table>>

MountInit ==
    /\ disk \in Disks
    /\ super = NotMounted
    /\ group_table = <<>>
    /\ inode = [asked |-> 0, is |-> 0]

MountNext == Mount \/ \E n \in 1 .. disk.inodes : GetInode(n)
MountSpec == MountInit /\ [][MountNext]_mountVars

-----------------------------------------------------------------------------
(* Properties.                                                              *)

\* getInode (ext2.cc:109) reads the i-node that it is asked for: first and last of a group,
\* on disks of any block size, when the last group is not full.
InodesFound == inode.asked = inode.is
=============================================================================
