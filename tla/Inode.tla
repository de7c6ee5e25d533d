------------------------------- MODULE Inode -------------------------------
(***************************************************************************)
(* Lab3/pintos/src/filesys/inode.c and free-map.c: how files lie on the    *)
(* device.  The functions are operators on an image of it,                 *)
(*                                                                         *)
(*   [used  |-> the sectors the free map in memory marks,                  *)
(*    store |-> what buffer_cache_read returns for each sector],           *)
(*                                                                         *)
(* that return the image they leave.  A sector is read as a header, an     *)
(* index block or data, whichever the reader expects; a sector of zeros    *)
(* serves as any of them.  Sizes count cells, and a cell is the space of   *)
(* one directory entry: << >> for zeros, <<v>> for data v (or the bitmap), *)
(* <<name, sector>> for an entry in use.                                   *)
(***************************************************************************)
EXTENDS Integers, FiniteSetsExt, SequencesExt

CONSTANTS SectorCount,                 \* block_size (fs_device)
          BLOCK_SECTOR_SIZE,           \* in cells
          DIRECT_BLOCKS_COUNT,
          INDIRECT_BLOCKS_PER_SECTOR

ASSUME InodeAssumption ==
  /\ SectorCount \in Nat /\ SectorCount > 4
  /\ {BLOCK_SECTOR_SIZE, DIRECT_BLOCKS_COUNT, INDIRECT_BLOCKS_PER_SECTOR}
       \subseteq Nat \ {0}

Sectors == 0 .. SectorCount - 1
FREE_MAP_SECTOR == 0
ROOT_DIR_SECTOR == 1
FreeMapData == 2        \* the sector do_format gives the free map's bits

Offsets == 0 .. BLOCK_SECTOR_SIZE - 1
Entries == 0 .. INDIRECT_BLOCKS_PER_SECTOR - 1
DIV_ROUND_UP(x, step) == (x + step - 1) \div step
bytes_to_sectors(size) == DIV_ROUND_UP(size, BLOCK_SECTOR_SIZE)

NoInode == [direct |-> [i \in 0 .. DIRECT_BLOCKS_COUNT - 1 |-> 0],
            indirect |-> 0, doubly |-> 0, length |-> 0]

Zeros == [is |-> "zeros"]
Header(inode) == [is |-> "header", inode |-> inode]
Index(blocks) == [is |-> "index", blocks |-> blocks]
Data(cells) == [is |-> "data", cells |-> cells]

AsHeader(sec) == IF sec.is = "header" THEN sec.inode ELSE NoInode
AsIndex(sec) == IF sec.is = "index" THEN sec.blocks ELSE [i \in Entries |-> 0]
AsData(sec) == IF sec.is = "data" THEN sec.cells ELSE [c \in Offsets |-> << >>]

buffer_cache_write(d, s, sec) == [d EXCEPT !.store[s] = sec]

----------------------------------------------------------------------------
(* The free map                                                            *)

\* The bits go to the first cell of the free map file, the rest stays.
bitmap_write(d) ==
  buffer_cache_write(d, FreeMapData,
                     Data([AsData(d.store[FreeMapData]) EXCEPT ![0] = <<d.used>>]))

\* Mutation: the bitmap on the device is left as it was.
free_map_allocate_unsaved(d) ==
  LET free == Sectors \ d.used
  IN  IF free = {} THEN [image |-> d, entry |-> 0, ok |-> FALSE]
      ELSE [image |-> [d EXCEPT !.used = @ \cup {Min(free)}],
            entry |-> Min(free), ok |-> TRUE]

\* One sector, the first that is free; entry stays 0 if there is none.
free_map_allocate(d) ==
  LET free == Sectors \ d.used
  IN  IF free = {} THEN [image |-> d, entry |-> 0, ok |-> FALSE]
      ELSE [image |-> bitmap_write([d EXCEPT !.used = @ \cup {Min(free)}]),
            entry |-> Min(free), ok |-> TRUE]

\* Sectors given back one after the other; each must be marked.
free_map_release(d, released) ==
  [image |-> bitmap_write([d EXCEPT !.used = @ \ Range(released)]),
   ok |-> Range(released) \subseteq d.used /\ IsInjective(released)]

----------------------------------------------------------------------------
(* Reserving sectors.  A result has the image, the entry of the inode or   *)
(* index block that was filled in, and whether the space was found.        *)

\* Mutation: a sector that was used before keeps its contents.
reserve_data_unzeroed(d, entry) ==
  IF entry # 0 THEN [image |-> d, entry |-> entry, ok |-> TRUE]
  ELSE free_map_allocate(d)

\* Zeros go to a sector that was found.
zero_filled(a) ==
  IF a.ok THEN [a EXCEPT !.image = buffer_cache_write(@, a.entry, Zeros)] ELSE a

\* Level 0: a sector of data, filled with zeros if it is new.
reserve_data(d, entry) ==
  IF entry # 0 THEN [image |-> d, entry |-> entry, ok |-> TRUE]
  ELSE zero_filled(free_map_allocate(d))

\* An index block with its entries, new and filled with zeros if there was
\* none.  That free_map_allocate may fail is not looked at: the zeros then go
\* to sector 0.
index_read(d, entry) ==
  [image |-> d, entry |-> entry, blocks |-> AsIndex(d.store[entry]), ok |-> TRUE]
index_zeros(a) == index_read(buffer_cache_write(a.image, a.entry, Zeros), a.entry)
index_block(d, entry) ==
  IF entry = 0 THEN index_zeros(free_map_allocate(d)) ELSE index_read(d, entry)

\* One round of the loop over the entries: r is what was reserved for the
\* i-th.  A failure ends the loop.
reserve_entry(block, i, r) ==
  IF block.ok
  THEN [block EXCEPT !.image = r.image, !.blocks[i] = r.entry, !.ok = r.ok]
  ELSE block

\* The block is written back only if all its entries were found.
write_index(block) ==
  [image |-> IF block.ok
             THEN buffer_cache_write(block.image, block.entry, Index(block.blocks))
             ELSE block.image,
   entry |-> block.entry, ok |-> block.ok]

\* Level 1: n sectors of data below an index block.
reserve_indirect(d, entry, n) ==
  LET upto[i \in 0 .. n] ==
        IF i = 0 THEN index_block(d, entry)
        ELSE LET p == upto[i - 1]
             IN  reserve_entry(p, i - 1, reserve_data(p.image, p.blocks[i - 1]))
  IN  write_index(upto[n])

\* Level 2: index blocks below an index block.
reserve_doubly(d, entry, n) ==
  LET unit == INDIRECT_BLOCKS_PER_SECTOR
      upto[i \in 0 .. DIV_ROUND_UP(n, unit)] ==
        IF i = 0 THEN index_block(d, entry)
        ELSE LET p == upto[i - 1]
             IN  reserve_entry(p, i - 1,
                   reserve_indirect(p.image, p.blocks[i - 1],
                                    Min({n - (i - 1) * unit, unit})))
  IN  write_index(upto[DIV_ROUND_UP(n, unit)])

\* How many of n sectors hang off the inode's entries of each kind.
InDirect(n) == Min({n, DIRECT_BLOCKS_COUNT})
InIndirect(n) == Min({n - InDirect(n), INDIRECT_BLOCKS_PER_SECTOR})
InDoubly(n) == n - InDirect(n) - InIndirect(n)

\* The three parts of inode_reserve, in their order: each has as r the image
\* and the inode that the one before left, and does nothing after a failure.
with_direct(d, inode, n) ==
  LET upto[i \in 0 .. n] ==
        IF i = 0 THEN [image |-> d, inode |-> inode, ok |-> TRUE]
        ELSE LET p == upto[i - 1]
                 r == reserve_data(p.image, p.inode.direct[i - 1])
             IN  IF p.ok THEN [image |-> r.image, ok |-> r.ok,
                               inode |-> [p.inode EXCEPT !.direct[i - 1] = r.entry]]
                 ELSE p
  IN  upto[n]

with_indirect(r, n) ==
  IF ~r.ok \/ n = 0 THEN r
  ELSE LET i == reserve_indirect(r.image, r.inode.indirect, n)
       IN  [image |-> i.image, inode |-> [r.inode EXCEPT !.indirect = i.entry], ok |-> i.ok]

with_doubly(r, n) ==
  IF ~r.ok \/ n = 0 THEN r
  ELSE LET i == reserve_doubly(r.image, r.inode.doubly, n)
       IN  [image |-> i.image, inode |-> [r.inode EXCEPT !.doubly = i.entry], ok |-> i.ok]

\* Room for length cells.  What was reserved before a failure stays
\* reserved, and in the inode.
inode_reserve(d, inode, length) ==
  LET n == bytes_to_sectors(length)
  IN  with_doubly(with_indirect(with_direct(d, inode, InDirect(n)), InIndirect(n)),
                  InDoubly(n))

\* The header with the new length goes to the device if the space was found.
with_length(r, sector, length) ==
  IF r.ok
  THEN [image |-> buffer_cache_write(r.image, sector,
                    Header([r.inode EXCEPT !.length = length])),
        inode |-> [r.inode EXCEPT !.length = length], ok |-> TRUE]
  ELSE r

inode_create(d, sector, length) ==
  with_length(inode_reserve(d, NoInode, length), sector, length)

----------------------------------------------------------------------------
(* Finding, reading and writing the data                                   *)

index_to_sector(store, inode, index) ==
  LET second == index - DIRECT_BLOCKS_COUNT
      third  == second - INDIRECT_BLOCKS_PER_SECTOR
      Entry(s, i) == AsIndex(store[s])[i]
  IN  IF index < DIRECT_BLOCKS_COUNT THEN inode.direct[index]
      ELSE IF second < INDIRECT_BLOCKS_PER_SECTOR THEN Entry(inode.indirect, second)
      ELSE Entry(Entry(inode.doubly, third \div INDIRECT_BLOCKS_PER_SECTOR),
                 third % INDIRECT_BLOCKS_PER_SECTOR)

byte_to_sector(store, inode, pos) ==
  index_to_sector(store, inode, pos \div BLOCK_SECTOR_SIZE)

\* The cell that inode_read_at reads at pos.
inode_read_at(store, inode, pos) ==
  AsData(store[byte_to_sector(store, inode, pos)])[pos % BLOCK_SECTOR_SIZE]

\* cells go to offset, sector by sector, if there is room for them.
write_cells(r, cells, offset) ==
  LET Put(x, i) == LET s == byte_to_sector(x.store, r.inode, offset + i - 1)
                   IN  buffer_cache_write(x, s, Data(
                         [AsData(x.store[s]) EXCEPT ![(offset + i - 1) % BLOCK_SECTOR_SIZE]
                            = cells[i]]))
  IN  IF r.ok THEN [image |-> FoldLeft(Put, r.image, [i \in 1 .. Len(cells) |-> i]),
                    inode |-> r.inode, written |-> Len(cells)]
      ELSE [image |-> r.image, inode |-> r.inode, written |-> 0]

\* cells, at least one, are written after the file has been extended if it
\* ends before them.
inode_write_at(d, inode, sector, cells, offset) ==
  LET end == offset + Len(cells)
  IN  write_cells(IF end <= inode.length THEN [image |-> d, inode |-> inode, ok |-> TRUE]
                  ELSE with_length(inode_reserve(d, inode, end), sector, end),
                  cells, offset)

----------------------------------------------------------------------------
(* The sectors of a removed file, in the order they are released           *)

dealloc_indirect(store, entry, n) ==
  Append([i \in 1 .. n |-> AsIndex(store[entry])[i - 1]], entry)

dealloc_doubly(store, entry, n) ==
  LET K == INDIRECT_BLOCKS_PER_SECTOR
      Sub(i) == dealloc_indirect(store, AsIndex(store[entry])[i - 1],
                                 Min({n - (i - 1) * K, K}))
  IN  Append(FlattenSeq([i \in 1 .. DIV_ROUND_UP(n, K) |-> Sub(i)]), entry)

inode_deallocate(store, inode) ==
  LET n == bytes_to_sectors(inode.length)
  IN  [i \in 1 .. InDirect(n) |-> inode.direct[i - 1]]
        \o (IF InIndirect(n) = 0 THEN << >>
            ELSE dealloc_indirect(store, inode.indirect, InIndirect(n)))
        \o (IF InDoubly(n) = 0 THEN << >>
            ELSE dealloc_doubly(store, inode.doubly, InDoubly(n)))
=============================================================================
