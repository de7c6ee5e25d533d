---------------------------- MODULE FileSystem ----------------------------
(***************************************************************************)
(* Lab3/pintos/src/filesys: the calls of filesys.h and file.h, one at a    *)
(* time, on the root directory, the only directory the kernel makes.  The  *)
(* inodes of files are kept in memory while they are open; the root's is   *)
(* read at the start of each call that uses it and dropped at its end, and *)
(* the free map's never changes after do_format.                           *)
(*                                                                         *)
(* store is what buffer_cache_read returns; filesys_done writes all of it  *)
(* to the device.  Memory for the structures in the kernel is not limited. *)
(***************************************************************************)
EXTENDS Inode

CONSTANTS Names, Handles, Values,
          RootEntries,   \* cells of the new root directory
          ParentEntries, \* what its first entry may be
          CreateSizes,   \* of the files created
          WriteSizes,    \* of what is read or written at a time
          Seeks,         \* positions given to file_seek
          MaxLength,     \* bound on the length of a file
          MaxCalls       \* bound on the number of calls

\* The entry for the parent, at offset 0, has an in_use that nobody set: it
\* counts as free if that byte of dir_create's stack happens to be zero.
ParentFree == << >>
ParentInUse == <<"..", ROOT_DIR_SECTOR>>

ASSUME FileSystemAssumption ==
  /\ ParentEntries \subseteq {ParentFree, ParentInUse}
  /\ RootEntries \in 1 .. BLOCK_SECTOR_SIZE * DIRECT_BLOCKS_COUNT
  /\ CreateSizes \subseteq Nat /\ WriteSizes \subseteq Nat \ {0}
  /\ Seeks \subseteq 0 .. MaxLength

VARIABLES free_map,     \* the sectors that are marked
          store,        \* the sectors, through the cache
          open_inodes,  \* count of openers, removed, deny_write_cnt, data
          file,         \* struct file of each handle: sector of the inode
                        \* (0 if it has none), pos and deny_write
          result,       \* what the last call returned: success? (FALSE
                        \* also if the boot stopped)
          panicked,     \* an assertion failed, or PANIC was called
          restarted,    \* history: the last call was a shutdown and a boot
          calls         \* how many calls there have been

vars == <<free_map, store, open_inodes, file, result, panicked, restarted, calls>>

image == [used |-> free_map, store |-> store]
SetImage(d) == free_map' = d.used /\ store' = d.store

NotOpen == [cnt |-> 0, removed |-> FALSE, deny |-> 0, data |-> NoInode]
NoFile == [inode |-> 0, pos |-> 0, deny |-> FALSE]

RootData == 3

\* A device that do_format has just formatted, and filesys_init opened.
Init ==
  /\ free_map = 0 .. RootData
  /\ \E parent \in ParentEntries :
       store = [s \in Sectors |->
         CASE s = FREE_MAP_SECTOR ->
                Header([NoInode EXCEPT !.direct[0] = FreeMapData, !.length = 1])
           [] s = ROOT_DIR_SECTOR ->
                Header([NoInode EXCEPT !.direct[0] = RootData, !.length = RootEntries])
           [] s = FreeMapData -> Data([AsData(Zeros) EXCEPT ![0] = <<0 .. RootData>>])
           [] s = RootData -> Data([AsData(Zeros) EXCEPT ![0] = parent])
           [] OTHER -> Zeros]
  /\ open_inodes = [s \in Sectors |-> NotOpen]
  /\ file = [h \in Handles |-> NoFile]
  /\ result = TRUE /\ panicked = FALSE /\ restarted = FALSE /\ calls = 0

----------------------------------------------------------------------------
(* The root directory                                                      *)

root == AsHeader(store[ROOT_DIR_SECTOR])

\* The offsets of the entries in use for name, from first on.
OffsetsOf(name, first, d) ==
  LET dir == root
  IN  {ofs \in first .. dir.length - 1 :
         LET e == inode_read_at(d.store, dir, ofs) IN Len(e) = 2 /\ e[1] = name}

\* The search starts behind the entry for the parent.
lookup(name, d) == OffsetsOf(name, 1, d)

\* The sector of the inode of the first entry for name.
SectorOf(name) == inode_read_at(store, root, Min(lookup(name, image)))[2]

\* The first offset that is not in use, or the end of the directory.
FreeSlot(d) ==
  Min({ofs \in 0 .. root.length - 1 : inode_read_at(d.store, root, ofs) = << >>}
        \cup {root.length})

dir_add(d, name, sector) ==
  IF lookup(name, d) # {} THEN [image |-> d, ok |-> FALSE]
  ELSE LET w == inode_write_at(d, root, ROOT_DIR_SECTOR, << <<name, sector>> >>,
                               FreeSlot(d))
       IN  [image |-> w.image, ok |-> w.written = 1]

----------------------------------------------------------------------------
(* Inodes in memory                                                        *)

inode_open(sector) ==
  IF open_inodes[sector].cnt > 0 THEN [open_inodes[sector] EXCEPT !.cnt = @ + 1]
  ELSE [NotOpen EXCEPT !.cnt = 1, !.data = AsHeader(store[sector])]

\* Mutation: a removed file is released when any of its openers closes it.
inode_close_early(sector, inode, d) ==
  LET last == inode.cnt = 1
      freed == free_map_release(d, <<sector>> \o inode_deallocate(d.store, inode.data))
  IN  /\ open_inodes' = [open_inodes EXCEPT
           ![sector] = IF last THEN NotOpen ELSE [inode EXCEPT !.cnt = @ - 1]]
      /\ SetImage(IF inode.removed THEN freed.image ELSE d)
      /\ panicked' = (inode.removed /\ ~freed.ok)

\* Mutation: the header of a removed file is not released.
inode_close_header(sector, inode, d) ==
  LET last == inode.cnt = 1
      freed == free_map_release(d, inode_deallocate(d.store, inode.data))
  IN  /\ open_inodes' = [open_inodes EXCEPT
           ![sector] = IF last THEN NotOpen ELSE [inode EXCEPT !.cnt = @ - 1]]
      /\ SetImage(IF last /\ inode.removed THEN freed.image ELSE d)
      /\ panicked' = (last /\ inode.removed /\ ~freed.ok)

\* One opener less; the last one releases the sectors of a removed file.
\* inode and d are the inode and the image at the call.
inode_close(sector, inode, d) ==
  LET last == inode.cnt = 1
      freed == free_map_release(d, <<sector>> \o inode_deallocate(d.store, inode.data))
  IN  /\ open_inodes' = [open_inodes EXCEPT
           ![sector] = IF last THEN NotOpen ELSE [inode EXCEPT !.cnt = @ - 1]]
      /\ SetImage(IF last /\ inode.removed THEN freed.image ELSE d)
      /\ panicked' = (last /\ inode.removed /\ ~freed.ok)

----------------------------------------------------------------------------
(* filesys.h                                                               *)

\* The kernel has not stopped; how many calls there are is bounded.
Goes == ~panicked /\ calls < MaxCalls /\ calls' = calls + 1
Call == Goes /\ restarted' = FALSE

\* A header, the data, the entry; on a failure only the header goes back.
filesys_create(name, size) ==
  LET a == free_map_allocate(image)
      c == inode_create(a.image, a.entry, size)
      e == dir_add(c.image, name, a.entry)
      ok == a.ok /\ c.ok /\ e.ok
      d == IF ~a.ok THEN a.image ELSE IF ~c.ok THEN c.image ELSE e.image
  IN  /\ Call
      /\ SetImage(IF ok \/ ~a.ok THEN d ELSE free_map_release(d, <<a.entry>>).image)
      /\ result' = ok
      /\ UNCHANGED <<open_inodes, file, panicked>>

\* A file with a name is never marked as removed: filesys_open's test for
\* that is about directories.
filesys_open(h, name) ==
  /\ Call /\ file[h] = NoFile
  /\ IF lookup(name, image) = {}
     THEN result' = FALSE /\ UNCHANGED <<open_inodes, file>>
     ELSE LET s == SectorOf(name)
          IN  /\ open_inodes' = [open_inodes EXCEPT ![s] = inode_open(s)]
              /\ file' = [file EXCEPT ![h] = [NoFile EXCEPT !.inode = s]]
              /\ result' = TRUE
  /\ UNCHANGED <<free_map, store, panicked>>

\* The entry is erased, then the inode is marked and closed.
filesys_remove(name) ==
  /\ Call
  /\ result' = (lookup(name, image) # {})
  /\ IF lookup(name, image) = {} THEN UNCHANGED <<free_map, store, open_inodes, panicked>>
     ELSE LET s == SectorOf(name)
              w == inode_write_at(image, root, ROOT_DIR_SECTOR, << << >> >>,
                                  Min(lookup(name, image)))
          IN  inode_close(s, [inode_open(s) EXCEPT !.removed = TRUE], w.image)
  /\ UNCHANGED file

\* filesys_done, then filesys_init on the same device.  The free map is read
\* through the header in its sector, whatever that holds by now.
Restart ==
  LET map == AsHeader(store[FREE_MAP_SECTOR])
  IN  /\ Goes /\ restarted' = TRUE
      /\ IF map.length = 0
         THEN /\ panicked' = TRUE /\ result' = FALSE
              /\ UNCHANGED <<free_map, store, open_inodes, file>>
         ELSE /\ free_map' = inode_read_at(store, map, 0)[1]
              /\ open_inodes' = [s \in Sectors |-> NotOpen]
              /\ file' = [h \in Handles |-> NoFile]
              /\ result' = TRUE
              /\ UNCHANGED <<store, panicked>>

----------------------------------------------------------------------------
(* file.h                                                                  *)

inode_of(h) == open_inodes[file[h].inode]

file_close(h) ==
  /\ Call /\ file[h] # NoFile
  /\ inode_close(file[h].inode,
                 [inode_of(h) EXCEPT !.deny = IF file[h].deny THEN @ - 1 ELSE @], image)
  /\ file' = [file EXCEPT ![h] = NoFile]
  /\ result' = TRUE

file_read(h, size) ==
  LET left == inode_of(h).data.length - file[h].pos
  IN  /\ Call /\ file[h] # NoFile /\ left > 0
      /\ file' = [file EXCEPT ![h].pos = @ + Min({size, left})]
      /\ result' = TRUE
      /\ UNCHANGED <<free_map, store, open_inodes, panicked>>

file_seek(h, new_pos) ==
  /\ Call /\ file[h] # NoFile
  /\ file' = [file EXCEPT ![h].pos = new_pos]
  /\ result' = TRUE
  /\ UNCHANGED <<free_map, store, open_inodes, panicked>>

file_write(h, cells) ==
  LET s == file[h].inode
      w == IF inode_of(h).deny > 0
           THEN [image |-> image, inode |-> inode_of(h).data, written |-> 0]
           ELSE inode_write_at(image, inode_of(h).data, s, cells, file[h].pos)
  IN  /\ Call /\ file[h] # NoFile
      /\ file[h].pos + Len(cells) <= MaxLength
      /\ SetImage(w.image)
      /\ open_inodes' = [open_inodes EXCEPT ![s].data = w.inode]
      /\ file' = [file EXCEPT ![h].pos = @ + w.written]
      /\ result' = (w.written = Len(cells))
      /\ UNCHANGED panicked

file_deny_write(h) ==
  /\ Call /\ file[h] # NoFile /\ ~file[h].deny
  /\ file' = [file EXCEPT ![h].deny = TRUE]
  /\ open_inodes' = [open_inodes EXCEPT ![file[h].inode].deny = @ + 1]
  /\ panicked' = (inode_of(h).deny + 1 > inode_of(h).cnt)
  /\ result' = TRUE
  /\ UNCHANGED <<free_map, store>>

file_allow_write(h) ==
  /\ Call /\ file[h] # NoFile /\ file[h].deny
  /\ file' = [file EXCEPT ![h].deny = FALSE]
  /\ open_inodes' = [open_inodes EXCEPT ![file[h].inode].deny = @ - 1]
  /\ panicked' = (inode_of(h).deny \notin 1 .. inode_of(h).cnt)
  /\ result' = TRUE
  /\ UNCHANGED <<free_map, store>>

Next ==
  \/ \E n \in Names, size \in CreateSizes : filesys_create(n, size)
  \/ \E h \in Handles, n \in Names : filesys_open(h, n)
  \/ \E n \in Names : filesys_remove(n)
  \/ \E h \in Handles : file_close(h)
  \/ \E h \in Handles, size \in WriteSizes : file_read(h, size)
  \/ \E h \in Handles, pos \in Seeks : file_seek(h, pos)
  \/ \E h \in Handles, size \in WriteSizes, v \in Values :
       file_write(h, [i \in 1 .. size |-> <<v>>])
  \/ \E h \in Handles : file_deny_write(h)
  \/ \E h \in Handles : file_allow_write(h)
  \/ Restart

Spec == Init /\ [][Next]_vars

----------------------------------------------------------------------------
(* Properties                                                              *)

\* The sectors of the file whose header is in s: header, index blocks, data.
Blocks(s) ==
  LET inode == AsHeader(store[s])
      n == bytes_to_sectors(inode.length)
      third == {AsIndex(store[inode.doubly])[i] :
                  i \in {j \in Entries : j * INDIRECT_BLOCKS_PER_SECTOR < InDoubly(n)}}
  IN  {s} \cup {index_to_sector(store, inode, i) : i \in 0 .. n - 1}
        \cup (IF InIndirect(n) > 0 THEN {inode.indirect} ELSE {})
        \cup (IF InDoubly(n) > 0 THEN {inode.doubly} \cup third ELSE {})

\* How many sectors such a file needs.
BlockCount(s) ==
  LET n == bytes_to_sectors(AsHeader(store[s]).length)
  IN  1 + n + (IF InIndirect(n) > 0 THEN 1 ELSE 0)
        + (IF InDoubly(n) > 0
           THEN 1 + DIV_ROUND_UP(InDoubly(n), INDIRECT_BLOCKS_PER_SECTOR) ELSE 0)

\* The headers in use: of the root, of the files in it, also at offset 0,
\* and of the files that are open.
Headers ==
  {ROOT_DIR_SECTOR}
    \cup {inode_read_at(store, root, ofs)[2] :
            ofs \in {o \in 0 .. root.length - 1 : inode_read_at(store, root, o) # << >>}}
    \cup {s \in Sectors : open_inodes[s].cnt > 0}

RemovedOpen == {s \in Sectors : open_inodes[s].removed}

\* Sectors that are marked and belong to no file.
Orphans ==
  free_map \ ({FREE_MAP_SECTOR, FreeMapData} \cup UNION {Blocks(s) : s \in Headers})

\* Every sector of every file, of its header, index blocks and data, is
\* marked in the free map, none is used twice or by two files, and none is
\* the free map's own: over all creations, extensions, removals of open
\* files and restarts (free_map_allocate, inode_reserve, inode_close).
SectorsExclusive ==
  LET all == UNION {Blocks(s) : s \in Headers}
  IN  /\ all \subseteq free_map \ {FREE_MAP_SECTOR, FreeMapData}
      /\ Cardinality(all) = MapThenSumSet(BlockCount, Headers)

\* A sector is lost, marked but out of reach of every file, only by a call
\* that reports a failure (filesys_create, inode_write_at: what inode_reserve
\* had found stays marked) or, if it belonged to a removed file that was open,
\* by a shutdown; and the free map's header is overwritten only by a call that
\* fails for lack of a free sector (index_block).
LossOnlyOnFailure ==
  [][/\ \/ Orphans' \subseteq Orphans \/ ~result'
        \/ /\ restarted'
           /\ Orphans' \ Orphans \subseteq UNION {Blocks(s) : s \in RemovedOpen}
     /\ \/ store'[FREE_MAP_SECTOR] = store[FREE_MAP_SECTOR]
        \/ ~result' /\ Cardinality(free_map') >= SectorCount - 1]_vars

\* The kernel's assertions on releasing sectors and on counting those who
\* deny writes never fail, and a restart finds the free map, unless its
\* header was overwritten while the device was full.
NoPanic == panicked => store[FREE_MAP_SECTOR] = Zeros

\* filesys_done leaves a device whose free map free_map_open can read, and no
\* assertion fails before, however full the device has been: free_map_open
\* takes anything else for a case of "can't read free map".
FreeMapReadable == ~panicked

Contents(inode) == [i \in 1 .. inode.length |-> inode_read_at(store, inode, i - 1)]

\* The file that a name is bound to, the files that are bound or open, and
\* the inode that a file is read through.
Binding(name) ==
  LET at == lookup(name, image)
  IN  IF at = {} THEN 0 ELSE inode_read_at(store, root, Min(at))[2]
LiveFiles == ({Binding(n) : n \in Names} \cup {file[h].inode : h \in Handles}) \ {0}
InodeOf(f) == IF open_inodes[f].cnt > 0 THEN open_inodes[f].data ELSE AsHeader(store[f])

\* Every file that filesys_create has put into the directory, returning true,
\* can be opened by its name: offset 0 "is for parent directory" (lookup), and
\* no file gets there.
CreatedFound ==
  \A ofs \in 0 .. root.length - 1 :
    LET e == inode_read_at(store, root, ofs)
    IN  Len(e) = 2 /\ e[1] \in Names => Binding(e[1]) = e[2]

Store == INSTANCE FileStore WITH
  Files <- Sectors \ 0 .. RootData, NoFile <- 0, Zero <- << >>,
  Values <- {<<v>> : v \in Values}, Positions <- 0 .. MaxLength,
  Sizes <- CreateSizes \cup WriteSizes,
  names <- [n \in Names |-> Binding(n)],
  contents <- [f \in LiveFiles |-> Contents(InodeOf(f))],
  opened <- file

files_and_result == Store!vars
ParentSlot == inode_read_at(store, root, 0)

\* A create that takes the parent's entry, not marked as in use, for a free
\* one: it returns true, and nobody will find the file.
CreateAtParent == ParentSlot = ParentFree /\ ParentSlot' # ParentFree /\ Store!Nothing(TRUE)

\* The calls implement a store of named files: what a create that returns true
\* has made is found by its name, what is read is what was written, with zeros
\* elsewhere, a removed file lives until it is closed, writes are refused while
\* an opener denies them, a call that fails changes no file, and all of it
\* survives a restart.  One step is not what the store promises, and "Returns
\* true if successful" (filesys_create) is wrong there: CreateAtParent, which
\* can happen once on a device, and leaves everything else as promised.
ImplementsFileStore == Store!Init /\ [][Store!Next \/ CreateAtParent]_files_and_result
=============================================================================
